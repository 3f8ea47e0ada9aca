------------------------------- MODULE AppMain -------------------------------
(***************************************************************************)
(* The firmware's main loop, main/app_main.c, as the client of the recorder *)
(* of Storage: the five-state machine, the push button it polls, the flags  *)
(* of the status LEDs and, as the other user of the speaker, the ESP-NOW    *)
(* receive task reduced to when it plays.                                   *)
(*                                                                         *)
(* The body of app_main is sequential; between any two of its reads of the *)
(* button and its calls the record task, the receive task and the user's   *)
(* finger may move.  A storage_* call is the sequence of Storage's own     *)
(* steps: apc waits at the place behind the call until mpc is "idle".      *)
(* display_set_status only writes to the log and is left out.              *)
(***************************************************************************)
EXTENDS Storage

VARIABLES
    s_state,      \* app_state_t
    apc,          \* where app_main is outside the storage_* calls
    handler,      \* whose button_read_event is running: "idle" or "record"
    pressed,      \* the level of the button
    s_tx_active, s_rx_active,  \* status_leds.c: red is their disjunction
    rx,           \* where network_audio_rx_task is with the speaker
    asked,        \* history: a click has asked for a recording not yet begun
    fresh,        \* history: the current press has caused no event yet
    excused       \* history: why red may be off: a playback follows a start that failed or
                  \* never happened, STATE_ERROR has put out the LED of a reception

leds    == <<s_tx_active, s_rx_active, excused>>
appVars == <<vars, s_state, apc, handler, pressed, leds, rx, asked, fresh>>

storage == vars  \* every variable of the recorder
user    == <<pressed, fresh>>

AppStates == {"IDLE", "TX", "SD_RECORD", "SD_PLAYBACK", "ERROR"}
AppPcs    == {"boot", "switch", "sense", "debounce", "holding", "start",
              "started", "next", "nexted", "gave_up", "record_release", "stopped",
              "played", "tx_led", "tx_loop", "tx_confirm", "tx_stop", "tx_release"}

s_sd_ready == s_mounted  \* set when storage_init returned ESP_OK

AppInit ==
    /\ Init
    /\ s_state = "IDLE" /\ apc = "boot" /\ handler = "idle"
    /\ pressed \in BOOLEAN /\ fresh = pressed
    /\ s_tx_active = FALSE /\ s_rx_active = FALSE
    /\ rx = "idle"
    /\ asked = FALSE /\ excused = {}

-----------------------------------------------------------------------------
(* The storage_* calls: Main goes on once the call has returned. *)

Ready(pc) == apc = pc /\ mpc = "idle"
Call(op, pc) == op /\ apc' = pc

InsideCall ==  \* a step of storage_init or of a storage_* call
    /\ Boot \/ InCall
    /\ asked' = (asked /\ mpc' # "start_create")
    /\ UNCHANGED <<s_state, apc, handler, user, leds, rx>>

Booted ==
    /\ Ready("boot")
    /\ apc' = "switch"
    /\ UNCHANGED <<storage, s_state, handler, user, leds, rx, asked>>

-----------------------------------------------------------------------------
(* button_read_event and what its two callers do with the event *)

ReadEvent(h) == apc' = "sense" /\ handler' = h

NoEvent ==
    /\ apc' = IF handler = "idle" THEN "switch" ELSE "next"
    /\ UNCHANGED <<s_state, asked, fresh>>

\* handle_idle_state and handle_sd_record_state
Event(e) ==
    /\ fresh' = FALSE
    /\ IF handler = "idle"
       THEN /\ apc' = "switch"
            /\ s_state' = IF e = "HOLD" THEN "TX" ELSE "SD_RECORD"
            /\ asked' = (e = "CLICK")
       ELSE /\ apc' = "record_release"
            /\ UNCHANGED <<s_state, asked>>

Sense ==
    /\ apc = "sense"
    /\ \/ pressed /\ apc' = "debounce" /\ UNCHANGED <<s_state, asked, fresh>>
       \/ ~pressed /\ NoEvent
    /\ UNCHANGED <<storage, handler, pressed, leds, rx>>

Debounce ==
    /\ apc = "debounce"
    /\ \/ pressed /\ apc' = "holding" /\ UNCHANGED <<s_state, asked, fresh>>
       \/ ~pressed /\ NoEvent
    /\ UNCHANGED <<storage, handler, pressed, leds, rx>>

Holding ==  \* released before hold_ms have passed, or not
    /\ apc = "holding"
    /\ Event(IF pressed THEN "HOLD" ELSE "CLICK")
    /\ UNCHANGED <<storage, handler, pressed, leds, rx>>

IdleState ==
    /\ Ready("switch") /\ s_state = "IDLE"
    /\ ReadEvent("idle")
    /\ UNCHANGED <<storage, s_state, user, leds, rx, asked>>

-----------------------------------------------------------------------------
(* STATE_SD_RECORD: start_sd_recording when no recording is active, and then, *)
(* in any case, handle_sd_record_state.                                        *)

RecordNotReady ==
    /\ Ready("switch") /\ s_state = "SD_RECORD"
    /\ ~record_is_active /\ ~s_sd_ready
    /\ s_state' = "ERROR" /\ excused' = excused \cup {"playback"}
    /\ ReadEvent("record")
    /\ UNCHANGED <<storage, user, s_tx_active, s_rx_active, rx, asked>>

\* Mutant: the LED is left for the time when the start has succeeded.
RecordBegin_NoLed ==
    /\ Ready("switch") /\ s_state = "SD_RECORD"
    /\ ~record_is_active /\ s_sd_ready
    /\ apc' = "start"
    /\ UNCHANGED <<storage, s_state, handler, user, leds, rx, asked>>

RecordBegin ==
    /\ Ready("switch") /\ s_state = "SD_RECORD"
    /\ ~record_is_active /\ s_sd_ready
    /\ s_tx_active' = TRUE
    /\ apc' = "start"
    /\ UNCHANGED <<storage, s_state, handler, user, s_rx_active, excused, rx, asked>>

RecordStart ==
    /\ Ready("start")
    /\ Call(StartClear, "started")
    /\ UNCHANGED <<s_state, handler, user, leds, rx, asked>>

RecordStarted ==
    /\ Ready("started")
    /\ IF ret = "OK" THEN UNCHANGED <<s_tx_active, s_state, excused>>
                     ELSE /\ s_tx_active' = FALSE /\ s_state' = "ERROR"
                          /\ excused' = excused \cup {"playback"}
    /\ ReadEvent("record")
    /\ UNCHANGED <<storage, user, s_rx_active, rx, asked>>

RecordRunning ==  \* asked to stop: what is active is the task of an earlier recording
    /\ Ready("switch") /\ s_state = "SD_RECORD"
    /\ record_is_active
    /\ ReadEvent("record")
    /\ excused' = excused \cup (IF s_record_stop_requested THEN {"playback"} ELSE {})
    /\ UNCHANGED <<storage, s_state, user, s_tx_active, s_rx_active, rx, asked>>

\* Mutant: the click that ends a recording is not waited out.
RecordRelease_NoWait ==
    /\ apc = "record_release"
    /\ s_state' = "SD_PLAYBACK"
    /\ apc' = "switch"
    /\ UNCHANGED <<storage, handler, user, leds, rx, asked>>

RecordRelease ==  \* button_wait_for_release
    /\ apc = "record_release" /\ ~pressed
    /\ s_state' = "SD_PLAYBACK"
    /\ apc' = "switch"
    /\ UNCHANGED <<storage, handler, user, leds, rx, asked>>

RecordPoll ==
    /\ Ready("next")
    /\ Call(RecordNext, "nexted")
    /\ UNCHANGED <<s_state, handler, user, leds, rx, asked>>

RecordGoesOn ==
    /\ Ready("nexted") /\ ret = "OK"
    /\ apc' = "switch" /\ excused' = excused \ {"playback"}
    /\ UNCHANGED <<storage, s_state, handler, user, s_tx_active, s_rx_active, rx, asked>>

RecordGivesUp ==
    /\ Ready("nexted") /\ ret # "OK"
    /\ Call(StopClear, "gave_up")
    /\ UNCHANGED <<s_state, handler, user, leds, rx, asked>>

RecordGaveUp ==  \* the result of this storage_record_stop is ignored
    /\ Ready("gave_up")
    /\ s_tx_active' = FALSE
    /\ s_state' = "ERROR"
    /\ apc' = "switch" /\ excused' = excused \ {"playback"}
    /\ UNCHANGED <<storage, handler, user, s_rx_active, rx, asked>>

-----------------------------------------------------------------------------
(* STATE_SD_PLAYBACK: stop_sd_recording_and_play *)

PlaybackStop ==
    /\ Ready("switch") /\ s_state = "SD_PLAYBACK"
    /\ Call(StopClear, "stopped")
    /\ UNCHANGED <<s_state, handler, user, leds, rx, asked>>

PlaybackPlay ==
    /\ Ready("stopped") /\ ret = "OK"
    /\ Call(PlayCall, "played")
    /\ UNCHANGED <<s_state, handler, user, leds, rx, asked>>

PlaybackStopFailed ==
    /\ Ready("stopped") /\ ret # "OK"
    /\ s_tx_active' = FALSE
    /\ s_state' = "ERROR"
    /\ apc' = "switch" /\ excused' = excused \ {"playback"}
    /\ UNCHANGED <<storage, handler, user, s_rx_active, rx, asked>>

\* Mutant: the LED is switched off on the error path only.
PlaybackDone_LedStays ==
    /\ Ready("played")
    /\ s_tx_active' = (s_tx_active /\ ret = "OK")
    /\ s_state' = IF ret = "OK" THEN "IDLE" ELSE "ERROR"
    /\ apc' = "switch" /\ excused' = excused \ {"playback"}
    /\ UNCHANGED <<storage, handler, user, s_rx_active, rx, asked>>

PlaybackDone ==
    /\ Ready("played")
    /\ s_tx_active' = FALSE
    /\ s_state' = IF ret = "OK" THEN "IDLE" ELSE "ERROR"
    /\ apc' = "switch" /\ excused' = excused \ {"playback"}
    /\ UNCHANGED <<storage, handler, user, s_rx_active, rx, asked>>

-----------------------------------------------------------------------------
(* STATE_TX: run_live_push_to_talk.  Of network_audio_stream_* only the        *)
(* microphone and the LED matter here; a packet may fail at any time.          *)

LiveBegin ==
    /\ Ready("switch") /\ s_state = "TX"
    /\ Call(LiveStart, "tx_led")
    /\ UNCHANGED <<s_state, handler, user, leds, rx, asked>>

LiveRefused ==
    /\ Ready("switch") /\ s_state = "TX"
    /\ s_state' = "ERROR"
    /\ apc' = "tx_release"
    /\ UNCHANGED <<storage, handler, user, leds, rx, asked>>

LiveLed ==
    /\ apc = "tx_led"
    /\ s_tx_active' = TRUE
    /\ apc' = "tx_loop"
    /\ UNCHANGED <<storage, s_state, handler, user, s_rx_active, excused, rx, asked>>

LivePacket ==  \* button_release_confirmed is false; the packet may fail
    /\ apc = "tx_loop" /\ pressed
    /\ apc' \in {"tx_loop", "tx_stop"}
    /\ UNCHANGED <<storage, s_state, handler, user, leds, rx, asked>>

LiveReleased ==
    /\ apc = "tx_loop" /\ ~pressed
    /\ apc' = "tx_confirm"
    /\ UNCHANGED <<storage, s_state, handler, user, leds, rx, asked>>

LiveConfirm ==
    /\ apc = "tx_confirm"
    /\ apc' = IF pressed THEN "tx_loop" ELSE "tx_stop"
    /\ UNCHANGED <<storage, s_state, handler, user, leds, rx, asked>>

LiveEnd ==
    /\ apc = "tx_stop"
    /\ Call(LiveStop, "tx_release")
    /\ s_tx_active' = FALSE
    /\ UNCHANGED <<s_state, handler, user, s_rx_active, excused, rx, asked>>

LiveRelease ==
    /\ apc = "tx_release" /\ ~pressed
    /\ s_state' = IF s_state = "TX" THEN "IDLE" ELSE s_state
    /\ apc' = "switch"
    /\ UNCHANGED <<storage, handler, user, leds, rx, asked>>

-----------------------------------------------------------------------------
(* STATE_ERROR *)

\* Mutant: the error is shown until the button is pressed.
ErrorState_TilPress ==
    /\ Ready("switch") /\ s_state = "ERROR"
    /\ s_tx_active' = FALSE /\ s_rx_active' = FALSE
    /\ excused' = excused \cup (IF rx = "playing" THEN {"reception"} ELSE {})
    /\ s_state' = IF ~pressed THEN s_state ELSE "IDLE"
    /\ UNCHANGED <<storage, apc, handler, user, rx, asked>>

ErrorState ==
    /\ Ready("switch") /\ s_state = "ERROR"
    /\ s_tx_active' = FALSE /\ s_rx_active' = FALSE
    /\ excused' = excused \cup (IF rx = "playing" THEN {"reception"} ELSE {})
    /\ s_state' = IF pressed THEN s_state ELSE "IDLE"
    /\ UNCHANGED <<storage, apc, handler, user, rx, asked>>

-----------------------------------------------------------------------------
(* The other threads: the record task, the receive task, the user. *)

Recorder ==
    /\ \E w \in Workers : RecordTask(w)
    /\ UNCHANGED <<s_state, apc, handler, user, leds, rx, asked>>

\* Mutant: the result of audio_speaker_start is not looked at.
RxStarts_Unchecked ==
    /\ rx = "idle"
    /\ spk' = "rx"
    /\ rx' = "started"
    /\ UNCHANGED <<shared, notified, disk, mic, main, worker, s_state, apc,
                   handler, user, leds, asked>>

RxStarts ==
    /\ rx = "idle" /\ RxTakesSpeaker
    /\ rx' = "started"
    /\ UNCHANGED <<s_state, apc, handler, user, leds, asked>>

RxRefused ==  \* the speaker is busy or cannot be enabled: the stream is dropped
    /\ rx = "idle"
    /\ s_rx_active' = FALSE
    /\ UNCHANGED <<storage, s_state, apc, handler, user, s_tx_active, excused, rx, asked>>

RxLights ==
    /\ rx = "started"
    /\ rx' = "playing" /\ s_rx_active' = TRUE
    /\ UNCHANGED <<storage, s_state, apc, handler, user, s_tx_active, excused, asked>>

RxStops ==
    /\ rx = "playing" /\ RxReleasesSpeaker
    /\ rx' = "stopped"
    /\ excused' = excused \ {"reception"}
    /\ UNCHANGED <<s_state, apc, handler, user, s_tx_active, s_rx_active, asked>>

\* i2s_channel_disable fails: audio.c has let go of the speaker, the receive task
\* believes it still has it and tries, in vain, to stop it before the next stream.
RxStopFails ==
    /\ rx = "playing" /\ RxReleasesSpeaker
    /\ rx' = "stuck"
    /\ excused' = excused \ {"reception"}
    /\ UNCHANGED <<s_state, apc, handler, user, s_tx_active, s_rx_active, asked>>

RxDims ==
    /\ rx = "stopped"
    /\ rx' = "idle" /\ s_rx_active' = FALSE
    /\ UNCHANGED <<storage, s_state, apc, handler, user, s_tx_active, excused, asked>>

Press ==
    /\ ~pressed
    /\ pressed' = TRUE /\ fresh' = TRUE
    /\ UNCHANGED <<storage, s_state, apc, handler, leds, rx, asked>>

Release ==
    /\ pressed
    /\ pressed' = FALSE
    /\ UNCHANGED <<storage, s_state, apc, handler, leds, rx, asked, fresh>>

App ==
    \/ InsideCall \/ Booted
    \/ Sense \/ Debounce \/ Holding \/ IdleState
    \/ RecordNotReady \/ RecordBegin \/ RecordStart \/ RecordStarted
    \/ RecordRunning \/ RecordRelease \/ RecordPoll \/ RecordGoesOn
    \/ RecordGivesUp \/ RecordGaveUp
    \/ PlaybackStop \/ PlaybackPlay \/ PlaybackStopFailed \/ PlaybackDone
    \/ LiveBegin \/ LiveRefused \/ LiveLed \/ LivePacket \/ LiveReleased
    \/ LiveConfirm \/ LiveEnd \/ LiveRelease
    \/ ErrorState

RxTask == RxStarts \/ RxRefused \/ RxLights \/ RxStops \/ RxStopFails \/ RxDims

AppNext == App \/ Recorder \/ RxTask \/ Press \/ Release

AppSpec == AppInit /\ [][AppNext]_appVars

\* The main task is never starved: it runs alone at its priority on a core whose
\* busier tasks block on the SD card, the microphone or a queue.
AppFairSpec == AppSpec /\ WF_appVars(App) /\ WF_appVars(Recorder)

-----------------------------------------------------------------------------
(* Properties *)

\* Every variable stays within its type.
AppTypeOK ==
    /\ TypeOK
    /\ s_state \in AppStates /\ apc \in AppPcs
    /\ handler \in {"idle", "record"}
    /\ pressed \in BOOLEAN /\ fresh \in BOOLEAN /\ asked \in BOOLEAN
    /\ s_tx_active \in BOOLEAN /\ s_rx_active \in BOOLEAN
    /\ rx \in {"idle", "started", "playing", "stopped", "stuck"}
    /\ excused \subseteq {"playback", "reception"}

\* src/README.md:46: red is lit during a recording, its playback, a live call and a
\* reception, whatever the other threads do to the flags.  Three paths break it: a press
\* read in the very pass in which a start has failed plays the old recording with the
\* LED off; so does a click while the task of a start or a stop that timed out is still
\* ending: storage_record_is_active is true and start_sd_recording is skipped; and
\* STATE_ERROR puts out the LED of a reception that goes on.
RedTellsActivity ==
    /\ s_record_state = "ACTIVE" /\ ~record_stop_requested => s_tx_active
    /\ spk = "main" => s_tx_active \/ "playback" \in excused
    /\ apc \in {"tx_loop", "tx_confirm"} => s_tx_active
    /\ rx = "playing" => s_rx_active \/ "reception" \in excused

\* Back in STATE_IDLE the application has put out its half of the red LED,
\* given back the microphone and is inside no storage_* call, on every path.
IdleIsClean ==
    s_state = "IDLE" /\ apc # "boot" =>
        ~s_tx_active /\ mic # Main /\ spk # "main" /\ mpc = "idle"

\* Types, and an idle state that holds nothing.
AppInv == AppTypeOK /\ IdleIsClean

\* One press of the button causes at most one event: the finger that has ended a
\* recording or a live call does not go on to start the next thing.
OneEventPerPress ==
    [][apc = "holding" /\ apc' # "holding" => fresh]_appVars

\* Left alone, the application comes back to STATE_IDLE from a live call, from a
\* playback and from an error.
AppSettles ==
    s_state \in {"TX", "SD_PLAYBACK", "ERROR"} ~> pressed \/ s_state = "IDLE"

\* Whatever the button, the receive task and failed calls make app_main do, it
\* uses the recorder and the audio devices only as Storage says a client does, so
\* all that is proved of Storage holds in the firmware.
UsesRecorderAsClient == Spec

\* (Refuted) Every recording that begins was asked for by a click of its own.
RecordingIsAsked ==
    [][mpc = "start_enter" /\ mpc' = "start_create" => asked]_appVars
==============================================================================
