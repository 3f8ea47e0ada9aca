------------------------------ MODULE AppProofs ------------------------------
(***************************************************************************)
(* app_main as a client of the recorder, proved for every set of record     *)
(* tasks and every size of the card: each of its steps, and each step of    *)
(* the button, the LEDs and the receive task, is a step of Storage or       *)
(* leaves the recorder alone.  What StorageProofs proves of Storage then    *)
(* holds of the whole firmware.                                             *)
(*                                                                         *)
(* AppIInv adds to the recorder's invariant what app_main knows at each     *)
(* place of its body: where a call can be, what the state may be, that      *)
(* nothing it has given up goes on recording (RecordingInv), why the LED is *)
(* as it is (LedInv), and that a press is waited out once it has been read  *)
(* as an event (FingerInv).  SettlingGetsOn counts the steps that app_main   *)
(* has left on its way back to STATE_IDLE.                                  *)
(***************************************************************************)
EXTENDS AppMain, StorageProofs

\* A call storage_init, _start, _next, _stop or _play is made, or goes on.
LEMMA CallSteps ==
    ASSUME InsideCall \/ RecordStart \/ RecordPoll \/ RecordGivesUp
           \/ PlaybackStop \/ PlaybackPlay \/ LiveBegin \/ LiveEnd
    PROVE  Next
BY DEF InsideCall, RecordStart, RecordPoll, RecordGivesUp, PlaybackStop,
       PlaybackPlay, LiveBegin, LiveEnd, Call, Next

\* What app_main does between its calls does not touch the recorder.
LEMMA SilentSteps ==
    ASSUME \/ Booted \/ Sense \/ Debounce \/ Holding \/ IdleState
           \/ RecordNotReady \/ RecordBegin \/ RecordStarted \/ RecordRunning
           \/ RecordRelease \/ RecordGoesOn \/ RecordGaveUp
           \/ PlaybackStopFailed \/ PlaybackDone
           \/ LiveRefused \/ LiveLed \/ LivePacket \/ LiveReleased
           \/ LiveConfirm \/ LiveRelease \/ ErrorState \/ Press \/ Release
    PROVE  UNCHANGED vars
BY DEF Booted, Sense, Debounce, Holding, IdleState, RecordNotReady, RecordBegin,
       RecordStarted, RecordRunning, RecordRelease, RecordGoesOn, RecordGaveUp,
       PlaybackStopFailed, PlaybackDone, LiveRefused, LiveLed, LivePacket,
       LiveReleased, LiveConfirm, LiveRelease, ErrorState, Press, Release, storage

\* The record task and the receive task take their steps of Storage.
LEMMA OtherSteps ==
    ASSUME Recorder \/ RxTask
    PROVE  Next \/ UNCHANGED vars
BY DEF Recorder, RxTask, RxStarts, RxRefused, RxLights, RxStops, RxStopFails,
       RxDims, Next, Rx, storage

\* Every step of the firmware is a step of the client that Storage describes.
LEMMA ClientStep == ASSUME [AppNext]_appVars PROVE [Next]_vars
<1>1. CASE App
  BY <1>1, CallSteps, SilentSteps DEF App
<1>2. CASE Recorder \/ RxTask
  BY <1>2, OtherSteps
<1>3. CASE Press \/ Release
  BY <1>3, SilentSteps
<1>4. CASE UNCHANGED appVars
  BY <1>4 DEF appVars
<1>. QED
  BY <1>1, <1>2, <1>3, <1>4 DEF AppNext

\* The firmware implements the client that Storage describes.
THEOREM AppImplementsClient == AppSpec => UsesRecorderAsClient
<1>1. AppInit => Init
  BY DEF AppInit
<1>2. [AppNext]_appVars => [Next]_vars
  BY ClientStep
<1>. QED
  BY <1>1, <1>2, PTL DEF AppSpec, UsesRecorderAsClient, Spec

\* In the whole firmware, whatever the user does and whatever fails: one recorder
\* at a time, playback of a closed file only, no overstated header, IDLE only with
\* the recording complete on the card, and no file left open but by the one return
\* of storage_play_recording.
THEOREM FirmwareIsSafe ==
    AppSpec => /\ []OneRecorder /\ []PlaybackSeesClosedFile
               /\ []HeaderNeverOverstates /\ SavedWhenIdle /\ HandlesAccounted
BY AppImplementsClient, RecorderIsUnique, PlaybackIsSafe, HeaderIsSound,
   IdleMeansSaved, HandlesBalance, PTL DEF UsesRecorderAsClient

-----------------------------------------------------------------------------
(* The inductive invariant of the application, beside IInv of the recorder. *)

StartPcs == {"start_enter", "start_create", "start_nomem", "start_wait",
             "start_timeout", "start_result"}
StopPcs  == {"stop_enter", "stop_wait", "stop_timeout", "stop_result"}
LivePcs  == {"tx_led", "tx_loop", "tx_confirm", "tx_stop"}

\* A recording goes on, or is about to, and nobody has asked it to stop.
Recording ==
    s_record_state \in {"STARTING", "ACTIVE"} /\ ~record_stop_requested

\* Where Main can be inside the recorder while app_main is behind a call.
CallPcs ==
    CASE apc = "boot" -> {"boot", "idle"}
      [] apc = "started" -> StartPcs \cup {"idle"}
      [] apc \in {"gave_up", "stopped"} -> StopPcs \cup {"idle"}
      [] apc = "played" -> PlayPcs \cup {"idle"}
      [] apc \in LivePcs -> {"live"}
      [] OTHER -> {"idle"}

\* The states app_main can be in at a place of its body.
CallStates ==
    CASE apc = "switch" -> AppStates
      [] apc = "boot" -> {"IDLE"}
      [] apc \in {"sense", "debounce", "holding"} ->
             IF handler = "idle" THEN {"IDLE"} ELSE {"SD_RECORD", "ERROR"}
      [] apc \in {"start", "started"} -> {"SD_RECORD"}
      [] apc \in {"next", "nexted", "gave_up", "record_release"} ->
             {"SD_RECORD", "ERROR"}
      [] apc \in {"stopped", "played"} -> {"SD_PLAYBACK"}
      [] apc \in LivePcs -> {"TX"}
      [] OTHER -> {"TX", "ERROR"}

\* app_main is where its place says, in a state its place allows.
PlaceInv == mpc \in CallPcs /\ s_state \in CallStates

\* Who is asked to stop is asked by both flags; only STOPPING outlives a request.
StopInv ==
    /\ s_record_start_cancel_requested => s_record_stop_requested
    /\ s_record_state = "STOPPING" => s_record_stop_requested

\* Main has the speaker in the loop of a playback only.
SpeakerInv == spk = "main" => mpc \in {"play_loop", "play_stop"}

\* The recorder at the places behind a call: a start that failed and a stop that
\* has begun leave no recording that goes on.
RecordingInv ==
    /\ Recording => s_tx_active /\ s_state \in {"SD_RECORD", "SD_PLAYBACK"}
    /\ apc = "start" \/ mpc = "start_enter" => ~record_is_active
    /\ apc = "started" /\ mpc = "idle" /\ ret # "OK" => ~Recording
    /\ apc \in {"gave_up", "stopped"} /\ mpc # "stop_enter" => ~Recording
    /\ apc = "played" => ~Recording

\* The LED's two halves.
LedInv ==
    /\ s_state = "IDLE" => ~s_tx_active
    /\ s_state = "TX" /\ apc \in {"switch", "tx_release"} => ~s_tx_active
    /\ apc \in {"start", "started", "tx_loop", "tx_confirm", "tx_stop"} =>
           s_tx_active
    /\ \/ s_state = "SD_PLAYBACK"
       \/ apc = "record_release"
       \/ apc \in {"sense", "debounce", "holding"} /\ handler = "record"
       => s_tx_active \/ "playback" \in excused
    /\ rx = "playing" => s_rx_active \/ "reception" \in excused

\* A press that has caused its event is waited out before the button is read again.
FingerInv ==
    /\ pressed /\ ~fresh =>
           \/ apc = "switch" /\ s_state = "TX"
           \/ apc \in LivePcs \cup {"tx_release", "record_release"}
    /\ apc = "holding" => fresh

AppIInv ==
    /\ IInv /\ AppTypeOK /\ PlaceInv /\ StopInv /\ SpeakerInv /\ RecordingInv
    /\ LedInv /\ FingerInv

-----------------------------------------------------------------------------
(* What the recorder's own steps do to a recording and to the speaker. *)

\* Main leaves a call only to "idle".
LEMMA CallPlaces ==
    /\ Boot => mpc = "boot" /\ mpc' \in {"boot", "idle"}
    /\ StartBody => mpc \in StartPcs /\ mpc' \in StartPcs \cup {"idle"}
    /\ StopBody => mpc \in StopPcs /\ mpc' \in StopPcs \cup {"idle"}
    /\ PlayBody => mpc \in PlayPcs /\ mpc' \in PlayPcs \cup {"idle"}
<1> USE DEF Return, main
<1>1. Boot => mpc = "boot" /\ mpc' \in {"boot", "idle"}
  BY DEF Boot, BusFailed, MountSucceeds, MountFails
<1>2. StartBody => mpc \in StartPcs /\ mpc' \in StartPcs \cup {"idle"}
  BY DEF StartBody, StartRefused, StartEnter, CreateTask, CreateFails, StartNoMem,
     StartWoken, StartTimesOut, StartCancel, StartResult, StartPcs
<1>3. StopBody => mpc \in StopPcs /\ mpc' \in StopPcs \cup {"idle"}
  BY DEF StopBody, StopInactive, StopEnter, StopWoken, StopTimesOut, StopGiveUp,
     StopResult, StopPcs
<1>4. PlayBody => mpc \in PlayPcs /\ mpc' \in PlayPcs \cup {"idle"}
  BY DEF PlayBody, PlayOpen, PlayOpenFails, PlayHeader, PlayRejects, PlaySpeaker,
     PlaySpeakerFails, PlayChunk, PlayEnds, PlayStop, PlayClose, PlayPcs
<1>. QED
  BY <1>1, <1>2, <1>3, <1>4

\* A record task never moves Main, begins no recording of its own, and only ever
\* asks for a stop where the recording was cancelled.
LEMMA TaskStep ==
    ASSUME IInv, StopInv, NEW w \in Workers, RecordTask(w)
    PROVE  /\ StopInv'
           /\ UNCHANGED <<main, spk>>
           /\ Recording' => Recording
           /\ ~record_is_active => ~record_is_active'
<1> USE DEF StopInv, Recording, record_is_active, record_stop_requested, IInv,
        TypeOK, FlagsOK, RecorderInv, SomeBody, Body, BodyPcs, flags, waiters,
        result, shared, sound
<1>1. CASE OpenFile(w) BY <1>1 DEF OpenFile
<1>2. CASE OpenFails(w) BY <1>2 DEF OpenFails
<1>3. CASE WriteHeader(w) BY <1>3 DEF WriteHeader
<1>4. CASE MicStart(w) BY <1>4 DEF MicStart
<1>5. CASE CheckStop(w) BY <1>5 DEF CheckStop
<1>6. CASE Cancel(w) BY <1>6 DEF Cancel
<1>7. CASE Abort(w) BY <1>7 DEF Abort
<1>8. CASE Activate(w) BY <1>8 DEF Activate
<1>9. CASE NotifyActive(w) BY <1>9 DEF NotifyActive
<1>10. CASE Loop(w) BY <1>10 DEF Loop
<1>11. CASE ChunkSaved(w) BY <1>11 DEF ChunkSaved
<1>12. CASE ChunkFails(w) BY <1>12 DEF ChunkFails
<1>13. CASE MicStop(w) BY <1>13 DEF MicStop
<1>14. CASE RewriteHeader(w) BY <1>14 DEF RewriteHeader
<1>15. CASE CloseFile(w) BY <1>15 DEF CloseFile
<1>16. CASE Finish(w) BY <1>16 DEF Finish
<1>17. CASE GiveStart(w) BY <1>17 DEF GiveStart
<1>18. CASE GiveStop(w) BY <1>18 DEF GiveStop
<1>19. CASE DeleteSelf(w) BY <1>19 DEF DeleteSelf
<1>. QED
  BY <1>1, <1>2, <1>3, <1>4, <1>5, <1>6, <1>7, <1>8, <1>9, <1>10, <1>11, <1>12,
     <1>13, <1>14, <1>15, <1>16, <1>17, <1>18, <1>19
     DEF RecordTask

\* Main alone begins a recording, and only with StartEnter.
LEMMA MainStep ==
    ASSUME IInv, StopInv, Boot \/ InCall \/ StartClear \/ RecordNext \/ StopClear
                          \/ PlayCall \/ LiveStart \/ LiveStop \/ Rx
    PROVE  /\ StopInv'
           /\ mpc # "start_enter" => (Recording' => Recording)
<1> USE DEF StopInv, Recording, record_is_active, record_stop_requested, IInv,
        TypeOK, FlagsOK, flags, waiters, result, shared
<1>1. CASE Boot
  BY <1>1 DEF Boot, BusFailed, MountSucceeds, MountFails
<1>2. CASE StartBody
  BY <1>2 DEF StartBody, StartRefused, StartEnter, CreateTask, CreateFails,
     StartNoMem, StartWoken, StartTimesOut, StartCancel, StartResult
<1>3. CASE StopBody
  BY <1>3 DEF StopBody, StopInactive, StopEnter, StopWoken, StopTimesOut,
     StopGiveUp, StopResult
<1>4. CASE PlayBody
  BY <1>4 DEF PlayBody, PlayOpen, PlayOpenFails, PlayHeader, PlayRejects,
     PlaySpeaker, PlaySpeakerFails, PlayChunk, PlayEnds, PlayStop, PlayClose
<1>5. CASE StartClear \/ RecordNext \/ StopClear \/ PlayCall
  BY <1>5 DEF StartClear, RecordNext, StopClear, PlayCall
<1>6. CASE LiveStart \/ LiveStop \/ Rx
  BY <1>6 DEF LiveStart, LiveStop, Rx, RxTakesSpeaker, RxReleasesSpeaker
<1>. QED
  BY <1>1, <1>2, <1>3, <1>4, <1>5, <1>6 DEF InCall

\* The speaker is Main's in the loop of a playback and nowhere else.
LEMMA SpeakerStep ==
    ASSUME IInv, SpeakerInv, [Next]_vars
    PROVE  SpeakerInv'
<1> USE DEF SpeakerInv, Return, sound, main
<1>1. CASE Boot
  BY <1>1 DEF Boot, BusFailed, MountSucceeds, MountFails
<1>2. CASE StartBody
  BY <1>2 DEF StartBody, StartRefused, StartEnter, CreateTask, CreateFails,
     StartNoMem, StartWoken, StartTimesOut, StartCancel, StartResult
<1>3. CASE StopBody
  BY <1>3 DEF StopBody, StopInactive, StopEnter, StopWoken, StopTimesOut,
     StopGiveUp, StopResult
<1>4. CASE PlayBody
  BY <1>4 DEF PlayBody, PlayOpen, PlayOpenFails, PlayHeader, PlayRejects,
     PlaySpeaker, PlaySpeakerFails, PlayChunk, PlayEnds, PlayStop, PlayClose
<1>5. CASE StartClear \/ RecordNext \/ StopClear \/ PlayCall
  BY <1>5 DEF StartClear, RecordNext, StopClear, PlayCall
<1>6. CASE LiveStart \/ LiveStop \/ Rx
  BY <1>6 DEF LiveStart, LiveStop, Rx, RxTakesSpeaker, RxReleasesSpeaker
<1>7. ASSUME NEW w \in Workers, RecordTask(w) PROVE SpeakerInv'
  <2>1. CASE OpenFile(w) BY <2>1 DEF OpenFile
  <2>2. CASE OpenFails(w) BY <2>2 DEF OpenFails
  <2>3. CASE WriteHeader(w) BY <2>3 DEF WriteHeader
  <2>4. CASE MicStart(w) BY <2>4 DEF MicStart
  <2>5. CASE CheckStop(w) BY <2>5 DEF CheckStop
  <2>6. CASE Cancel(w) BY <2>6 DEF Cancel
  <2>7. CASE Abort(w) BY <2>7 DEF Abort
  <2>8. CASE Activate(w) BY <2>8 DEF Activate
  <2>9. CASE NotifyActive(w) BY <2>9 DEF NotifyActive
  <2>10. CASE Loop(w) BY <2>10 DEF Loop
  <2>11. CASE ChunkSaved(w) BY <2>11 DEF ChunkSaved
  <2>12. CASE ChunkFails(w) BY <2>12 DEF ChunkFails
  <2>13. CASE MicStop(w) BY <2>13 DEF MicStop
  <2>14. CASE RewriteHeader(w) BY <2>14 DEF RewriteHeader
  <2>15. CASE CloseFile(w) BY <2>15 DEF CloseFile
  <2>16. CASE Finish(w) BY <2>16 DEF Finish
  <2>17. CASE GiveStart(w) BY <2>17 DEF GiveStart
  <2>18. CASE GiveStop(w) BY <2>18 DEF GiveStop
  <2>19. CASE DeleteSelf(w) BY <2>19 DEF DeleteSelf
  <2>. QED
    BY <1>7, <2>1, <2>2, <2>3, <2>4, <2>5, <2>6, <2>7, <2>8, <2>9, <2>10, <2>11,
       <2>12, <2>13, <2>14, <2>15, <2>16, <2>17, <2>18, <2>19
       DEF RecordTask
<1>8. CASE UNCHANGED vars
  BY <1>8 DEF vars
<1>. QED
  BY <1>1, <1>2, <1>3, <1>4, <1>5, <1>6, <1>7, <1>8 DEF Next, InCall

-----------------------------------------------------------------------------
(* One lemma per part: every step of the firmware keeps it. *)

\* The types of the application's own variables.
LEMMA AppTypeStep == ASSUME AppIInv, [AppNext]_appVars PROVE AppTypeOK'
<1>0. TypeOK'
  BY ClientStep, TypeStep DEF AppIInv
<1> USE <1>0 DEF AppIInv, AppTypeOK, AppStates, AppPcs, ReadEvent, NoEvent, Event,
        Call, leds, user
<1>1. CASE InsideCall
  BY <1>1 DEF InsideCall
<1>2. CASE Booted
  BY <1>2 DEF Booted
<1>3. CASE Sense
  BY <1>3 DEF Sense
<1>4. CASE Debounce
  BY <1>4 DEF Debounce
<1>5. CASE Holding
  BY <1>5 DEF Holding
<1>6. CASE IdleState
  BY <1>6 DEF IdleState
<1>7. CASE RecordNotReady
  BY <1>7 DEF RecordNotReady
<1>8. CASE RecordBegin
  BY <1>8 DEF RecordBegin
<1>9. CASE RecordStart
  BY <1>9 DEF RecordStart
<1>10. CASE RecordStarted
  BY <1>10 DEF RecordStarted
<1>11. CASE RecordRunning
  BY <1>11 DEF RecordRunning
<1>12. CASE RecordRelease
  BY <1>12 DEF RecordRelease
<1>13. CASE RecordPoll
  BY <1>13 DEF RecordPoll
<1>14. CASE RecordGoesOn
  BY <1>14 DEF RecordGoesOn
<1>15. CASE RecordGivesUp
  BY <1>15 DEF RecordGivesUp
<1>16. CASE RecordGaveUp
  BY <1>16 DEF RecordGaveUp
<1>17. CASE PlaybackStop
  BY <1>17 DEF PlaybackStop
<1>18. CASE PlaybackPlay
  BY <1>18 DEF PlaybackPlay
<1>19. CASE PlaybackStopFailed
  BY <1>19 DEF PlaybackStopFailed
<1>20. CASE PlaybackDone
  BY <1>20 DEF PlaybackDone
<1>21. CASE LiveBegin
  BY <1>21 DEF LiveBegin
<1>22. CASE LiveRefused
  BY <1>22 DEF LiveRefused
<1>23. CASE LiveLed
  BY <1>23 DEF LiveLed
<1>24. CASE LivePacket
  BY <1>24 DEF LivePacket
<1>25. CASE LiveReleased
  BY <1>25 DEF LiveReleased
<1>26. CASE LiveConfirm
  BY <1>26 DEF LiveConfirm
<1>27. CASE LiveEnd
  BY <1>27 DEF LiveEnd
<1>28. CASE LiveRelease
  BY <1>28 DEF LiveRelease
<1>29. CASE ErrorState
  BY <1>29 DEF ErrorState
<1>30. CASE Recorder
  BY <1>30 DEF Recorder
<1>31. CASE RxStarts
  BY <1>31 DEF RxStarts
<1>32. CASE RxRefused
  BY <1>32 DEF RxRefused
<1>33. CASE RxLights
  BY <1>33 DEF RxLights
<1>34. CASE RxStops
  BY <1>34 DEF RxStops
<1>35. CASE RxStopFails
  BY <1>35 DEF RxStopFails
<1>36. CASE RxDims
  BY <1>36 DEF RxDims
<1>37. CASE Press
  BY <1>37 DEF Press
<1>38. CASE Release
  <2>1. pressed' \in BOOLEAN /\ fresh' \in BOOLEAN /\ asked' \in BOOLEAN
    BY <1>38 DEF Release
  <2>2. UNCHANGED <<s_state, apc, handler, leds, rx>>
    BY <1>38 DEF Release
  <2>. QED
    BY <2>1, <2>2
<1>39. CASE UNCHANGED appVars
  BY <1>39 DEF appVars
<1>. QED
  BY <1>1, <1>2, <1>3, <1>4, <1>5, <1>6, <1>7, <1>8, <1>9, <1>10, <1>11, <1>12,
     <1>13, <1>14, <1>15, <1>16, <1>17, <1>18, <1>19, <1>20, <1>21, <1>22,
     <1>23, <1>24, <1>25, <1>26, <1>27, <1>28, <1>29, <1>30, <1>31, <1>32,
     <1>33, <1>34, <1>35, <1>36, <1>37, <1>38, <1>39
     DEF AppNext, App, RxTask

\* app_main is where its place says, in a state its place allows.
LEMMA PlaceInvStep == ASSUME AppIInv, [AppNext]_appVars PROVE PlaceInv'
<1> USE DEF AppIInv, AppTypeOK, PlaceInv, CallPcs, CallStates, LivePcs, AppStates,
        ReadEvent, NoEvent, Event, Ready, Call, leds, user, storage, vars, main
<1>1. CASE InsideCall
  <2>. s_state' = s_state /\ apc' = apc /\ handler' = handler
    BY <1>1 DEF InsideCall
  <2>1. CallStates' = CallStates
    BY DEF CallStates
  <2>2. mpc' \in CallPcs'
    BY <1>1, CallPlaces DEF InsideCall, InCall, StartPcs, StopPcs, PlayPcs
  <2>. QED
    BY <2>1, <2>2
<1>2. CASE Booted \/ Sense \/ Debounce \/ Holding \/ IdleState
  BY <1>2 DEF Booted, Sense, Debounce, Holding, IdleState
<1>3. CASE RecordNotReady \/ RecordBegin \/ RecordStarted \/ RecordRunning
           \/ RecordRelease \/ RecordGoesOn \/ RecordGaveUp
  BY <1>3 DEF RecordNotReady, RecordBegin, RecordStarted, RecordRunning,
         RecordRelease, RecordGoesOn, RecordGaveUp
<1>4. CASE RecordStart
  BY <1>4 DEF RecordStart, StartClear, Return, StartPcs
<1>5. CASE RecordPoll
  BY <1>5 DEF RecordPoll, RecordNext, Return
<1>6. CASE RecordGivesUp
  BY <1>6 DEF RecordGivesUp, StopClear, StopPcs
<1>7. CASE PlaybackStopFailed \/ PlaybackDone
  BY <1>7 DEF PlaybackStopFailed, PlaybackDone
<1>8. CASE PlaybackStop
  BY <1>8 DEF PlaybackStop, StopClear, StopPcs
<1>9. CASE PlaybackPlay
  BY <1>9 DEF PlaybackPlay, PlayCall, Return, PlayPcs
<1>10. CASE LiveRefused \/ LiveLed \/ LivePacket \/ LiveReleased \/ LiveConfirm
            \/ LiveRelease
  BY <1>10 DEF LiveRefused, LiveLed, LivePacket, LiveReleased, LiveConfirm,
         LiveRelease
<1>11. CASE LiveBegin
  BY <1>11 DEF LiveBegin, LiveStart
<1>12. CASE LiveEnd
  BY <1>12 DEF LiveEnd, LiveStop
<1>13. CASE ErrorState
  BY <1>13 DEF ErrorState
<1>14. CASE Recorder
  BY <1>14, TaskStep DEF Recorder
<1>15. CASE RxRefused \/ RxLights \/ RxDims
  BY <1>15 DEF RxRefused, RxLights, RxDims
<1>16. CASE RxStarts
  BY <1>16 DEF RxStarts, RxTakesSpeaker
<1>17. CASE RxStops
  BY <1>17 DEF RxStops, RxReleasesSpeaker
<1>18. CASE RxStopFails
  BY <1>18 DEF RxStopFails, RxReleasesSpeaker
<1>19. CASE Press \/ Release
  BY <1>19 DEF Press, Release
<1>20. CASE UNCHANGED appVars
  BY <1>20 DEF appVars
<1>. QED
  BY <1>1, <1>2, <1>3, <1>4, <1>5, <1>6, <1>7, <1>8, <1>9, <1>10, <1>11, <1>12,
     <1>13, <1>14, <1>15, <1>16, <1>17, <1>18, <1>19, <1>20
     DEF AppNext, App, RxTask

\* Both flags ask for a stop, whoever moves.
LEMMA StopStep == ASSUME AppIInv, [AppNext]_appVars PROVE StopInv'
<1>1. [Next]_vars
  BY ClientStep
<1>2. CASE \E w \in Workers : RecordTask(w)
  BY <1>2, TaskStep DEF AppIInv
<1>3. CASE UNCHANGED vars
  BY <1>3 DEF AppIInv, StopInv, vars, shared, flags
<1>. QED
  BY <1>1, <1>2, <1>3, MainStep DEF AppIInv, Next

\* A recording is the same recording while the recorder's own state stays.
LEMMA Untouched ==
    ASSUME UNCHANGED shared
    PROVE  /\ Recording' <=> Recording
           /\ record_is_active' <=> record_is_active
BY DEF Recording, record_is_active, record_stop_requested, shared, flags

\* No step leaves a recording going on behind the application's back.
LEMMA RecordingInvStep == ASSUME AppIInv, [AppNext]_appVars PROVE RecordingInv'
<1>. /\ IInv /\ StopInv /\ PlaceInv /\ LedInv /\ RecordingInv
     /\ s_tx_active \in BOOLEAN
  BY DEF AppIInv, AppTypeOK
<1> USE DEF RecordingInv, ReadEvent, NoEvent, Event, Ready, Call, leds, user
<1>1. CASE InsideCall
  <2>. UNCHANGED <<s_state, apc, s_tx_active>>
    BY <1>1 DEF InsideCall
  <2>1. CASE Boot
    <3>1. (Recording' => Recording) /\ mpc = "boot" /\ mpc' \in {"boot", "idle"}
      BY <2>1, MainStep, CallPlaces
    <3>. QED
      BY <3>1, <2>1 DEF PlaceInv, CallPcs, StartPcs, StopPcs, PlayPcs, LivePcs
  <2>2. CASE StartBody
    <3>1. apc = "started" /\ mpc \in StartPcs /\ mpc' # "start_enter"
      BY <2>2, CallPlaces DEF PlaceInv, CallPcs, StopPcs, StartPcs, PlayPcs,
         StartBody, StartRefused, StartEnter, CreateTask, CreateFails,
         StartNoMem, StartWoken, StartTimesOut, StartCancel, StartResult, Return
    <3>2. s_tx_active /\ s_state = "SD_RECORD"
      BY <3>1 DEF LedInv, PlaceInv, CallStates, LivePcs
    <3>3. mpc' = "idle" /\ ret' # "OK" => ~Recording'
      BY <2>2 DEF Recording, record_is_active, record_stop_requested, IInv, TypeOK,
         StartBody, StartRefused, StartEnter, CreateTask, CreateFails, StartNoMem,
         StartWoken, StartTimesOut, StartCancel, StartResult, Return, flags
    <3>. QED
      BY <3>1, <3>2, <3>3
  <2>3. CASE StopBody
    <3>1. /\ apc \in {"gave_up", "stopped"}
          /\ mpc' \notin {"start_enter", "stop_enter"}
      BY <2>3, CallPlaces DEF PlaceInv, CallPcs, StopPcs, StartPcs, PlayPcs,
         StopBody, StopInactive, StopEnter, StopWoken, StopTimesOut, StopGiveUp,
         StopResult,
         Return
    <3>2. ~Recording'
      <4>1. CASE mpc = "stop_enter"
        BY <2>3, <4>1 DEF Recording, record_is_active, StopBody, StopInactive,
           StopEnter, StopWoken, StopTimesOut, StopGiveUp, StopResult, shared,
           flags, record_stop_requested
      <4>2. CASE mpc # "stop_enter"
        <5>1. ~Recording
          BY <3>1, <4>2
        <5>2. mpc # "start_enter"
          BY <2>3, CallPlaces DEF StopPcs
        <5>. QED
          BY <5>1, <5>2, <2>3, MainStep DEF InCall
      <4>. QED
        BY <4>1, <4>2
    <3>. QED
      BY <3>1, <3>2
  <2>4. CASE PlayBody
    <3>1. apc = "played" /\ mpc # "start_enter" /\ mpc' # "start_enter"
      BY <2>4, CallPlaces DEF PlaceInv, CallPcs, StopPcs, StartPcs, PlayPcs
    <3>2. Recording' => Recording
      BY <2>4, <3>1, MainStep DEF InCall
    <3>. QED
      BY <3>1, <3>2
  <2>. QED
    BY <1>1, <2>1, <2>2, <2>3, <2>4 DEF InsideCall, InCall
<1>2. CASE Booted
  <2>1. UNCHANGED <<shared, mpc, ret>>
    BY <1>2, SilentSteps DEF vars, main
  <2>2. (Recording' <=> Recording) /\ (record_is_active' <=> record_is_active)
    BY <2>1, Untouched
  <2>. QED
    BY <1>2, <2>1, <2>2 DEF Booted
<1>3. CASE Sense
  <2>1. UNCHANGED <<shared, mpc, ret>>
    BY <1>3, SilentSteps DEF vars, main
  <2>2. (Recording' <=> Recording) /\ (record_is_active' <=> record_is_active)
    BY <2>1, Untouched
  <2>. QED
    BY <1>3, <2>1, <2>2 DEF Sense
<1>4. CASE Debounce
  <2>1. UNCHANGED <<shared, mpc, ret>>
    BY <1>4, SilentSteps DEF vars, main
  <2>2. (Recording' <=> Recording) /\ (record_is_active' <=> record_is_active)
    BY <2>1, Untouched
  <2>. QED
    BY <1>4, <2>1, <2>2 DEF Debounce
<1>5. CASE Holding
  <2>1. UNCHANGED <<shared, mpc, ret>>
    BY <1>5, SilentSteps DEF vars, main
  <2>2. (Recording' <=> Recording) /\ (record_is_active' <=> record_is_active)
    BY <2>1, Untouched
  <2>3. CASE handler = "idle"
    <3>1. ~Recording
      BY <1>5, <2>3 DEF Holding, PlaceInv, CallStates
    <3>2. apc' = "switch" /\ s_tx_active' = s_tx_active
      BY <1>5, <2>3 DEF Holding
    <3>. QED
      BY <3>1, <3>2, <2>1, <2>2, <1>5 DEF PlaceInv, CallPcs, LivePcs, Holding
  <2>4. CASE handler # "idle"
    <3>1. apc' = "record_release" /\ UNCHANGED <<s_tx_active, s_state>>
      BY <1>5, <2>4 DEF Holding
    <3>. QED
      BY <3>1, <2>1, <2>2, <1>5 DEF Holding
  <2>. QED
    BY <2>3, <2>4
<1>6. CASE IdleState
  <2>1. UNCHANGED <<shared, mpc, ret>>
    BY <1>6, SilentSteps DEF vars, main
  <2>2. (Recording' <=> Recording) /\ (record_is_active' <=> record_is_active)
    BY <2>1, Untouched
  <2>. QED
    BY <1>6, <2>1, <2>2 DEF IdleState
<1>7. CASE RecordNotReady
  <2>1. UNCHANGED <<shared, mpc, ret>>
    BY <1>7, SilentSteps DEF vars, main
  <2>2. (Recording' <=> Recording) /\ (record_is_active' <=> record_is_active)
    BY <2>1, Untouched
  <2>. QED
    BY <1>7, <2>1, <2>2 DEF RecordNotReady, Recording,
       record_is_active
<1>8. CASE RecordBegin
  <2>1. UNCHANGED <<shared, mpc, ret>>
    BY <1>8, SilentSteps DEF vars, main
  <2>2. (Recording' <=> Recording) /\ (record_is_active' <=> record_is_active)
    BY <2>1, Untouched
  <2>. QED
    BY <1>8, <2>1, <2>2 DEF RecordBegin, Recording,
       record_is_active
<1>9. CASE RecordStart
  <2>1. Recording' => Recording
    BY <1>9, MainStep DEF RecordStart
  <2>2. record_is_active' <=> record_is_active
    BY <1>9, Untouched DEF RecordStart, StartClear
  <2>. QED
    BY <1>9, <2>1, <2>2 DEF RecordStart, StartClear, Return, Recording,
       record_is_active
<1>10. CASE RecordStarted
  <2>1. UNCHANGED <<shared, mpc, ret>>
    BY <1>10, SilentSteps DEF vars, main
  <2>2. (Recording' <=> Recording) /\ (record_is_active' <=> record_is_active)
    BY <2>1, Untouched
  <2>. QED
    BY <1>10, <2>1, <2>2 DEF RecordStarted
<1>11. CASE RecordRunning
  <2>1. UNCHANGED <<shared, mpc, ret>>
    BY <1>11, SilentSteps DEF vars, main
  <2>2. (Recording' <=> Recording) /\ (record_is_active' <=> record_is_active)
    BY <2>1, Untouched
  <2>. QED
    BY <1>11, <2>1, <2>2 DEF RecordRunning
<1>12. CASE RecordRelease
  <2>1. UNCHANGED <<shared, mpc, ret>>
    BY <1>12, SilentSteps DEF vars, main
  <2>2. (Recording' <=> Recording) /\ (record_is_active' <=> record_is_active)
    BY <2>1, Untouched
  <2>. QED
    BY <1>12, <2>1, <2>2 DEF RecordRelease
<1>13. CASE RecordPoll
  <2>1. Recording' => Recording
    BY <1>13, MainStep DEF RecordPoll
  <2>2. record_is_active' <=> record_is_active
    BY <1>13, Untouched DEF RecordPoll, RecordNext
  <2>. QED
    BY <1>13, <2>1, <2>2 DEF RecordPoll, RecordNext, Return
<1>14. CASE RecordGoesOn
  <2>1. UNCHANGED <<shared, mpc, ret>>
    BY <1>14, SilentSteps DEF vars, main
  <2>2. (Recording' <=> Recording) /\ (record_is_active' <=> record_is_active)
    BY <2>1, Untouched
  <2>. QED
    BY <1>14, <2>1, <2>2 DEF RecordGoesOn
<1>15. CASE RecordGivesUp
  <2>1. Recording' => Recording
    BY <1>15, MainStep DEF RecordGivesUp
  <2>2. record_is_active' <=> record_is_active
    BY <1>15, Untouched DEF RecordGivesUp, StopClear
  <2>. QED
    BY <1>15, <2>1, <2>2 DEF RecordGivesUp, StopClear, Return
<1>16. CASE RecordGaveUp
  <2>1. UNCHANGED <<shared, mpc, ret>>
    BY <1>16, SilentSteps DEF vars, main
  <2>2. (Recording' <=> Recording) /\ (record_is_active' <=> record_is_active)
    BY <2>1, Untouched
  <2>. QED
    BY <1>16, <2>1, <2>2 DEF RecordGaveUp
<1>17. CASE PlaybackStop
  <2>1. Recording' => Recording
    BY <1>17, MainStep DEF PlaybackStop
  <2>2. record_is_active' <=> record_is_active
    BY <1>17, Untouched DEF PlaybackStop, StopClear
  <2>. QED
    BY <1>17, <2>1, <2>2 DEF PlaybackStop, StopClear, Return
<1>18. CASE PlaybackPlay
  <2>1. Recording' => Recording
    BY <1>18, MainStep DEF PlaybackPlay
  <2>2. record_is_active' <=> record_is_active
    BY <1>18, Untouched DEF PlaybackPlay, PlayCall
  <2>. QED
    BY <1>18, <2>1, <2>2 DEF PlaybackPlay, PlayCall, Return
<1>19. CASE PlaybackStopFailed
  <2>1. UNCHANGED <<shared, mpc, ret>>
    BY <1>19, SilentSteps DEF vars, main
  <2>2. (Recording' <=> Recording) /\ (record_is_active' <=> record_is_active)
    BY <2>1, Untouched
  <2>. QED
    BY <1>19, <2>1, <2>2 DEF PlaybackStopFailed
<1>20. CASE PlaybackDone
  <2>1. UNCHANGED <<shared, mpc, ret>>
    BY <1>20, SilentSteps DEF vars, main
  <2>2. (Recording' <=> Recording) /\ (record_is_active' <=> record_is_active)
    BY <2>1, Untouched
  <2>. QED
    BY <1>20, <2>1, <2>2 DEF PlaybackDone
<1>21. CASE LiveBegin
  <2>1. Recording' => Recording
    BY <1>21, MainStep DEF LiveBegin
  <2>2. record_is_active' <=> record_is_active
    BY <1>21, Untouched DEF LiveBegin, LiveStart
  <2>. QED
    BY <1>21, <2>1, <2>2 DEF LiveBegin, LiveStart, Return
<1>22. CASE LiveRefused
  <2>1. UNCHANGED <<shared, mpc, ret>>
    BY <1>22, SilentSteps DEF vars, main
  <2>2. (Recording' <=> Recording) /\ (record_is_active' <=> record_is_active)
    BY <2>1, Untouched
  <2>. QED
    BY <1>22, <2>1, <2>2 DEF LiveRefused
<1>23. CASE LiveLed
  <2>1. UNCHANGED <<shared, mpc, ret>>
    BY <1>23, SilentSteps DEF vars, main
  <2>2. (Recording' <=> Recording) /\ (record_is_active' <=> record_is_active)
    BY <2>1, Untouched
  <2>. QED
    BY <1>23, <2>1, <2>2 DEF LiveLed
<1>24. CASE LivePacket
  <2>1. UNCHANGED <<shared, mpc, ret>>
    BY <1>24, SilentSteps DEF vars, main
  <2>2. (Recording' <=> Recording) /\ (record_is_active' <=> record_is_active)
    BY <2>1, Untouched
  <2>. QED
    BY <1>24, <2>1, <2>2 DEF LivePacket
<1>25. CASE LiveReleased
  <2>1. UNCHANGED <<shared, mpc, ret>>
    BY <1>25, SilentSteps DEF vars, main
  <2>2. (Recording' <=> Recording) /\ (record_is_active' <=> record_is_active)
    BY <2>1, Untouched
  <2>. QED
    BY <1>25, <2>1, <2>2 DEF LiveReleased
<1>26. CASE LiveConfirm
  <2>1. UNCHANGED <<shared, mpc, ret>>
    BY <1>26, SilentSteps DEF vars, main
  <2>2. (Recording' <=> Recording) /\ (record_is_active' <=> record_is_active)
    BY <2>1, Untouched
  <2>. QED
    BY <1>26, <2>1, <2>2 DEF LiveConfirm
<1>27. CASE LiveEnd
  <2>1. mpc # "start_enter" /\ s_state = "TX"
    BY <1>27 DEF LiveEnd, LiveStop, PlaceInv, CallStates, LivePcs
  <2>2. ~Recording'
    BY <1>27, <2>1, MainStep DEF LiveEnd
  <2>3. record_is_active' <=> record_is_active
    BY <1>27, Untouched DEF LiveEnd, LiveStop
  <2>. QED
    BY <1>27, <2>1, <2>2, <2>3 DEF LiveEnd, LiveStop
<1>28. CASE LiveRelease
  <2>1. UNCHANGED <<shared, mpc, ret>>
    BY <1>28, SilentSteps DEF vars, main
  <2>2. (Recording' <=> Recording) /\ (record_is_active' <=> record_is_active)
    BY <2>1, Untouched
  <2>. QED
    BY <1>28, <2>1, <2>2 DEF LiveRelease
<1>29. CASE ErrorState
  <2>1. UNCHANGED <<shared, mpc, ret>>
    BY <1>29, SilentSteps DEF vars, main
  <2>2. (Recording' <=> Recording) /\ (record_is_active' <=> record_is_active)
    BY <2>1, Untouched
  <2>. QED
    BY <1>29, <2>1, <2>2 DEF ErrorState
<1>30. CASE Recorder
  <2>. PICK w \in Workers : RecordTask(w)
    BY <1>30 DEF Recorder
  <2>1. /\ UNCHANGED <<mpc, ret>> /\ (Recording' => Recording)
        /\ ~record_is_active => ~record_is_active'
    BY TaskStep DEF main
  <2>. QED
    BY <1>30, <2>1 DEF Recorder
<1>31. CASE RxStarts
  <2>1. UNCHANGED <<shared, mpc, ret>>
    BY <1>31 DEF RxStarts, RxTakesSpeaker, RxReleasesSpeaker, storage, vars, main
  <2>2. (Recording' <=> Recording) /\ (record_is_active' <=> record_is_active)
    BY <2>1, Untouched
  <2>. QED
    BY <1>31, <2>1, <2>2 DEF RxStarts
<1>32. CASE RxRefused
  <2>1. UNCHANGED <<shared, mpc, ret>>
    BY <1>32 DEF RxRefused, RxTakesSpeaker, RxReleasesSpeaker, storage, vars, main
  <2>2. (Recording' <=> Recording) /\ (record_is_active' <=> record_is_active)
    BY <2>1, Untouched
  <2>. QED
    BY <1>32, <2>1, <2>2 DEF RxRefused
<1>33. CASE RxLights
  <2>1. UNCHANGED <<shared, mpc, ret>>
    BY <1>33 DEF RxLights, RxTakesSpeaker, RxReleasesSpeaker, storage, vars, main
  <2>2. (Recording' <=> Recording) /\ (record_is_active' <=> record_is_active)
    BY <2>1, Untouched
  <2>. QED
    BY <1>33, <2>1, <2>2 DEF RxLights
<1>34. CASE RxStops
  <2>1. UNCHANGED <<shared, mpc, ret>>
    BY <1>34 DEF RxStops, RxTakesSpeaker, RxReleasesSpeaker, storage, vars, main
  <2>2. (Recording' <=> Recording) /\ (record_is_active' <=> record_is_active)
    BY <2>1, Untouched
  <2>. QED
    BY <1>34, <2>1, <2>2 DEF RxStops
<1>35. CASE RxStopFails
  <2>1. UNCHANGED <<shared, mpc, ret>>
    BY <1>35 DEF RxStopFails, RxTakesSpeaker, RxReleasesSpeaker, storage, vars, main
  <2>2. (Recording' <=> Recording) /\ (record_is_active' <=> record_is_active)
    BY <2>1, Untouched
  <2>. QED
    BY <1>35, <2>1, <2>2 DEF RxStopFails
<1>36. CASE RxDims
  <2>1. UNCHANGED <<shared, mpc, ret>>
    BY <1>36 DEF RxDims, RxTakesSpeaker, RxReleasesSpeaker, storage, vars, main
  <2>2. (Recording' <=> Recording) /\ (record_is_active' <=> record_is_active)
    BY <2>1, Untouched
  <2>. QED
    BY <1>36, <2>1, <2>2 DEF RxDims
<1>37. CASE Press
  <2>1. UNCHANGED <<shared, mpc, ret>>
    BY <1>37, SilentSteps DEF vars, main
  <2>2. (Recording' <=> Recording) /\ (record_is_active' <=> record_is_active)
    BY <2>1, Untouched
  <2>. QED
    BY <1>37, <2>1, <2>2 DEF Press
<1>38. CASE Release
  <2>1. UNCHANGED <<shared, mpc, ret>>
    BY <1>38, SilentSteps DEF vars, main
  <2>2. (Recording' <=> Recording) /\ (record_is_active' <=> record_is_active)
    BY <2>1, Untouched
  <2>. QED
    BY <1>38, <2>1, <2>2 DEF Release
<1>39. CASE UNCHANGED appVars
  <2>1. UNCHANGED <<shared, mpc, ret>>
    BY <1>39 DEF appVars, vars, main
  <2>2. (Recording' <=> Recording) /\ (record_is_active' <=> record_is_active)
    BY <2>1, Untouched
  <2>. QED
    BY <1>39, <2>1, <2>2 DEF appVars
<1>. QED
  BY <1>1, <1>2, <1>3, <1>4, <1>5, <1>6, <1>7, <1>8, <1>9, <1>10, <1>11, <1>12,
     <1>13, <1>14, <1>15, <1>16, <1>17, <1>18, <1>19, <1>20, <1>21, <1>22,
     <1>23, <1>24, <1>25, <1>26, <1>27, <1>28, <1>29, <1>30, <1>31, <1>32,
     <1>33, <1>34, <1>35, <1>36, <1>37, <1>38, <1>39
     DEF AppNext, App, RxTask

\* Red is lit where a place says so, or the reason why not is known.
LEMMA LedInvStep == ASSUME AppIInv, [AppNext]_appVars PROVE LedInv'
<1>. /\ AppTypeOK /\ PlaceInv /\ StopInv /\ LedInv
     /\ Recording => s_tx_active
  BY DEF AppIInv, RecordingInv
<1> USE DEF AppTypeOK, LedInv, PlaceInv, CallStates, LivePcs, ReadEvent, NoEvent,
        Event, Ready, Call, leds, user
<1>1. CASE InsideCall
  BY <1>1 DEF InsideCall
<1>2. CASE Booted \/ Sense \/ Debounce \/ Holding \/ IdleState
  BY <1>2 DEF Booted, Sense, Debounce, Holding, IdleState
<1>3. CASE RecordNotReady \/ RecordBegin \/ RecordStart \/ RecordStarted
           \/ RecordRelease \/ RecordPoll \/ RecordGoesOn \/ RecordGivesUp
           \/ RecordGaveUp
  BY <1>3 DEF RecordNotReady, RecordBegin, RecordStart, RecordStarted,
         RecordRelease, RecordPoll, RecordGoesOn, RecordGivesUp, RecordGaveUp
<1>4. CASE RecordRunning
  <2>1. s_record_stop_requested \/ Recording
    BY <1>4 DEF RecordRunning, Recording, record_is_active, record_stop_requested,
       StopInv
  <2>2. s_record_stop_requested \/ s_tx_active
    BY <2>1
  <2>. QED
    BY <1>4, <2>2 DEF RecordRunning
<1>5. CASE PlaybackStop \/ PlaybackPlay \/ PlaybackStopFailed \/ PlaybackDone
  BY <1>5 DEF PlaybackStop, PlaybackPlay, PlaybackStopFailed, PlaybackDone
<1>6. CASE LiveBegin \/ LiveRefused \/ LiveLed \/ LivePacket \/ LiveReleased
           \/ LiveConfirm \/ LiveEnd \/ LiveRelease
  BY <1>6 DEF LiveBegin, LiveRefused, LiveLed, LivePacket, LiveReleased,
         LiveConfirm, LiveEnd, LiveRelease
<1>7. CASE ErrorState
  BY <1>7 DEF ErrorState
<1>8. CASE Recorder
  BY <1>8 DEF Recorder
<1>9. CASE RxStarts \/ RxRefused \/ RxLights \/ RxStops \/ RxStopFails \/ RxDims
  BY <1>9 DEF RxStarts, RxRefused, RxLights, RxStops, RxStopFails, RxDims
<1>10. CASE Press \/ Release
  BY <1>10 DEF Press, Release
<1>11. CASE UNCHANGED appVars
  BY <1>11 DEF appVars
<1>. QED
  BY <1>1, <1>2, <1>3, <1>4, <1>5, <1>6, <1>7, <1>8, <1>9, <1>10, <1>11
     DEF AppNext, App, RxTask

\* A press read as an event is over before the button is read again.
LEMMA FingerInvStep == ASSUME AppIInv, [AppNext]_appVars PROVE FingerInv'
<1>. AppTypeOK /\ PlaceInv /\ FingerInv
  BY DEF AppIInv
<1> USE DEF AppTypeOK, FingerInv, PlaceInv, CallStates, LivePcs, ReadEvent, NoEvent,
        Event, Ready, Call, leds, user
<1>1. CASE InsideCall
  BY <1>1 DEF InsideCall
<1>2. CASE Booted \/ Sense \/ Debounce \/ Holding \/ IdleState
  BY <1>2 DEF Booted, Sense, Debounce, Holding, IdleState
<1>3. CASE RecordNotReady \/ RecordBegin \/ RecordStart \/ RecordStarted
           \/ RecordRunning \/ RecordRelease \/ RecordPoll \/ RecordGoesOn
           \/ RecordGivesUp \/ RecordGaveUp
  BY <1>3 DEF RecordNotReady, RecordBegin, RecordStart, RecordStarted,
         RecordRunning, RecordRelease, RecordPoll, RecordGoesOn, RecordGivesUp,
         RecordGaveUp
<1>4. CASE PlaybackStop \/ PlaybackPlay \/ PlaybackStopFailed \/ PlaybackDone
  BY <1>4 DEF PlaybackStop, PlaybackPlay, PlaybackStopFailed, PlaybackDone
<1>5. CASE LiveBegin \/ LiveRefused \/ LiveLed \/ LivePacket \/ LiveReleased
           \/ LiveConfirm \/ LiveEnd \/ LiveRelease
  BY <1>5 DEF LiveBegin, LiveRefused, LiveLed, LivePacket, LiveReleased,
         LiveConfirm, LiveEnd, LiveRelease
<1>6. CASE ErrorState
  BY <1>6 DEF ErrorState
<1>7. CASE Recorder
  BY <1>7 DEF Recorder
<1>8. CASE RxStarts \/ RxRefused \/ RxLights \/ RxStops \/ RxStopFails \/ RxDims
  BY <1>8 DEF RxStarts, RxRefused, RxLights, RxStops, RxStopFails, RxDims
<1>9. CASE Press \/ Release
  BY <1>9 DEF Press, Release
<1>10. CASE UNCHANGED appVars
  BY <1>10 DEF appVars
<1>. QED
  BY <1>1, <1>2, <1>3, <1>4, <1>5, <1>6, <1>7, <1>8, <1>9, <1>10
     DEF AppNext, App, RxTask


\* Before storage_init nothing is held and the LED is off.
LEMMA InitAppIInv == ASSUME AppInit PROVE AppIInv
<1>. Init
  BY DEF AppInit
<1>1. IInv
  BY InitIInv
<1>2. PlaceInv
  <2>1. mpc \in CallPcs
    BY DEF AppInit, Init, CallPcs, LivePcs
  <2>2. s_state \in CallStates
    BY DEF AppInit, CallStates, LivePcs
  <2>. QED
    BY <2>1, <2>2 DEF PlaceInv
<1>6. StopInv /\ SpeakerInv
  BY DEF Init, StopInv, SpeakerInv
<1>3. RecordingInv
  BY DEF AppInit, Init, RecordingInv, Recording
<1>4. LedInv /\ FingerInv
  BY DEF AppInit, LedInv, FingerInv
<1>5. AppTypeOK
  BY <1>1 DEF AppInit, AppTypeOK, IInv, AppStates, AppPcs
<1>. QED
  BY <1>1, <1>2, <1>3, <1>4, <1>5, <1>6 DEF AppIInv

\* The invariant of the recorder and the one of the application, together.
THEOREM AppInvariance == AppSpec => []AppIInv
<1>1. AppInit => AppIInv
  BY InitAppIInv
<1>2. AppIInv /\ [AppNext]_appVars => AppIInv'
  <2> SUFFICES ASSUME AppIInv, [AppNext]_appVars
               PROVE  AppIInv'
    OBVIOUS
  <2>1. IInv'
    BY ClientStep, TypeStep, RecorderStep, OpenFilesStep, FileStep, MicStep,
       WakeStep DEF AppIInv, IInv
  <2>2. SpeakerInv'
    BY ClientStep, SpeakerStep DEF AppIInv
  <2>. QED
    BY <2>1, <2>2, AppTypeStep, PlaceInvStep, StopStep, RecordingInvStep,
       LedInvStep, FingerInvStep DEF AppIInv
<1>. QED
  BY <1>1, <1>2, PTL DEF AppSpec

\* Whatever the button, the record task, the receive task and failed calls do to
\* it, app_main in STATE_IDLE has put out its half of the LED, holds neither
\* audio device and is inside no call.
THEOREM IdleHoldsNothing == AppSpec => []AppInv
<1>1. AppIInv => AppInv
  <2> SUFFICES ASSUME AppIInv PROVE AppInv
    OBVIOUS
  <2>1. ASSUME s_state = "IDLE", apc # "boot"
        PROVE  ~s_tx_active /\ mic # Main /\ spk # "main" /\ mpc = "idle"
    <3>1. mpc = "idle"
      BY <2>1 DEF AppIInv, AppTypeOK, AppPcs, PlaceInv, CallPcs, CallStates, LivePcs
    <3>2. mic # Main
      BY <3>1 DEF AppIInv, IInv, MicInv
    <3>3. spk # "main"
      BY <3>1 DEF AppIInv, SpeakerInv
    <3>. QED
      BY <2>1, <3>1, <3>2, <3>3 DEF AppIInv, LedInv
  <2>. QED
    BY <2>1 DEF AppInv, IdleIsClean, AppIInv
<1>. QED
  BY <1>1, AppInvariance, PTL

\* Red is lit during a recording, its playback, a live call and a reception, in
\* every interleaving with the two other tasks, but for the three paths that
\* "excused" names.
THEOREM RedIsTrue == AppSpec => []RedTellsActivity
<1>1. AppIInv => RedTellsActivity
  <2> SUFFICES ASSUME AppIInv PROVE RedTellsActivity
    OBVIOUS
  <2>1. s_record_state = "ACTIVE" /\ ~record_stop_requested => s_tx_active
    BY DEF AppIInv, RecordingInv, Recording
  <2>2. spk = "main" => s_tx_active \/ "playback" \in excused
    <3> SUFFICES ASSUME spk = "main" PROVE s_tx_active \/ "playback" \in excused
      OBVIOUS
    <3>1. mpc \in {"play_loop", "play_stop"}
      BY DEF AppIInv, SpeakerInv
    <3>2. s_state = "SD_PLAYBACK"
      BY <3>1 DEF AppIInv, PlaceInv, CallPcs, CallStates, StartPcs, StopPcs,
         PlayPcs, LivePcs
    <3>. QED
      BY <3>2 DEF AppIInv, LedInv
  <2>. QED
    BY <2>1, <2>2 DEF RedTellsActivity, AppIInv, LedInv
<1>. QED
  BY <1>1, AppInvariance, PTL

\* One press, one event: app_main waits for the release wherever a press has
\* ended a recording or begun a call.
THEOREM PressIsOneAppEvent == AppSpec => OneEventPerPress
<1>1. AppIInv /\ [AppNext]_appVars =>
          [apc = "holding" /\ apc' # "holding" => fresh]_appVars
  BY DEF AppIInv, FingerInv
<1>. QED
  BY <1>1, AppInvariance, PTL DEF AppSpec, OneEventPerPress

-----------------------------------------------------------------------------
(* What AppSettles rests on besides fairness: with the button up, a live call,  *)
(* a playback and an error have only so many steps of app_main left.            *)

\* The states app_main comes back from by itself.
Settling == s_state \in {"TX", "SD_PLAYBACK", "ERROR"}

\* The steps Main has left inside storage_record_stop or storage_play_recording.
InCallLeft ==
    CASE mpc = "stop_enter"                        -> 3
      [] mpc = "stop_wait"                         -> 2
      [] mpc \in {"stop_timeout", "stop_result"}   -> 1
      [] mpc = "play_open"                         -> Capacity + 6
      [] mpc = "play_header"                       -> Capacity + 5
      [] mpc = "play_speaker"                      -> left + 4
      [] mpc = "play_loop"                         -> left + 3
      [] mpc = "play_stop"                         -> 2
      [] mpc = "play_close"                        -> 1
      [] OTHER                                     -> 0

\* The steps app_main has left before STATE_IDLE, by the place it is at.
ToIdle ==
    CASE apc = "switch" -> CASE s_state = "TX"          -> 7
                             [] s_state = "SD_PLAYBACK" -> Capacity + 14
                             [] OTHER                   -> 1
      [] apc = "tx_led"                  -> 6
      [] apc = "tx_loop"                 -> 5
      [] apc = "tx_confirm"              -> 4
      [] apc = "tx_stop"                 -> 3
      [] apc = "tx_release"              -> 2
      [] apc = "stopped"                 -> Capacity + 10 + InCallLeft
      [] apc \in {"played", "gave_up"}   -> 2 + InCallLeft
      [] apc = "nexted"                  -> 6
      [] apc = "next"                    -> 7
      [] apc \in {"sense", "debounce"}   -> 8
      [] apc = "record_release"          -> Capacity + 15
      [] OTHER                           -> Capacity + 16  \* holding

\* What a step does while the button stays up: app_main is back in STATE_IDLE, or
\* still on its way, and a step of its own has brought it nearer.
TowardsIdle ==
    \/ s_state' = "IDLE"
    \/ /\ Settling'
       /\ IF App THEN ToIdle' < ToIdle ELSE ToIdle' = ToIdle

\* A call of Main into the recorder has only so many steps left.
LEMMA InCallBounded ==
    ASSUME TypeOK
    PROVE  /\ InCallLeft \in 0..Capacity + 6
           /\ mpc \in StopPcs \cup {"idle"} => InCallLeft \in 0..3
           /\ mpc = "idle" => InCallLeft = 0
BY StorageAssumption DEF TypeOK, InCallLeft, StopPcs

\* Each of them leaves fewer: a playback goes through the length it has read in
\* the header, and both waits for a notification have a timeout.
LEMMA InCallFewer ==
    ASSUME TypeOK, StopBody \/ PlayBody
    PROVE  InCallLeft' < InCallLeft
<1> USE StorageAssumption DEF TypeOK, InCallLeft, Return
<1>1. CASE StopBody
  BY <1>1 DEF StopBody, StopInactive, StopEnter, StopWoken, StopTimesOut,
     StopGiveUp, StopResult, main
<1>2. CASE PlayHeader
  <2>1. file.hdr \in 0..Capacity BY <1>2 DEF PlayHeader, Files, Absent
  <2>. QED
    BY <1>2, <2>1 DEF PlayHeader
<1>3. CASE PlayOpen \/ PlayOpenFails \/ PlayRejects
  BY <1>3 DEF PlayOpen, PlayOpenFails, PlayRejects
<1>4. CASE PlaySpeaker \/ PlaySpeakerFails \/ PlayChunk
  BY <1>4 DEF PlaySpeaker, PlaySpeakerFails, PlayChunk
<1>5. CASE PlayEnds \/ PlayStop \/ PlayClose
  BY <1>5 DEF PlayEnds, PlayStop, PlayClose
<1>. QED
  BY <1>1, <1>2, <1>3, <1>4, <1>5 DEF PlayBody

\* The number is in its range.
LEMMA ToIdleBounded ==
    ASSUME AppIInv, Settling
    PROVE  ToIdle \in 1..Capacity + 16
<1>1. /\ apc \in AppPcs /\ Capacity \in Nat
      /\ InCallLeft \in 0..Capacity + 6
      /\ mpc \in StopPcs \cup {"idle"} => InCallLeft \in 0..3
  BY InCallBounded, StorageAssumption DEF AppIInv, IInv, AppTypeOK
<1>2. apc \in {"stopped", "gave_up"} => mpc \in StopPcs \cup {"idle"}
  BY DEF AppIInv, PlaceInv, CallPcs, LivePcs
<1>3. CASE apc \in {"stopped", "gave_up"}
  <2>1. InCallLeft \in 0..3 BY <1>1, <1>2, <1>3
  <2>2. ToIdle \in {Capacity + 10 + InCallLeft, 2 + InCallLeft}
    BY <1>3 DEF ToIdle
  <2>. QED
    BY <1>1, <2>1, <2>2
<1>4. CASE apc = "played"
  BY <1>1, <1>4 DEF ToIdle
<1>5. CASE apc \notin {"stopped", "gave_up", "played"}
  <2>1. ToIdle \in 1..8 \cup {Capacity + 14, Capacity + 15, Capacity + 16}
    BY <1>5 DEF ToIdle
  <2>. QED
    BY <1>1, <2>1
<1>. QED
  BY <1>3, <1>4, <1>5

\* A step that leaves app_main where it is.
LEMMA OthersStay ==
    ASSUME AppIInv, Settling, ~App, UNCHANGED <<main, s_state, apc>>
    PROVE  TowardsIdle
<1>1. InCallLeft' = InCallLeft BY DEF InCallLeft, main
<1>2. ToIdle' = ToIdle BY <1>1 DEF ToIdle
<1>3. Settling' BY DEF Settling
<1>. QED
  BY <1>2, <1>3 DEF TowardsIdle

\* A step of app_main itself, with the button up.
LEMMA AppGetsOn ==
    ASSUME AppIInv, Settling, App, ~pressed
    PROVE  TowardsIdle
<1>1. /\ Capacity \in Nat /\ InCallLeft \in 0..Capacity + 6
      /\ mpc \in StopPcs \cup {"idle"} => InCallLeft \in 0..3
      /\ mpc = "idle" => InCallLeft = 0
  BY InCallBounded, StorageAssumption DEF AppIInv, IInv
<1>2. apc \in AppPcs /\ mpc \in CallPcs /\ s_state \in CallStates
      /\ handler \in {"idle", "record"}
  BY DEF AppIInv, AppTypeOK, PlaceInv
<1>3. SUFFICES s_state' = "IDLE" \/ (Settling' /\ ToIdle' < ToIdle)
  BY DEF TowardsIdle
<1> USE DEF Settling, ToIdle, Ready, Call, LivePcs
<1>4. CASE InsideCall
  <2>1. UNCHANGED <<s_state, apc>> BY <1>4 DEF InsideCall
  <2>2. Boot \/ StartBody \/ StopBody \/ PlayBody BY <1>4 DEF InsideCall, InCall
  <2>3. apc \in {"stopped", "gave_up", "played"} /\ (StopBody \/ PlayBody)
    BY <1>2, <2>2, CallPlaces DEF AppPcs, CallPcs, CallStates, StartPcs, StopPcs, PlayPcs
  <2>4. InCallLeft' < InCallLeft BY <2>3, InCallFewer DEF AppIInv, IInv
  <2>5. TypeOK'
    BY <1>4, ClientStep, TypeStep DEF AppIInv, AppNext, App
  <2>6. InCallLeft' \in Int
    BY <2>5, StorageAssumption DEF TypeOK, InCallLeft
  <2>. QED
    BY <1>1, <2>1, <2>3, <2>4, <2>6
<1>5. CASE Booted \/ IdleState
  BY <1>2, <1>5 DEF Booted, IdleState, CallStates
<1>6. CASE Sense \/ Debounce
  BY <1>1, <1>2, <1>6 DEF Sense, Debounce, NoEvent, CallStates
<1>7. CASE Holding
  BY <1>1, <1>2, <1>7 DEF Holding, Event, CallStates
<1>8. CASE RecordNotReady \/ RecordBegin \/ RecordStart \/ RecordStarted
           \/ RecordRunning
  BY <1>2, <1>8 DEF RecordNotReady, RecordBegin, RecordStart, RecordStarted,
     RecordRunning, CallStates
<1>9. CASE RecordRelease
  BY <1>1, <1>9 DEF RecordRelease
<1>10. CASE RecordPoll
  BY <1>10 DEF RecordPoll
<1>11. CASE RecordGoesOn
  BY <1>2, <1>11 DEF RecordGoesOn, CallStates
<1>12. CASE RecordGivesUp
  <2>1. InCallLeft' = 3 BY <1>12 DEF RecordGivesUp, StopClear, InCallLeft
  <2>. QED
    BY <1>12, <2>1 DEF RecordGivesUp
<1>13. CASE RecordGaveUp
  BY <1>1, <1>13 DEF RecordGaveUp
<1>14. CASE PlaybackStop
  <2>1. InCallLeft' = 3 BY <1>14 DEF PlaybackStop, StopClear, InCallLeft
  <2>. QED
    BY <1>1, <1>14, <2>1 DEF PlaybackStop
<1>15. CASE PlaybackPlay
  <2>1. InCallLeft' \in {0, Capacity + 6}
    BY <1>15 DEF PlaybackPlay, PlayCall, Return, InCallLeft
  <2>. QED
    BY <1>1, <1>15, <2>1 DEF PlaybackPlay
<1>16. CASE PlaybackStopFailed \/ PlaybackDone
  BY <1>1, <1>16 DEF PlaybackStopFailed, PlaybackDone
<1>17. CASE LiveBegin \/ LiveRefused \/ LiveLed
  BY <1>17 DEF LiveBegin, LiveRefused, LiveLed
<1>18. CASE LivePacket \/ LiveReleased \/ LiveConfirm
  BY <1>18 DEF LivePacket, LiveReleased, LiveConfirm
<1>19. CASE LiveEnd \/ LiveRelease
  BY <1>2, <1>19 DEF LiveEnd, LiveRelease, CallStates
<1>20. CASE ErrorState
  BY <1>20 DEF ErrorState
<1>. QED
  BY <1>4, <1>5, <1>6, <1>7, <1>8, <1>9, <1>10, <1>11, <1>12, <1>13, <1>14,
     <1>15, <1>16, <1>17, <1>18, <1>19, <1>20
     DEF App

\* Every step: the record task, the receive task and the finger leave app_main
\* and the call it is in where they are.
LEMMA TowardsIdleStep ==
    ASSUME AppIInv, [AppNext]_appVars, Settling, ~pressed, ~pressed'
    PROVE  TowardsIdle
<1>1. CASE App
  BY <1>1, AppGetsOn
<1>2. CASE ~App
  <2>1. CASE Recorder
    <3>1. UNCHANGED <<s_state, apc>> BY <2>1 DEF Recorder
    <3>2. UNCHANGED main BY <2>1, TaskStep DEF Recorder, AppIInv
    <3>. QED
      BY <1>2, <3>1, <3>2, OthersStay
  <2>2. CASE RxTask
    <3>1. UNCHANGED <<main, s_state, apc>>
      BY <2>2 DEF RxTask, RxStarts, RxRefused, RxLights, RxStops, RxStopFails,
         RxDims, RxTakesSpeaker, RxReleasesSpeaker, storage, vars
    <3>. QED
      BY <1>2, <3>1, OthersStay
  <2>3. CASE Press
    BY <2>3 DEF Press
  <2>4. CASE Release
    BY <2>4 DEF Release
  <2>5. CASE UNCHANGED appVars
    <3>1. UNCHANGED <<main, s_state, apc>> BY <2>5 DEF appVars, vars
    <3>. QED
      BY <1>2, <3>1, OthersStay
  <2>. QED
    BY <1>2, <2>1, <2>2, <2>3, <2>4, <2>5 DEF AppNext
<1>. QED
  BY <1>1, <1>2

\* Left alone in a live call, a playback or an error, app_main is a bounded number
\* of its own steps away from STATE_IDLE, a playback as many as the card holds
\* chunks; each brings it nearer, and no other thread takes it further away.
THEOREM SettlingGetsOn ==
    AppSpec => /\ [](Settling => ToIdle \in 1..Capacity + 16)
               /\ [][~pressed /\ ~pressed' /\ Settling => TowardsIdle]_appVars
<1>1. AppIInv => (Settling => ToIdle \in 1..Capacity + 16)
  BY ToIdleBounded
<1>2. AppIInv /\ [AppNext]_appVars =>
        [~pressed /\ ~pressed' /\ Settling => TowardsIdle]_appVars
  BY TowardsIdleStep
<1>. QED
  BY <1>1, <1>2, AppInvariance, PTL DEF AppSpec

\* The recorder's bound holds in the firmware: a recording that app_main asked to
\* stop is at most seven steps of its task away from record_finish.
THEOREM FirmwareStopsGetOn ==
    AppSpec => /\ [](\A w \in Workers : Body(w) => ToRest(w) \in 1..7)
               /\ [][\A w \in Workers :
                        Body(w) /\ s_record_stop_requested => TowardsRest(w)]_vars
BY AppImplementsClient, StopsGetOn, PTL DEF UsesRecorderAsClient
==============================================================================
