-------------------------------- MODULE Panel --------------------------------
(***************************************************************************)
(* The handset's panel: Button and StatusLeds in one firmware.  Main polls  *)
(* the one and calls the other, never both at once; the receive task of     *)
(* network_audio.c sets its own flag whenever a call begins or ends.        *)
(***************************************************************************)
EXTENDS Button, StatusLeds

CONSTANT Main, ReceiveTask

ASSUME PanelAssumption == {Main, ReceiveTask} \subseteq LedTasks /\ Main # ReceiveTask

panelVars == <<buttonVars, ledVars>>

PanelInit == ButtonInit /\ LedInit

\* The calls app_main.c, and network_audio.c on its behalf, make while Main is at a
\* place: status_leds_set_tx and, in STATE_ERROR, status_leds_set_rx.
MainSets ==
    {<<"record_start", "tx", TRUE>>, <<"record_start", "tx", FALSE>>,
     <<"record_next", "tx", FALSE>>, <<"playback", "tx", FALSE>>,
     <<"tx_start", "tx", TRUE>>, <<"tx_stop", "tx", FALSE>>,
     <<"error_poll", "tx", FALSE>>, <<"error_poll", "rx", FALSE>>}

MainCalls ==
    /\ Call(Main) /\ wake = 0
    /\ <<at, pc'[Main][2], active'[Main]>> \in MainSets
    /\ UNCHANGED buttonVars

ReceiveTaskCalls ==
    /\ Call(ReceiveTask) /\ pc'[ReceiveTask][2] = "rx"
    /\ UNCHANGED buttonVars

LedCallGoesOn ==
    /\ \E t \in LedTasks :
        Take(t) \/ SetFlag(t) \/ ReadFlags(t) \/ SetGreen(t) \/ SetRed(t) \/ Give(t)
    /\ UNCHANGED buttonVars

ButtonStep ==
    /\ PressDown \/ LetGo \/ Tick \/ (At(Main, "idle") /\ AppMainStep)
    /\ UNCHANGED ledVars

PanelNext == MainCalls \/ ReceiveTaskCalls \/ LedCallGoesOn \/ ButtonStep

PanelSpec == PanelInit /\ [][PanelNext]_panelVars
==============================================================================
