------------------------------ MODULE StatusLeds ------------------------------
(***************************************************************************)
(* components/status_leds: two flags, set by different tasks, and two LEDs  *)
(* that show their disjunction.  app_main sets both flags, the ESP-NOW      *)
(* receive task the second, so the pins are written by two tasks; s_led_mutex *)
(* orders them.  status_leds_init creates the mutex before any other task   *)
(* exists, so the unlocked path for a NULL mutex is never taken.            *)
(***************************************************************************)
CONSTANTS LedTasks, NoTask

ASSUME LedAssumption == NoTask \notin LedTasks

VARIABLES
    s_led_mutex,               \* who has taken it
    s_tx_active, s_rx_active,
    green, red,                \* the LEDs, whatever level lights them
    pc,                        \* per task: the next statement
    active,                    \* per task: the argument
    voice_active               \* per task: the local of status_leds_apply

ledVars == <<s_led_mutex, s_tx_active, s_rx_active, green, red, pc, active,
             voice_active>>

Flags  == {"tx", "rx"}
Steps  == {"take", "set", "read", "green", "red", "give"}
Places == {<<"idle", "tx">>} \cup (Steps \X Flags)

LedInit ==
    /\ s_led_mutex = NoTask
    /\ s_tx_active = FALSE /\ s_rx_active = FALSE
    /\ green = TRUE /\ red = FALSE
    /\ pc = [t \in LedTasks |-> <<"idle", "tx">>]
    /\ active = [t \in LedTasks |-> FALSE]
    /\ voice_active = [t \in LedTasks |-> FALSE]

At(t, step)    == pc[t][1] = step
Flag(t)        == pc[t][2]
Advance(t, step) == pc' = [pc EXCEPT ![t] = <<step, pc[t][2]>>]

\* status_leds_set_tx(b) or status_leds_set_rx(b)
Call(t) ==
    /\ At(t, "idle")
    /\ \E f \in Flags : pc' = [pc EXCEPT ![t] = <<"take", f>>]
    /\ \E b \in BOOLEAN : active' = [active EXCEPT ![t] = b]
    /\ UNCHANGED <<s_led_mutex, s_tx_active, s_rx_active, green, red,
                   voice_active>>

\* Mutant: only the flag is protected, the caller does not wait for the pins.
Take_NoWait(t) ==
    /\ At(t, "take")
    /\ s_led_mutex' = t
    /\ Advance(t, "set")
    /\ UNCHANGED <<s_tx_active, s_rx_active, green, red, active, voice_active>>

Take(t) ==
    /\ At(t, "take") /\ s_led_mutex = NoTask
    /\ s_led_mutex' = t
    /\ Advance(t, "set")
    /\ UNCHANGED <<s_tx_active, s_rx_active, green, red, active, voice_active>>

SetFlag(t) ==
    /\ At(t, "set")
    /\ IF Flag(t) = "tx"
       THEN s_tx_active' = active[t] /\ UNCHANGED s_rx_active
       ELSE s_rx_active' = active[t] /\ UNCHANGED s_tx_active
    /\ Advance(t, "read")
    /\ UNCHANGED <<s_led_mutex, green, red, active, voice_active>>

ReadFlags(t) ==
    /\ At(t, "read")
    /\ voice_active' = [voice_active EXCEPT ![t] = s_tx_active \/ s_rx_active]
    /\ Advance(t, "green")
    /\ UNCHANGED <<s_led_mutex, s_tx_active, s_rx_active, green, red, active>>

SetGreen(t) ==
    /\ At(t, "green")
    /\ green' = ~voice_active[t]
    /\ Advance(t, "red")
    /\ UNCHANGED <<s_led_mutex, s_tx_active, s_rx_active, red, active,
                   voice_active>>

SetRed(t) ==
    /\ At(t, "red")
    /\ red' = voice_active[t]
    /\ Advance(t, "give")
    /\ UNCHANGED <<s_led_mutex, s_tx_active, s_rx_active, green, active,
                   voice_active>>

Give(t) ==
    /\ At(t, "give")
    /\ s_led_mutex' = NoTask
    /\ pc' = [pc EXCEPT ![t] = <<"idle", "tx">>]
    /\ UNCHANGED <<s_tx_active, s_rx_active, green, red, active, voice_active>>

LedTask(t) ==
    \/ Call(t) \/ Take(t) \/ SetFlag(t) \/ ReadFlags(t)
    \/ SetGreen(t) \/ SetRed(t) \/ Give(t)

LedNext == \E t \in LedTasks : LedTask(t)

LedSpec == LedInit /\ [][LedNext]_ledVars

-----------------------------------------------------------------------------
(* Properties *)

\* Every variable stays within its type.
LedTypeOK ==
    /\ s_led_mutex \in LedTasks \cup {NoTask}
    /\ s_tx_active \in BOOLEAN /\ s_rx_active \in BOOLEAN
    /\ green \in BOOLEAN /\ red \in BOOLEAN
    /\ pc \in [LedTasks -> Places]
    /\ active \in [LedTasks -> BOOLEAN]
    /\ voice_active \in [LedTasks -> BOOLEAN]

\* Whenever no task is changing them the LEDs show both flags, whoever set which
\* last: a task never leaves the pins as it computed them from an older flag.
LedsShowFlags ==
    s_led_mutex = NoTask => /\ red = (s_tx_active \/ s_rx_active)
                            /\ green = ~red

\* The inductive invariant of PanelProofs: what the holder of the mutex has done.
LedInv ==
    /\ LedTypeOK
    /\ LedsShowFlags
    /\ \A t \in LedTasks :
        /\ pc[t][1] \in Steps \ {"take"} => s_led_mutex = t
        /\ pc[t][1] \in {"green", "red"} =>
               voice_active[t] = (s_tx_active \/ s_rx_active)
        /\ pc[t][1] \in {"red", "give"} => green = ~(s_tx_active \/ s_rx_active)
        /\ pc[t][1] = "give" => red = (s_tx_active \/ s_rx_active)
==============================================================================
