-------------------------------- MODULE Button --------------------------------
(***************************************************************************)
(* components/button with a clock: a contact that bounces, and app_main as  *)
(* the task that samples it.  Time passes while Main sleeps in vTaskDelay   *)
(* and while it works for the recorder or the radio (WorkPlaces); between   *)
(* two samples without a delay no time passes.  The unit of Tick is the     *)
(* 10 ms for which the loops of button.c and app_main.c sleep.              *)
(***************************************************************************)
EXTENDS Integers, FiniteSets

CONSTANTS
    DebounceTicks,  \* CONFIG_IPPHONE_BUTTON_DEBOUNCE_MS, in ticks
    HoldTicks,      \* CONFIG_IPPHONE_BUTTON_HOLD_MS, in ticks
    BounceTicks,    \* how long the contact bounces after the finger has moved
    RestTicks,      \* how long the finger stays away between two presses
    MaxGlitches     \* bound: openings of the contact under a resting finger

\* What the debounce time is for: it is longer than any bounce; and longer than the loop
\* sleeps between two samples (40 and 10 ms), or a press could end between them.  And no
\* finger is so fast that one debounce sees the end of a press and the start of the next.
ASSUME ButtonAssumption ==
    /\ DebounceTicks \in Nat /\ HoldTicks \in Nat /\ BounceTicks \in Nat
    /\ BounceTicks < DebounceTicks /\ DebounceTicks > 1
    /\ RestTicks \in Nat /\ RestTicks >= BounceTicks + DebounceTicks
    /\ MaxGlitches \in Nat

VARIABLES
    finger,     \* is the button held down?
    moved,      \* ticks since the finger moved, up to RestTicks
    s_state,    \* app_state_t
    at,         \* what Main is about to do: sample the button, or work
    handler,    \* whose button_read_event is running
    wake,       \* ticks Main still sleeps
    held,       \* ticks since press_start
    press       \* history of the last press: see Press

buttonVars == <<finger, moved, s_state, at, handler, wake, held, press>>
user       == <<finger, moved>>

Samples    == {"error_poll", "sense", "debounce", "holding", "release",
               "confirm", "confirmed"}
WorkPlaces == {"record_start", "record_next", "tx_start", "tx_send", "tx_stop",
               "playback"}
ButtonPlaces == Samples \cup WorkPlaces \cup {"switch", "released"}

\* The longest that Main takes, in STATE_IDLE, from the press to press_start: a
\* debounce that meets a bounce is in vain, and one more is needed.
Latency == 2 * DebounceTicks
Longest == HoldTicks + Latency  \* the age of a press is counted up to here

Press == [age: 0..Longest,          \* ticks for which the finger was down
          events: 0..2,             \* how often it was read as an event
          glitches: 0..MaxGlitches, \* how often the contact opened meanwhile
          watched: BOOLEAN]         \* did Main watch for it from its beginning?

ButtonInit ==
    /\ finger = FALSE /\ moved = RestTicks
    /\ s_state = "IDLE" /\ at = "switch" /\ handler = "idle"
    /\ wake = 0 /\ held = 0
    /\ press = [age |-> 0, events |-> 0, glitches |-> 0, watched |-> FALSE]

-----------------------------------------------------------------------------
(* The finger, the contact and the clock *)

Watching == s_state = "IDLE" /\ at \in {"switch", "sense", "debounce"}

PressDown ==
    /\ ~finger /\ moved = RestTicks
    /\ finger' = TRUE /\ moved' = 0
    /\ press' = [age |-> 0, events |-> 0, glitches |-> 0, watched |-> Watching]
    /\ UNCHANGED <<s_state, at, handler, wake, held>>

LetGo ==
    /\ finger /\ moved >= BounceTicks
    /\ finger' = FALSE /\ moved' = 0
    /\ UNCHANGED <<s_state, at, handler, wake, held, press>>

Reaching(n, cap) == IF n < cap THEN n + 1 ELSE n

Tick ==  \* Main runs as soon as its sleep is over
    /\ wake > 0 \/ at \in WorkPlaces
    /\ wake' = IF wake > 0 THEN wake - 1 ELSE 0
    /\ moved' = Reaching(moved, RestTicks)
    /\ held' = Reaching(held, HoldTicks)
    /\ press' = [press EXCEPT !.age = IF finger THEN Reaching(@, Longest) ELSE @]
    /\ UNCHANGED <<finger, s_state, at, handler>>

\* button_pressed_raw: the finger, unless the contact bounces or, a fault, opens.
Opens(b) == moved >= BounceTicks /\ b # finger

PressedRaw(b) == b \in BOOLEAN /\ (Opens(b) => finger /\ press.glitches < MaxGlitches)

\* A statement of Main that samples the button and makes `events' events of it.
Sample(place, b, events) ==
    /\ wake = 0 /\ at = place
    /\ PressedRaw(b)
    /\ press' = [press EXCEPT !.glitches = IF Opens(b) THEN @ + 1 ELSE @,
                              !.events = IF events = 1 THEN Reaching(@, 2) ELSE @]
    /\ UNCHANGED user

Sleep(ticks, place) == wake' = ticks /\ at' = place
Goto(place)         == Sleep(0, place)
Loop                == Sleep(1, "switch")  \* the vTaskDelay of app_main's loop

-----------------------------------------------------------------------------
(* button_read_event, and what its two callers do with the result *)

ReadEvent(h) == Goto("sense") /\ handler' = h

NoEvent == IF handler = "idle" THEN Loop ELSE Goto("record_next")

\* Mutant: the press that ends a recording is not waited out.
Event_NoWait(e) ==
    /\ Loop
    /\ s_state' = CASE handler = "record" -> "SD_PLAYBACK"
                    [] e = "HOLD" -> "TX"
                    [] OTHER -> "SD_RECORD"

\* handle_idle_state and handle_sd_record_state
Event(e) ==
    IF handler = "idle"
    THEN Loop /\ s_state' = IF e = "HOLD" THEN "TX" ELSE "SD_RECORD"
    ELSE Goto("release") /\ UNCHANGED s_state

Sense(b) ==
    /\ Sample("sense", b, 0)
    /\ IF b THEN Sleep(DebounceTicks, "debounce") ELSE NoEvent
    /\ UNCHANGED <<s_state, handler, held>>

\* Mutant: press_start is kept from the press before.
Debounce_OldStart(b) ==
    /\ Sample("debounce", b, 0)
    /\ IF b THEN Goto("holding") ELSE NoEvent
    /\ UNCHANGED <<s_state, handler, held>>

Debounce(b) ==
    /\ Sample("debounce", b, 0)
    /\ IF b THEN Goto("holding") /\ held' = 0 ELSE NoEvent /\ UNCHANGED held
    /\ UNCHANGED <<s_state, handler>>

Holding(b) ==
    /\ Sample("holding", b, IF b /\ held < HoldTicks THEN 0 ELSE 1)
    /\ CASE ~b -> Event("CLICK")
         [] b /\ held >= HoldTicks -> Event("HOLD")
         [] OTHER -> Sleep(1, "holding") /\ UNCHANGED s_state
    /\ UNCHANGED <<handler, held>>

-----------------------------------------------------------------------------
(* button_wait_for_release and button_release_confirmed *)

Release(b) ==
    /\ Sample("release", b, 0)
    /\ IF b THEN Sleep(1, "release") ELSE Sleep(DebounceTicks, "released")
    /\ UNCHANGED <<s_state, handler, held>>

Released ==
    /\ at = "released" /\ wake = 0
    /\ s_state' = CASE handler = "record" -> "SD_PLAYBACK"
                    [] handler = "live" /\ s_state = "TX" -> "IDLE"
                    [] OTHER -> s_state
    /\ Loop
    /\ UNCHANGED <<user, handler, held, press>>

Confirm(b) ==
    /\ Sample("confirm", b, 0)
    /\ IF b THEN Goto("tx_send") ELSE Sleep(DebounceTicks, "confirmed")
    /\ UNCHANGED <<s_state, handler, held>>

Confirmed(b) ==
    /\ Sample("confirmed", b, 0)
    /\ Goto(IF b THEN "tx_send" ELSE "tx_stop")
    /\ UNCHANGED <<s_state, handler, held>>

-----------------------------------------------------------------------------
(* The rest of app_main's loop *)

Switch ==
    /\ at = "switch" /\ wake = 0
    /\ \/ s_state = "IDLE" /\ ReadEvent("idle")
       \/ s_state = "TX" /\ Goto("tx_start") /\ handler' = "live"
       \/ s_state = "SD_RECORD" /\ Goto("record_start") /\ UNCHANGED handler
       \/ s_state = "SD_RECORD" /\ ReadEvent("record")  \* a recording is active
       \/ s_state = "SD_PLAYBACK" /\ Goto("playback") /\ UNCHANGED handler
       \/ s_state = "ERROR" /\ Goto("error_poll") /\ UNCHANGED handler
    /\ UNCHANGED <<user, s_state, held, press>>

ErrorPoll(b) ==
    /\ Sample("error_poll", b, 0)
    /\ s_state' = IF b THEN s_state ELSE "IDLE"
    /\ Loop
    /\ UNCHANGED <<handler, held>>

\* A call of the recorder or of the network, which takes its time, has returned.
Returns(place, ok) ==
    /\ at = place /\ ok \in BOOLEAN
    /\ s_state' = IF ok THEN IF place = "playback" THEN "IDLE" ELSE s_state
                  ELSE IF place \in {"tx_send", "tx_stop"} THEN s_state ELSE "ERROR"
    /\ CASE place = "record_start" -> ReadEvent("record")
         [] place = "tx_start" -> Goto(IF ok THEN "confirm" ELSE "release")
         [] place = "tx_send"  -> Goto(IF ok THEN "confirm" ELSE "tx_stop")
         [] place = "tx_stop"  -> Goto("release")
         [] place \in {"record_next", "playback"} -> Loop
    /\ place # "record_start" => UNCHANGED handler
    /\ UNCHANGED <<user, held, press>>

AppMainStep ==
    \/ \E b \in BOOLEAN :
        \/ Sense(b) \/ Debounce(b) \/ Holding(b) \/ Release(b)
        \/ Confirm(b) \/ Confirmed(b) \/ ErrorPoll(b)
    \/ Released \/ Switch
    \/ \E place \in WorkPlaces, ok \in BOOLEAN : Returns(place, ok)

ButtonNext == PressDown \/ LetGo \/ Tick \/ AppMainStep

ButtonSpec == ButtonInit /\ [][ButtonNext]_buttonVars

-----------------------------------------------------------------------------
(* Properties *)

\* Every variable stays within its type.
ButtonTypeOK ==
    /\ finger \in BOOLEAN /\ moved \in 0..RestTicks
    /\ s_state \in {"IDLE", "TX", "SD_RECORD", "SD_PLAYBACK", "ERROR"}
    /\ at \in ButtonPlaces /\ handler \in {"idle", "record", "live"}
    /\ wake \in 0..DebounceTicks /\ held \in 0..HoldTicks
    /\ press \in Press

\* One press is one event, however the contact bounces when it closes and opens; a
\* press that lasts is not missed while Main watches, and is answered at the latest
\* when it is HoldTicks old and found; one that ends early is answered before Main
\* looks again.  A contact that opens under the finger is excepted: only the
\* beginning of a press is debounced (button.c:64).
PressAnsweredOnce ==
    \/ press.glitches > 0
    \/ /\ press.events <= 1
       /\ press.watched /\ press.age = Longest => press.events = 1
       /\ /\ press.watched /\ ~finger /\ press.age >= Latency
          /\ at = "switch" /\ wake = 0
          => press.events = 1

\* Types, and every press answered once.
PressInv == ButtonTypeOK /\ PressAnsweredOnce

\* What the event says of the press: a HOLD was held for as long as configured; at a
\* CLICK the finger has left the button, and a press Main watched from its beginning
\* was shorter than a hold and the time it takes to find it.
EventTellsPress ==
    [][s_state = "IDLE" =>
        /\ s_state' = "TX" => press.age >= HoldTicks
        /\ s_state' = "SD_RECORD" =>
            \/ press'.glitches > 0
            \/ ~finger /\ (press.watched => press.age < HoldTicks + Latency)]_buttonVars
==============================================================================
