----------------------------- MODULE PanelProofs -----------------------------
(***************************************************************************)
(* The handset's panel, proved for every set of tasks and for every time     *)
(* configured: the LEDs show the flags, a press is answered once and in      *)
(* time, and the event says what the press was.                             *)
(***************************************************************************)
EXTENDS Panel, TLAPS

-----------------------------------------------------------------------------
(* The LEDs *)

\* The invariant holds when status_leds_init has returned.
LEMMA InitLedInv == ASSUME LedInit PROVE LedInv
BY DEF LedInit, LedInv, LedTypeOK, LedsShowFlags, Places, Steps, Flags

\* Every step of status_leds_set_tx and _set_rx preserves it.
LEMMA StepLedInv == ASSUME LedInv, [LedNext]_ledVars PROVE LedInv'
<1>. USE LedAssumption DEF LedInv, LedTypeOK, LedsShowFlags, Places, Steps, Flags,
                           At, Flag, Advance
<1>1. CASE UNCHANGED ledVars
  BY <1>1 DEF ledVars
<1>2. ASSUME NEW t \in LedTasks, LedTask(t) PROVE LedInv'
  <2>1. CASE Call(t)
    BY <2>1 DEF Call
  <2>2. CASE Take(t)
    BY <2>2 DEF Take
  <2>3. CASE SetFlag(t)
    BY <2>3 DEF SetFlag
  <2>4. CASE ReadFlags(t)
    BY <2>4 DEF ReadFlags
  <2>5. CASE SetGreen(t)
    BY <2>5 DEF SetGreen
  <2>6. CASE SetRed(t)
    BY <2>6 DEF SetRed
  <2>7. CASE Give(t)
    BY <2>7 DEF Give
  <2>. QED
    BY <1>2, <2>1, <2>2, <2>3, <2>4, <2>5, <2>6, <2>7 DEF LedTask
<1>. QED
  BY <1>1, <1>2 DEF LedNext

\* With any number of callers the LEDs show the flags whenever the mutex is free
\* (status_leds_set_tx, status_leds_set_rx).
THEOREM LedsAreRight == LedSpec => []LedsShowFlags
<1>1. LedInv => LedsShowFlags
  BY DEF LedInv
<1>. QED
  BY <1>1, InitLedInv, StepLedInv, PTL DEF LedSpec

-----------------------------------------------------------------------------
(* The button: the inductive invariant *)

\* How long Main sleeps at a place, and where it is while the handset is idle.
PlaceOK ==
    /\ at = "switch" => wake <= 1
    /\ at = "sense" => wake = 0
    /\ at = "holding" => held + wake <= HoldTicks /\ wake <= 1
    /\ s_state = "IDLE" =>
          \/ at = "switch"
          \/ at \in {"sense", "debounce", "holding"} /\ handler = "idle"

\* The age of a press, while the contact bounces, is the time since the finger moved.
AgeOK == finger /\ moved < BounceTicks => press.age <= moved

\* In the debounce time a finger that goes on touching the button has done so since
\* the contact was first found closed.  (Without bounces there is nothing to fear.)
DebounceOK ==
    at = "debounce" =>
        /\ finger => moved >= BounceTicks \/ moved + wake >= DebounceTicks
        /\ BounceTicks > 0 =>
              /\ finger => press.age + wake >= DebounceTicks
              /\ ~finger => /\ press.age + moved + wake >= DebounceTicks
                            /\ moved + wake < DebounceTicks + BounceTicks

\* While the press is measured, the finger was down for as long as it lasts.
HoldingOK ==
    at = "holding" =>
        /\ finger => /\ moved >= BounceTicks /\ press.age >= held
                     /\ BounceTicks > 0 => press.age >= DebounceTicks + held
        /\ ~finger => /\ moved + wake < DebounceTicks
                      /\ \/ moved >= BounceTicks
                         \/ press.age + moved >= DebounceTicks + held

\* A press that was answered is waited out, or was over: it is not found again.
AnsweredOK ==
    press.events > 0 =>
        /\ press.events = 1 /\ at # "holding"
        /\ at = "debounce" => ~finger /\ moved + wake >= DebounceTicks
        /\ finger => /\ moved >= BounceTicks
                     /\ \/ at = "switch" /\ s_state = "TX"
                        \/ at \in {"tx_start", "tx_send", "tx_stop", "confirm",
                                   "confirmed", "release"}

\* A press that Main watched from its beginning is answered in time, by the place it
\* is at.
UnansweredOK ==
    press.watched /\ press.events = 0 =>
        /\ s_state = "IDLE"
        /\ at \in {"switch", "sense", "debounce"} /\ ~finger =>
              press.age < 2 * DebounceTicks
        /\ at \in {"switch", "sense"} /\ finger => press.age + wake < DebounceTicks
        /\ at = "debounce" /\ finger => press.age + wake < 2 * DebounceTicks
        /\ at = "holding" => press.age < 2 * DebounceTicks + held

ButtonIInv ==
    /\ ButtonTypeOK /\ PlaceOK /\ AgeOK /\ DebounceOK /\ HoldingOK
    /\ press.glitches = 0 => AnsweredOK /\ UnansweredOK

-----------------------------------------------------------------------------
(* The button: its steps *)

LEMMA ButtonTypes ==
    ASSUME ButtonTypeOK
    PROVE  /\ press.age \in 0..Longest /\ press.events \in 0..2
           /\ press.glitches \in 0..MaxGlitches /\ press.watched \in BOOLEAN
           /\ moved \in 0..RestTicks /\ wake \in 0..DebounceTicks
           /\ held \in 0..HoldTicks /\ press \in Press
BY DEF ButtonTypeOK, Press

LEMMA InitButtonIInv == ASSUME ButtonInit PROVE ButtonIInv
<1> USE ButtonAssumption
<1>1. ButtonTypeOK
  <2>1. press = [age |-> 0, events |-> 0, glitches |-> 0, watched |-> FALSE]
    BY DEF ButtonInit
  <2>2. 0 \in 0..Longest /\ 0 \in 0..2 /\ 0 \in 0..MaxGlitches
    BY DEF Longest, Latency
  <2>3. press \in Press BY <2>1, <2>2 DEF Press
  <2>4. /\ moved = RestTicks /\ wake = 0 /\ held = 0 /\ finger \in BOOLEAN
    BY DEF ButtonInit
  <2>5. at \in ButtonPlaces BY DEF ButtonInit, ButtonPlaces
  <2>6. /\ s_state \in {"IDLE", "TX", "SD_RECORD", "SD_PLAYBACK", "ERROR"}
        /\ handler \in {"idle", "record", "live"}
    BY DEF ButtonInit
  <2> QED BY <2>3, <2>4, <2>5, <2>6 DEF ButtonTypeOK
<1>2. /\ at = "switch" /\ wake = 0 /\ ~finger /\ s_state = "IDLE"
      /\ press.events = 0 /\ ~press.watched
  BY DEF ButtonInit
<1> QED
  BY <1>1, <1>2
     DEF ButtonIInv, PlaceOK, AgeOK, DebounceOK, HoldingOK, AnsweredOK, UnansweredOK


\* A new press begins.
LEMMA PressDownOK == ASSUME ButtonIInv, PressDown PROVE ButtonIInv'
<1> USE ButtonAssumption DEF ButtonIInv
<1>0. /\ press.age \in 0..Longest /\ press.events \in 0..2
      /\ press.glitches \in 0..MaxGlitches /\ press.watched \in BOOLEAN
      /\ moved \in 0..RestTicks /\ wake \in 0..DebounceTicks
      /\ held \in 0..HoldTicks /\ press \in Press
  BY ButtonTypes
<1>1. /\ ~finger /\ moved = RestTicks /\ finger' /\ finger' \in BOOLEAN /\ moved' = 0
      /\ press' \in Press /\ press'.age = 0 /\ press'.events = 0 /\ press'.glitches = 0
      /\ (press'.watched <=> Watching)
      /\ UNCHANGED <<s_state, at, handler, wake, held>>
  <2> DEFINE w == Watching
  <2>1. /\ ~finger /\ moved = RestTicks /\ finger' = TRUE /\ moved' = 0
        /\ press' = [age |-> 0, events |-> 0, glitches |-> 0, watched |-> w]
        /\ UNCHANGED <<s_state, at, handler, wake, held>>
    BY DEF PressDown
  <2>2. w \in BOOLEAN BY DEF Watching
  <2>3. 0 \in 0..Longest /\ 0 \in 0..2 /\ 0 \in 0..MaxGlitches
    BY DEF Longest, Latency
  <2> HIDE DEF w
  <2>4. press' \in Press /\ press'.watched = w BY <2>1, <2>2, <2>3 DEF Press
  <2> QED BY <2>1, <2>4 DEF w
<1>2. ButtonTypeOK'
  BY <1>0, <1>1 DEF ButtonTypeOK, Press, ButtonPlaces, Samples, WorkPlaces
<1>3. PlaceOK' BY <1>0, <1>1 DEF PlaceOK
<1>4. AgeOK' BY <1>0, <1>1 DEF AgeOK
<1>5. DebounceOK' BY <1>0, <1>1 DEF DebounceOK
<1>6. HoldingOK' BY <1>0, <1>1 DEF HoldingOK
<1>7. press'.glitches = 0 => AnsweredOK' BY <1>0, <1>1 DEF AnsweredOK
<1>8. press'.glitches = 0 => UnansweredOK'
  BY <1>0, <1>1 DEF UnansweredOK, Watching, PlaceOK
<1> QED BY <1>2, <1>3, <1>4, <1>5, <1>6, <1>7, <1>8 DEF ButtonIInv

\* The finger leaves the button.
LEMMA LetGoOK == ASSUME ButtonIInv, LetGo PROVE ButtonIInv'
<1> USE ButtonAssumption DEF ButtonIInv
<1>0. /\ press.age \in 0..Longest /\ press.events \in 0..2
      /\ press.glitches \in 0..MaxGlitches /\ press.watched \in BOOLEAN
      /\ moved \in 0..RestTicks /\ wake \in 0..DebounceTicks
      /\ held \in 0..HoldTicks /\ press \in Press
  BY ButtonTypes
<1>1. /\ finger /\ moved >= BounceTicks /\ ~finger' /\ finger' \in BOOLEAN /\ moved' = 0
      /\ UNCHANGED <<s_state, at, handler, wake, held, press>>
  BY DEF LetGo
<1>2. ButtonTypeOK'
  BY <1>0, <1>1 DEF ButtonTypeOK, Press, ButtonPlaces, Samples, WorkPlaces
<1>3. PlaceOK' BY <1>0, <1>1 DEF PlaceOK
<1>4. AgeOK' BY <1>0, <1>1 DEF AgeOK
<1>5. DebounceOK' BY <1>0, <1>1 DEF DebounceOK
<1>6. HoldingOK' BY <1>0, <1>1 DEF HoldingOK, PlaceOK
<1>7. press'.glitches = 0 => AnsweredOK' BY <1>0, <1>1 DEF AnsweredOK
<1>8. press'.glitches = 0 => UnansweredOK' BY <1>0, <1>1 DEF UnansweredOK
<1> QED BY <1>2, <1>3, <1>4, <1>5, <1>6, <1>7, <1>8 DEF ButtonIInv

\* 10 ms pass.
LEMMA TickOK == ASSUME ButtonIInv, Tick PROVE ButtonIInv'
<1> USE ButtonAssumption DEF ButtonIInv
<1>0. /\ press.age \in 0..Longest /\ press.events \in 0..2
      /\ press.glitches \in 0..MaxGlitches /\ press.watched \in BOOLEAN
      /\ moved \in 0..RestTicks /\ wake \in 0..DebounceTicks
      /\ held \in 0..HoldTicks /\ press \in Press
  BY ButtonTypes
<1>1. /\ wake > 0 \/ at \in WorkPlaces
      /\ wake' = IF wake > 0 THEN wake - 1 ELSE 0
      /\ moved' = IF moved < RestTicks THEN moved + 1 ELSE moved
      /\ held' = IF held < HoldTicks THEN held + 1 ELSE held
      /\ press' \in Press
      /\ press'.age = IF finger /\ press.age < Longest THEN press.age + 1 ELSE press.age
      /\ press'.events = press.events /\ press'.glitches = press.glitches
      /\ press'.watched = press.watched
      /\ UNCHANGED <<finger, s_state, at, handler>>
  <2>1. press' = [press EXCEPT !.age = IF finger THEN Reaching(@, Longest) ELSE @]
    BY DEF Tick
  <2>2. (IF finger THEN Reaching(press.age, Longest) ELSE press.age) \in 0..Longest
    BY <1>0 DEF Reaching, Longest, Latency
  <2>3. press' \in Press BY <1>0, <2>1, <2>2 DEF Press
  <2> QED BY <1>0, <2>1, <2>3 DEF Tick, Reaching, Press
<1>2. ButtonTypeOK'
  BY <1>0, <1>1 DEF ButtonTypeOK, Press, ButtonPlaces, Samples, WorkPlaces
<1>3. PlaceOK' BY <1>0, <1>1 DEF PlaceOK, WorkPlaces
<1>4. AgeOK' BY <1>0, <1>1 DEF AgeOK, Longest, Latency
<1>5. DebounceOK' BY <1>0, <1>1 DEF DebounceOK, WorkPlaces, Longest, Latency
<1>6. HoldingOK' BY <1>0, <1>1 DEF HoldingOK, PlaceOK, WorkPlaces, Longest, Latency
<1>7. press'.glitches = 0 => AnsweredOK' BY <1>0, <1>1 DEF AnsweredOK, WorkPlaces
<1>8. press'.glitches = 0 => UnansweredOK'
  BY <1>0, <1>1 DEF UnansweredOK, WorkPlaces, PlaceOK
<1> QED BY <1>2, <1>3, <1>4, <1>5, <1>6, <1>7, <1>8 DEF ButtonIInv

\* What a sample of the button tells, and what it adds to the history of the press.
LEMMA SampleOK ==
    ASSUME ButtonTypeOK, NEW b, NEW place, NEW n, Sample(place, b, n)
    PROVE  /\ wake = 0 /\ at = place /\ b \in BOOLEAN
           /\ UNCHANGED <<finger, moved>>
           /\ press' \in Press
           /\ press'.age = press.age /\ press'.watched = press.watched
           /\ press'.events = IF n = 1 /\ press.events < 2 THEN press.events + 1
                                                           ELSE press.events
           /\ b => finger \/ moved < BounceTicks
           /\ press'.glitches = 0 => /\ press.glitches = 0
                                     /\ ~b => ~finger \/ moved < BounceTicks
<1> USE ButtonAssumption
<1>1. /\ press.age \in 0..Longest /\ press.events \in 0..2
      /\ press.glitches \in 0..MaxGlitches /\ press.watched \in BOOLEAN
      /\ moved \in 0..RestTicks /\ press \in Press /\ finger \in BOOLEAN
  BY ButtonTypes DEF ButtonTypeOK
<1> DEFINE g == IF Opens(b) THEN press.glitches + 1 ELSE press.glitches
           e == IF n = 1 THEN Reaching(press.events, 2) ELSE press.events
<1>2. /\ wake = 0 /\ at = place /\ b \in BOOLEAN /\ UNCHANGED <<finger, moved>>
      /\ Opens(b) => finger /\ press.glitches < MaxGlitches
      /\ press' = [press EXCEPT !.glitches = g, !.events = e]
  BY DEF Sample, PressedRaw, user
<1>3. g \in 0..MaxGlitches /\ e \in 0..2 BY <1>1, <1>2 DEF Reaching
<1>4. /\ press' \in Press /\ press'.age = press.age /\ press'.watched = press.watched
      /\ press'.events = e /\ press'.glitches = g
  <2> HIDE DEF g, e
  <2> QED BY <1>1, <1>2, <1>3 DEF Press
<1>5. e = IF n = 1 /\ press.events < 2 THEN press.events + 1 ELSE press.events
  BY DEF Reaching
<1>6. b => finger \/ moved < BounceTicks
  <2>1. ASSUME b, ~finger, ~(moved < BounceTicks) PROVE FALSE
    <3>1. moved >= BounceTicks BY <1>1, <2>1
    <3>2. b # finger BY <2>1
    <3> QED BY <1>2, <2>1, <3>1, <3>2 DEF Opens
  <2> QED BY <2>1
<1>7. press'.glitches = 0 => press.glitches = 0 /\ ~Opens(b) BY <1>1, <1>4
<1>8. ~Opens(b) => (~b => ~finger \/ moved < BounceTicks)
  BY <1>1, <1>2 DEF Opens
<1> QED BY <1>2, <1>4, <1>5, <1>6, <1>7, <1>8

\* The first sample of button_read_event.
LEMMA SenseOK == ASSUME ButtonIInv, NEW b, Sense(b) PROVE ButtonIInv'
<1> USE ButtonAssumption DEF ButtonIInv
<1>0. /\ press.age \in 0..Longest /\ press.events \in 0..2
      /\ press.glitches \in 0..MaxGlitches /\ press.watched \in BOOLEAN
      /\ moved \in 0..RestTicks /\ wake \in 0..DebounceTicks
      /\ held \in 0..HoldTicks /\ press \in Press
  BY ButtonTypes
<1>1. /\ UNCHANGED <<s_state, handler, held>>
      /\ \/ b /\ at' = "debounce" /\ wake' = DebounceTicks
         \/ ~b /\ handler = "idle" /\ at' = "switch" /\ wake' = 1
         \/ ~b /\ handler # "idle" /\ at' = "record_next" /\ wake' = 0
  BY DEF Sense, NoEvent, Loop, Goto, Sleep
<1>s. /\ wake = 0 /\ at = "sense" /\ b \in BOOLEAN /\ UNCHANGED <<finger, moved>>
      /\ press' \in Press /\ press'.age = press.age /\ press'.watched = press.watched
      /\ press'.events = press.events
      /\ b => finger \/ moved < BounceTicks
      /\ press'.glitches = 0 => /\ press.glitches = 0
                                /\ ~b => ~finger \/ moved < BounceTicks
  BY <1>0, SampleOK DEF Sense
<1>2. ButtonTypeOK'
  BY <1>0, <1>1, <1>s DEF ButtonTypeOK, Press, ButtonPlaces, Samples, WorkPlaces
<1>3. PlaceOK' BY <1>0, <1>1, <1>s DEF PlaceOK, ButtonTypeOK
<1>4. AgeOK' BY <1>0, <1>1, <1>s DEF AgeOK
<1>5. DebounceOK' BY <1>0, <1>1, <1>s DEF DebounceOK
<1>6. HoldingOK' BY <1>0, <1>1, <1>s DEF HoldingOK
<1>7. press'.glitches = 0 => AnsweredOK' BY <1>0, <1>1, <1>s DEF AnsweredOK, PlaceOK
<1>8. press'.glitches = 0 => UnansweredOK'
  BY <1>0, <1>1, <1>s DEF UnansweredOK, PlaceOK, AgeOK
<1> QED BY <1>2, <1>3, <1>4, <1>5, <1>6, <1>7, <1>8 DEF ButtonIInv

\* The second, after the debounce time.
LEMMA DebouncedOK == ASSUME ButtonIInv, NEW b, Debounce(b) PROVE ButtonIInv'
<1> USE ButtonAssumption DEF ButtonIInv
<1>0. /\ press.age \in 0..Longest /\ press.events \in 0..2
      /\ press.glitches \in 0..MaxGlitches /\ press.watched \in BOOLEAN
      /\ moved \in 0..RestTicks /\ wake \in 0..DebounceTicks
      /\ held \in 0..HoldTicks /\ press \in Press
  BY ButtonTypes
<1>1. /\ UNCHANGED <<s_state, handler>>
      /\ \/ b /\ at' = "holding" /\ wake' = 0 /\ held' = 0
         \/ ~b /\ handler = "idle" /\ at' = "switch" /\ wake' = 1 /\ held' = held
         \/ ~b /\ handler # "idle" /\ at' = "record_next" /\ wake' = 0 /\ held' = held
  BY DEF Debounce, NoEvent, Loop, Goto, Sleep
<1>s. /\ wake = 0 /\ at = "debounce" /\ b \in BOOLEAN /\ UNCHANGED <<finger, moved>>
      /\ press' \in Press /\ press'.age = press.age /\ press'.watched = press.watched
      /\ press'.events = press.events
      /\ b => finger \/ moved < BounceTicks
      /\ press'.glitches = 0 => /\ press.glitches = 0
                                /\ ~b => ~finger \/ moved < BounceTicks
  BY <1>0, SampleOK DEF Debounce
<1>2. ButtonTypeOK'
  BY <1>0, <1>1, <1>s DEF ButtonTypeOK, Press, ButtonPlaces, Samples, WorkPlaces
<1>3. PlaceOK' BY <1>0, <1>1, <1>s DEF PlaceOK
<1>4. AgeOK' BY <1>0, <1>1, <1>s DEF AgeOK
<1>5. DebounceOK' BY <1>0, <1>1, <1>s DEF DebounceOK
<1>6. HoldingOK' BY <1>0, <1>1, <1>s DEF HoldingOK, DebounceOK
<1>7. press'.glitches = 0 => AnsweredOK' BY <1>0, <1>1, <1>s DEF AnsweredOK, PlaceOK
<1>8. press'.glitches = 0 => UnansweredOK'
  BY <1>0, <1>1, <1>s DEF UnansweredOK, PlaceOK, AgeOK
<1> QED BY <1>2, <1>3, <1>4, <1>5, <1>6, <1>7, <1>8 DEF ButtonIInv

\* What the samples that measure the press do.
LEMMA HoldingEffect ==
    ASSUME ButtonTypeOK, NEW b, Holding(b)
    PROVE  /\ UNCHANGED <<handler, held>>
           /\ \/ b /\ held < HoldTicks /\ at' = "holding" /\ wake' = 1 /\ s_state' = s_state
              \/ /\ ~(b /\ held < HoldTicks) /\ handler # "idle"
                 /\ at' = "release" /\ wake' = 0 /\ s_state' = s_state
              \/ /\ ~(b /\ held < HoldTicks) /\ handler = "idle" /\ at' = "switch" /\ wake' = 1
                 /\ s_state' = IF b THEN "TX" ELSE "SD_RECORD"
<1> USE ButtonAssumption
<1>1. b \in BOOLEAN /\ held \in 0..HoldTicks /\ UNCHANGED <<handler, held>>
  BY ButtonTypes, SampleOK DEF Holding
<1>2. CASE ~b
  <2>1. Event("CLICK") BY <1>2 DEF Holding
  <2> QED BY <1>1, <1>2, <2>1 DEF Event, Loop, Goto, Sleep
<1>3. CASE b /\ held >= HoldTicks
  <2>1. Event("HOLD") BY <1>3 DEF Holding
  <2> QED BY <1>1, <1>3, <2>1 DEF Event, Loop, Goto, Sleep
<1>4. CASE b /\ ~(held >= HoldTicks)
  <2>1. Sleep(1, "holding") /\ UNCHANGED s_state BY <1>4 DEF Holding
  <2> QED BY <1>1, <1>4, <2>1 DEF Sleep
<1> QED BY <1>1, <1>2, <1>3, <1>4

\* The samples that measure the press.
LEMMA HoldingStepOK == ASSUME ButtonIInv, NEW b, Holding(b) PROVE ButtonIInv'
<1> USE ButtonAssumption DEF ButtonIInv
<1>0. /\ press.age \in 0..Longest /\ press.events \in 0..2
      /\ press.glitches \in 0..MaxGlitches /\ press.watched \in BOOLEAN
      /\ moved \in 0..RestTicks /\ wake \in 0..DebounceTicks
      /\ held \in 0..HoldTicks /\ press \in Press
  BY ButtonTypes
<1>1. /\ UNCHANGED <<handler, held>>
      /\ \/ b /\ held < HoldTicks /\ at' = "holding" /\ wake' = 1 /\ s_state' = s_state
         \/ /\ ~(b /\ held < HoldTicks) /\ handler # "idle"
            /\ at' = "release" /\ wake' = 0 /\ s_state' = s_state
         \/ /\ ~(b /\ held < HoldTicks) /\ handler = "idle" /\ at' = "switch" /\ wake' = 1
            /\ s_state' = IF b THEN "TX" ELSE "SD_RECORD"
  BY HoldingEffect
<1>s. /\ wake = 0 /\ at = "holding" /\ b \in BOOLEAN /\ UNCHANGED <<finger, moved>>
      /\ press' \in Press /\ press'.age = press.age /\ press'.watched = press.watched
      /\ press'.events = IF b /\ held < HoldTicks THEN press.events
                         ELSE IF press.events < 2 THEN press.events + 1 ELSE 2
      /\ b => finger \/ moved < BounceTicks
      /\ press'.glitches = 0 => /\ press.glitches = 0
                                /\ ~b => ~finger \/ moved < BounceTicks
  BY <1>0, SampleOK DEF Holding
<1>2. ButtonTypeOK'
  BY <1>0, <1>1, <1>s DEF ButtonTypeOK, Press, ButtonPlaces, Samples, WorkPlaces
<1>3. PlaceOK' BY <1>0, <1>1, <1>s DEF PlaceOK
<1>4. AgeOK' BY <1>0, <1>1, <1>s DEF AgeOK
<1>5. DebounceOK' BY <1>0, <1>1, <1>s DEF DebounceOK
<1>6. HoldingOK' BY <1>0, <1>1, <1>s DEF HoldingOK
<1>7. press'.glitches = 0 => AnsweredOK' BY <1>0, <1>1, <1>s DEF AnsweredOK, HoldingOK
<1>8. press'.glitches = 0 => UnansweredOK'
  BY <1>0, <1>1, <1>s DEF UnansweredOK, PlaceOK
<1> QED BY <1>2, <1>3, <1>4, <1>5, <1>6, <1>7, <1>8 DEF ButtonIInv

\* button_wait_for_release.
LEMMA ReleaseOK == ASSUME ButtonIInv, NEW b, Release(b) PROVE ButtonIInv'
<1> USE ButtonAssumption DEF ButtonIInv
<1>0. /\ press.age \in 0..Longest /\ press.events \in 0..2
      /\ press.glitches \in 0..MaxGlitches /\ press.watched \in BOOLEAN
      /\ moved \in 0..RestTicks /\ wake \in 0..DebounceTicks
      /\ held \in 0..HoldTicks /\ press \in Press
  BY ButtonTypes
<1>1. /\ UNCHANGED <<s_state, handler, held>>
      /\ \/ b /\ at' = "release" /\ wake' = 1
         \/ ~b /\ at' = "released" /\ wake' = DebounceTicks
  BY DEF Release, Sleep
<1>s. /\ wake = 0 /\ at = "release" /\ b \in BOOLEAN /\ UNCHANGED <<finger, moved>>
      /\ press' \in Press /\ press'.age = press.age /\ press'.watched = press.watched
      /\ press'.events = press.events
      /\ b => finger \/ moved < BounceTicks
      /\ press'.glitches = 0 => /\ press.glitches = 0
                                /\ ~b => ~finger \/ moved < BounceTicks
  BY <1>0, SampleOK DEF Release
<1>2. ButtonTypeOK'
  BY <1>0, <1>1, <1>s DEF ButtonTypeOK, Press, ButtonPlaces, Samples, WorkPlaces
<1>3. PlaceOK' BY <1>0, <1>1, <1>s DEF PlaceOK, ButtonTypeOK
<1>4. AgeOK' BY <1>0, <1>1, <1>s DEF AgeOK
<1>5. DebounceOK' BY <1>0, <1>1, <1>s DEF DebounceOK
<1>6. HoldingOK' BY <1>0, <1>1, <1>s DEF HoldingOK
<1>7. press'.glitches = 0 => AnsweredOK' BY <1>0, <1>1, <1>s DEF AnsweredOK
<1>8. press'.glitches = 0 => UnansweredOK'
  BY <1>0, <1>1, <1>s DEF UnansweredOK, PlaceOK
<1> QED BY <1>2, <1>3, <1>4, <1>5, <1>6, <1>7, <1>8 DEF ButtonIInv

\* button_release_confirmed, the first sample.
LEMMA ConfirmOK == ASSUME ButtonIInv, NEW b, Confirm(b) PROVE ButtonIInv'
<1> USE ButtonAssumption DEF ButtonIInv
<1>0. /\ press.age \in 0..Longest /\ press.events \in 0..2
      /\ press.glitches \in 0..MaxGlitches /\ press.watched \in BOOLEAN
      /\ moved \in 0..RestTicks /\ wake \in 0..DebounceTicks
      /\ held \in 0..HoldTicks /\ press \in Press
  BY ButtonTypes
<1>1. /\ UNCHANGED <<s_state, handler, held>>
      /\ \/ b /\ at' = "tx_send" /\ wake' = 0
         \/ ~b /\ at' = "confirmed" /\ wake' = DebounceTicks
  BY DEF Confirm, Goto, Sleep
<1>s. /\ wake = 0 /\ at = "confirm" /\ b \in BOOLEAN /\ UNCHANGED <<finger, moved>>
      /\ press' \in Press /\ press'.age = press.age /\ press'.watched = press.watched
      /\ press'.events = press.events
      /\ b => finger \/ moved < BounceTicks
      /\ press'.glitches = 0 => /\ press.glitches = 0
                                /\ ~b => ~finger \/ moved < BounceTicks
  BY <1>0, SampleOK DEF Confirm
<1>2. ButtonTypeOK'
  BY <1>0, <1>1, <1>s DEF ButtonTypeOK, Press, ButtonPlaces, Samples, WorkPlaces
<1>3. PlaceOK' BY <1>0, <1>1, <1>s DEF PlaceOK
<1>4. AgeOK' BY <1>0, <1>1, <1>s DEF AgeOK
<1>5. DebounceOK' BY <1>0, <1>1, <1>s DEF DebounceOK
<1>6. HoldingOK' BY <1>0, <1>1, <1>s DEF HoldingOK
<1>7. press'.glitches = 0 => AnsweredOK' BY <1>0, <1>1, <1>s DEF AnsweredOK
<1>8. press'.glitches = 0 => UnansweredOK'
  BY <1>0, <1>1, <1>s DEF UnansweredOK, PlaceOK
<1> QED BY <1>2, <1>3, <1>4, <1>5, <1>6, <1>7, <1>8 DEF ButtonIInv

\* The second.
LEMMA ConfirmedOK == ASSUME ButtonIInv, NEW b, Confirmed(b) PROVE ButtonIInv'
<1> USE ButtonAssumption DEF ButtonIInv
<1>0. /\ press.age \in 0..Longest /\ press.events \in 0..2
      /\ press.glitches \in 0..MaxGlitches /\ press.watched \in BOOLEAN
      /\ moved \in 0..RestTicks /\ wake \in 0..DebounceTicks
      /\ held \in 0..HoldTicks /\ press \in Press
  BY ButtonTypes
<1>1. /\ UNCHANGED <<s_state, handler, held>>
      /\ wake' = 0 /\ at' = IF b THEN "tx_send" ELSE "tx_stop"
  BY DEF Confirmed, Goto, Sleep
<1>s. /\ wake = 0 /\ at = "confirmed" /\ b \in BOOLEAN /\ UNCHANGED <<finger, moved>>
      /\ press' \in Press /\ press'.age = press.age /\ press'.watched = press.watched
      /\ press'.events = press.events
      /\ b => finger \/ moved < BounceTicks
      /\ press'.glitches = 0 => /\ press.glitches = 0
                                /\ ~b => ~finger \/ moved < BounceTicks
  BY <1>0, SampleOK DEF Confirmed
<1>2. ButtonTypeOK'
  BY <1>0, <1>1, <1>s DEF ButtonTypeOK, Press, ButtonPlaces, Samples, WorkPlaces
<1>3. PlaceOK' BY <1>0, <1>1, <1>s DEF PlaceOK
<1>4. AgeOK' BY <1>0, <1>1, <1>s DEF AgeOK
<1>5. DebounceOK' BY <1>0, <1>1, <1>s DEF DebounceOK
<1>6. HoldingOK' BY <1>0, <1>1, <1>s DEF HoldingOK
<1>7. press'.glitches = 0 => AnsweredOK' BY <1>0, <1>1, <1>s DEF AnsweredOK
<1>8. press'.glitches = 0 => UnansweredOK'
  BY <1>0, <1>1, <1>s DEF UnansweredOK, PlaceOK
<1> QED BY <1>2, <1>3, <1>4, <1>5, <1>6, <1>7, <1>8 DEF ButtonIInv

\* The poll of STATE_ERROR.
LEMMA ErrorPollOK == ASSUME ButtonIInv, NEW b, ErrorPoll(b) PROVE ButtonIInv'
<1> USE ButtonAssumption DEF ButtonIInv
<1>0. /\ press.age \in 0..Longest /\ press.events \in 0..2
      /\ press.glitches \in 0..MaxGlitches /\ press.watched \in BOOLEAN
      /\ moved \in 0..RestTicks /\ wake \in 0..DebounceTicks
      /\ held \in 0..HoldTicks /\ press \in Press
  BY ButtonTypes
<1>1. /\ UNCHANGED <<handler, held>>
      /\ s_state' = IF b THEN s_state ELSE "IDLE"
      /\ at' = "switch" /\ wake' = 1
  BY DEF ErrorPoll, Loop, Sleep
<1>s. /\ wake = 0 /\ at = "error_poll" /\ b \in BOOLEAN /\ UNCHANGED <<finger, moved>>
      /\ press' \in Press /\ press'.age = press.age /\ press'.watched = press.watched
      /\ press'.events = press.events
      /\ b => finger \/ moved < BounceTicks
      /\ press'.glitches = 0 => /\ press.glitches = 0
                                /\ ~b => ~finger \/ moved < BounceTicks
  BY <1>0, SampleOK DEF ErrorPoll
<1>2. ButtonTypeOK'
  BY <1>0, <1>1, <1>s DEF ButtonTypeOK, Press, ButtonPlaces, Samples, WorkPlaces
<1>3. PlaceOK' BY <1>0, <1>1, <1>s DEF PlaceOK
<1>4. AgeOK' BY <1>0, <1>1, <1>s DEF AgeOK
<1>5. DebounceOK' BY <1>0, <1>1, <1>s DEF DebounceOK
<1>6. HoldingOK' BY <1>0, <1>1, <1>s DEF HoldingOK
<1>7. press'.glitches = 0 => AnsweredOK' BY <1>0, <1>1, <1>s DEF AnsweredOK
<1>8. press'.glitches = 0 => UnansweredOK'
  BY <1>0, <1>1, <1>s DEF UnansweredOK, PlaceOK
<1> QED BY <1>2, <1>3, <1>4, <1>5, <1>6, <1>7, <1>8 DEF ButtonIInv

\* The press is over.
LEMMA ReleasedOK == ASSUME ButtonIInv, Released PROVE ButtonIInv'
<1> USE ButtonAssumption DEF ButtonIInv
<1>0. /\ press.age \in 0..Longest /\ press.events \in 0..2
      /\ press.glitches \in 0..MaxGlitches /\ press.watched \in BOOLEAN
      /\ moved \in 0..RestTicks /\ wake \in 0..DebounceTicks
      /\ held \in 0..HoldTicks /\ press \in Press
  BY ButtonTypes
<1>1. /\ at = "released" /\ wake = 0 /\ at' = "switch" /\ wake' = 1
      /\ \/ handler = "record" /\ s_state' = "SD_PLAYBACK"
         \/ handler = "live" /\ s_state = "TX" /\ s_state' = "IDLE"
         \/ /\ s_state' = s_state /\ handler # "record"
            /\ ~(handler = "live" /\ s_state = "TX")
      /\ UNCHANGED <<finger, moved, handler, held, press>>
  BY DEF Released, Loop, Sleep, user
<1>2. ButtonTypeOK'
  BY <1>0, <1>1 DEF ButtonTypeOK, Press, ButtonPlaces, Samples, WorkPlaces
<1>3. PlaceOK' BY <1>0, <1>1 DEF PlaceOK
<1>4. AgeOK' BY <1>0, <1>1 DEF AgeOK
<1>5. DebounceOK' BY <1>0, <1>1 DEF DebounceOK
<1>6. HoldingOK' BY <1>0, <1>1 DEF HoldingOK
<1>7. press'.glitches = 0 => AnsweredOK' BY <1>0, <1>1 DEF AnsweredOK
<1>8. press'.glitches = 0 => UnansweredOK' BY <1>0, <1>1 DEF UnansweredOK, PlaceOK
<1> QED BY <1>2, <1>3, <1>4, <1>5, <1>6, <1>7, <1>8 DEF ButtonIInv

\* app_main calls the handler of its state.
LEMMA SwitchOK == ASSUME ButtonIInv, Switch PROVE ButtonIInv'
<1> USE ButtonAssumption DEF ButtonIInv
<1>0. /\ press.age \in 0..Longest /\ press.events \in 0..2
      /\ press.glitches \in 0..MaxGlitches /\ press.watched \in BOOLEAN
      /\ moved \in 0..RestTicks /\ wake \in 0..DebounceTicks
      /\ held \in 0..HoldTicks /\ press \in Press
  BY ButtonTypes
<1>1. /\ at = "switch" /\ wake = 0 /\ wake' = 0
      /\ \/ s_state = "IDLE" /\ at' = "sense" /\ handler' = "idle"
         \/ s_state = "TX" /\ at' = "tx_start" /\ handler' = "live"
         \/ s_state = "SD_RECORD" /\ at' = "record_start" /\ handler' = handler
         \/ s_state = "SD_RECORD" /\ at' = "sense" /\ handler' = "record"
         \/ s_state = "SD_PLAYBACK" /\ at' = "playback" /\ handler' = handler
         \/ s_state = "ERROR" /\ at' = "error_poll" /\ handler' = handler
      /\ UNCHANGED <<finger, moved, s_state, held, press>>
  BY DEF Switch, ReadEvent, Goto, Sleep, user
<1>2. ButtonTypeOK'
  BY <1>0, <1>1 DEF ButtonTypeOK, Press, ButtonPlaces, Samples, WorkPlaces
<1>3. PlaceOK' BY <1>0, <1>1 DEF PlaceOK
<1>4. AgeOK' BY <1>0, <1>1 DEF AgeOK
<1>5. DebounceOK' BY <1>0, <1>1 DEF DebounceOK
<1>6. HoldingOK' BY <1>0, <1>1 DEF HoldingOK
<1>7. press'.glitches = 0 => AnsweredOK' BY <1>0, <1>1 DEF AnsweredOK
<1>8. press'.glitches = 0 => UnansweredOK' BY <1>0, <1>1 DEF UnansweredOK, PlaceOK
<1> QED BY <1>2, <1>3, <1>4, <1>5, <1>6, <1>7, <1>8 DEF ButtonIInv

\* A call that takes its time has returned.
LEMMA ReturnsOK == ASSUME ButtonIInv, NEW place \in WorkPlaces, NEW ok,
                         Returns(place, ok) PROVE ButtonIInv'
<1> USE ButtonAssumption DEF ButtonIInv
<1>0. /\ press.age \in 0..Longest /\ press.events \in 0..2
      /\ press.glitches \in 0..MaxGlitches /\ press.watched \in BOOLEAN
      /\ moved \in 0..RestTicks /\ wake \in 0..DebounceTicks
      /\ held \in 0..HoldTicks /\ press \in Press
  BY ButtonTypes
<1>1. /\ at = place /\ ok \in BOOLEAN
      /\ s_state' \in {s_state, "IDLE", "ERROR"}
      /\ s_state' = "IDLE" => place = "playback" \/ s_state = "IDLE"
      /\ handler' \in {handler, "record"}
      /\ \/ place = "record_start" /\ at' = "sense" /\ wake' = 0
         \/ /\ place \in {"tx_start", "tx_send", "tx_stop"} /\ wake' = 0
            /\ at' \in {"confirm", "release", "tx_stop"}
         \/ place \in {"record_next", "playback"} /\ at' = "switch" /\ wake' = 1
      /\ UNCHANGED <<finger, moved, held, press>>
  BY DEF Returns, ReadEvent, Goto, Loop, Sleep, user, WorkPlaces
<1>2. ButtonTypeOK'
  BY <1>0, <1>1 DEF ButtonTypeOK, Press, ButtonPlaces, Samples, WorkPlaces
<1>3. PlaceOK' BY <1>0, <1>1 DEF PlaceOK, WorkPlaces
<1>4. AgeOK' BY <1>0, <1>1 DEF AgeOK
<1>5. DebounceOK' BY <1>0, <1>1 DEF DebounceOK
<1>6. HoldingOK' BY <1>0, <1>1 DEF HoldingOK
<1>7. press'.glitches = 0 => AnsweredOK' BY <1>0, <1>1 DEF AnsweredOK, WorkPlaces
<1>8. press'.glitches = 0 => UnansweredOK' BY <1>0, <1>1 DEF UnansweredOK, PlaceOK
<1> QED BY <1>2, <1>3, <1>4, <1>5, <1>6, <1>7, <1>8 DEF ButtonIInv

LEMMA StepButtonIInv == ASSUME ButtonIInv, [ButtonNext]_buttonVars PROVE ButtonIInv'
<1>1. CASE PressDown BY <1>1, PressDownOK
<1>2. CASE LetGo BY <1>2, LetGoOK
<1>3. CASE Tick BY <1>3, TickOK
<1>4. ASSUME NEW b \in BOOLEAN,
             \/ Sense(b) \/ Debounce(b) \/ Holding(b) \/ Release(b)
             \/ Confirm(b) \/ Confirmed(b) \/ ErrorPoll(b)
      PROVE  ButtonIInv'
  BY <1>4, SenseOK, DebouncedOK, HoldingStepOK, ReleaseOK, ConfirmOK, ConfirmedOK,
     ErrorPollOK
<1>5. CASE Released BY <1>5, ReleasedOK
<1>6. CASE Switch BY <1>6, SwitchOK
<1>7. ASSUME NEW place \in WorkPlaces, NEW ok \in BOOLEAN, Returns(place, ok)
      PROVE  ButtonIInv'
  BY <1>7, ReturnsOK
<1>8. CASE UNCHANGED buttonVars
  <2> USE <1>8 DEF buttonVars
  <2>1. ButtonTypeOK' <=> ButtonTypeOK BY DEF ButtonTypeOK
  <2>2. PlaceOK' <=> PlaceOK BY DEF PlaceOK
  <2>3. AgeOK' <=> AgeOK BY DEF AgeOK
  <2>4. DebounceOK' <=> DebounceOK BY DEF DebounceOK
  <2>5. HoldingOK' <=> HoldingOK BY DEF HoldingOK
  <2>6. AnsweredOK' <=> AnsweredOK BY DEF AnsweredOK
  <2>7. UnansweredOK' <=> UnansweredOK BY DEF UnansweredOK
  <2> QED BY <2>1, <2>2, <2>3, <2>4, <2>5, <2>6, <2>7 DEF ButtonIInv
<1> QED
  BY <1>1, <1>2, <1>3, <1>4, <1>5, <1>6, <1>7, <1>8 DEF ButtonNext, AppMainStep

LEMMA ButtonKeepsIInv == ButtonSpec => []ButtonIInv
<1>1. ButtonInit => ButtonIInv BY InitButtonIInv
<1>2. ButtonIInv /\ [ButtonNext]_buttonVars => ButtonIInv' BY StepButtonIInv
<1> QED BY <1>1, <1>2, PTL DEF ButtonSpec

LEMMA PressIsAnswered == ASSUME ButtonIInv PROVE PressInv
<1> USE ButtonAssumption DEF ButtonIInv
<1>1. /\ press.age \in 0..Longest /\ press.events \in 0..2
      /\ press.glitches \in 0..MaxGlitches /\ press.watched \in BOOLEAN
      /\ held \in 0..HoldTicks /\ wake \in 0..DebounceTicks
  BY ButtonTypes
<1>2. CASE press.glitches > 0 BY <1>2 DEF PressInv, PressAnsweredOnce
<1>3. CASE press.glitches = 0
  <2>1. press.events <= 1 BY <1>1, <1>3 DEF AnsweredOK
  <2>2. ASSUME press.watched, press.age = Longest PROVE press.events = 1
    <3>1. press.events = 0 => at \in {"switch", "sense", "debounce", "holding"}
      BY <1>3, <2>2 DEF UnansweredOK, PlaceOK
    <3> QED BY <1>1, <1>3, <2>1, <2>2, <3>1 DEF UnansweredOK, Longest, Latency
  <2>3. ASSUME press.watched, ~finger, press.age >= Latency, at = "switch"
        PROVE  press.events = 1
    BY <1>1, <1>3, <2>1, <2>3 DEF UnansweredOK, Latency
  <2> QED BY <2>1, <2>2, <2>3 DEF PressInv, PressAnsweredOnce
<1> QED BY <1>1, <1>2, <1>3

-----------------------------------------------------------------------------
(* What a step says of the press, when it makes an event of it *)

\* Only the end of a measurement leaves STATE_IDLE.
LEMMA IdleEndsHere ==
    ASSUME ButtonIInv, [ButtonNext]_buttonVars, s_state = "IDLE"
    PROVE  s_state' = "IDLE" \/ \E b \in BOOLEAN : Holding(b)
<1>1. at \in {"switch", "sense", "debounce", "holding"} BY DEF ButtonIInv, PlaceOK
<1>2. CASE PressDown \/ LetGo \/ Tick BY <1>2 DEF PressDown, LetGo, Tick
<1>3. ASSUME NEW b \in BOOLEAN, Sense(b) \/ Debounce(b) PROVE s_state' = "IDLE"
  BY <1>3 DEF Sense, Debounce
<1>4. ASSUME NEW b \in BOOLEAN, Release(b) \/ Confirm(b) \/ Confirmed(b) \/ ErrorPoll(b)
      PROVE  FALSE
  BY <1>1, <1>4 DEF Release, Confirm, Confirmed, ErrorPoll, Sample
<1>5. CASE Released BY <1>1, <1>5 DEF Released
<1>6. CASE Switch BY <1>6 DEF Switch
<1>7. ASSUME NEW place \in WorkPlaces, NEW ok \in BOOLEAN, Returns(place, ok)
      PROVE  FALSE
  BY <1>1, <1>7 DEF Returns, WorkPlaces
<1>8. CASE UNCHANGED buttonVars BY <1>8 DEF buttonVars
<1> QED
  BY <1>2, <1>3, <1>4, <1>5, <1>6, <1>7, <1>8 DEF ButtonNext, AppMainStep

LEMMA EventIsTrue ==
    ASSUME ButtonIInv, [ButtonNext]_buttonVars, s_state = "IDLE"
    PROVE  /\ s_state' = "TX" => press.age >= HoldTicks
           /\ s_state' = "SD_RECORD" =>
               \/ press'.glitches > 0
               \/ ~finger /\ (press.watched => press.age < HoldTicks + Latency)
<1> USE ButtonAssumption DEF ButtonIInv
<1>1. /\ press.age \in 0..Longest /\ press.events \in 0..2 /\ press.watched \in BOOLEAN
      /\ press.glitches \in 0..MaxGlitches /\ held \in 0..HoldTicks
      /\ moved \in 0..RestTicks
  BY ButtonTypes
<1>2. SUFFICES ASSUME NEW b \in BOOLEAN, Holding(b), s_state' # "IDLE"
               PROVE  /\ s_state' = "TX" => press.age >= HoldTicks
                      /\ s_state' = "SD_RECORD" =>
                          \/ press'.glitches > 0
                          \/ /\ ~finger
                             /\ press.watched => press.age < HoldTicks + Latency
  BY IdleEndsHere
<1>3. /\ at = "holding" /\ press' \in Press /\ wake = 0
      /\ b => finger \/ moved < BounceTicks
      /\ press'.glitches = 0 => /\ press.glitches = 0
                                /\ ~b => ~finger \/ moved < BounceTicks
  BY <1>2, SampleOK DEF Holding
<1>4. /\ s_state' = "TX" => b /\ held >= HoldTicks
      /\ s_state' = "SD_RECORD" => ~b
  BY <1>1, <1>2, HoldingEffect
<1>5. ASSUME s_state' = "TX" PROVE press.age >= HoldTicks
  BY <1>1, <1>3, <1>4, <1>5 DEF HoldingOK
<1>6. ASSUME s_state' = "SD_RECORD", ~(press'.glitches > 0)
      PROVE  ~finger /\ (press.watched => press.age < HoldTicks + Latency)
  <2>1. press'.glitches = 0 BY <1>3, <1>6 DEF Press
  <2>2. ~finger BY <1>1, <1>3, <1>4, <1>6, <2>1 DEF HoldingOK
  <2>3. press.events = 0 BY <1>1, <1>3, <2>1 DEF AnsweredOK
  <2> QED BY <1>1, <1>3, <2>1, <2>2, <2>3 DEF UnansweredOK, Latency
<1> QED BY <1>5, <1>6

-----------------------------------------------------------------------------
(* The panel: Main polls the button and calls the LEDs, never both at once *)

LEMMA PanelStep ==
    ASSUME [PanelNext]_panelVars
    PROVE  [ButtonNext]_buttonVars /\ [LedNext]_ledVars
<1> USE PanelAssumption
<1>1. CASE MainCalls
  <2>1. LedTask(Main) /\ UNCHANGED buttonVars BY <1>1 DEF MainCalls, LedTask
  <2> QED BY <2>1 DEF LedNext
<1>2. CASE ReceiveTaskCalls
  <2>1. LedTask(ReceiveTask) /\ UNCHANGED buttonVars
    BY <1>2 DEF ReceiveTaskCalls, LedTask
  <2> QED BY <2>1 DEF LedNext
<1>3. CASE LedCallGoesOn
  <2>1. UNCHANGED buttonVars /\ \E t \in LedTasks : LedTask(t)
    BY <1>3 DEF LedCallGoesOn, LedTask
  <2> QED BY <2>1 DEF LedNext
<1>4. CASE ButtonStep BY <1>4 DEF ButtonStep, ButtonNext
<1>5. CASE UNCHANGED panelVars BY <1>5 DEF panelVars
<1> QED BY <1>1, <1>2, <1>3, <1>4, <1>5 DEF PanelNext

\* In one firmware each component behaves as it does alone: sharing Main adds nothing to
\* what the button or the LEDs may do.
THEOREM PanelIsButtonAndLeds == PanelSpec => ButtonSpec /\ LedSpec
<1>1. PanelInit => ButtonInit /\ LedInit BY DEF PanelInit
<1> QED BY <1>1, PanelStep, PTL DEF PanelSpec, ButtonSpec, LedSpec

\* So the panel's LEDs show the flags, whatever Main does with the button.
THEOREM PanelShowsFlags == PanelSpec => []LedsShowFlags
  BY LedsAreRight, PanelIsButtonAndLeds, PTL

\* For every debounce time longer than the contact bounces, a press is one event, and is
\* one by the time configured (button_read_event, button_wait_for_release).
THEOREM PressIsOneEvent == PanelSpec => []PressInv
<1>1. ButtonIInv => PressInv BY PressIsAnswered
<1> QED BY <1>1, ButtonKeepsIInv, PanelIsButtonAndLeds, PTL

\* A HOLD was held for as long as configured, and a CLICK was let go, and shorter
\* (button_read_event).
THEOREM EventIsWhatThePressWas == PanelSpec => EventTellsPress
<1>1. ButtonIInv /\ [ButtonNext]_buttonVars =>
        [s_state = "IDLE" =>
          /\ s_state' = "TX" => press.age >= HoldTicks
          /\ s_state' = "SD_RECORD" =>
              \/ press'.glitches > 0
              \/ ~finger /\ (press.watched => press.age < HoldTicks + Latency)]_buttonVars
  BY EventIsTrue
<1> QED
  BY <1>1, ButtonKeepsIInv, PanelIsButtonAndLeds, PTL DEF EventTellsPress, ButtonSpec
==============================================================================
