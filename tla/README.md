# ESP32 IPphone: TLA+ models, model checking and proofs

The repository is the firmware of a push-to-talk handset (ESP32, ESP-IDF,
FreeRTOS): a button, a microphone, a speaker, a microSD card, two LEDs and
ESP-NOW radio. A click records to `/sdcard/record.wav`, a second click stops and
plays the recording; holding the button sends live voice to every other board.
This directory holds TLA+ modules of it, the TLC configurations that check them
and TLAPS proofs. `PROJECT.json` lists components, runs, hazards, findings and
theorems, and maps every definition to the lines it models.

## 1. The system

| Component | State | Operations | Who calls it |
|---|---|---|---|
| Application (`main/app_main.c`) | `s_state`, `s_sd_ready` | the state machine IDLE, TX, SD_RECORD, SD_PLAYBACK, ERROR, every 10 ms | the task Main |
| Recorder (`storage.c`) | `s_record_state`, stop and cancel flags, waiters, result, the file | `storage_init`, `_record_start`, `_next`, `_stop`, `_is_active`, `_play_recording`, and the task of one recording | Main; the record task is created per recording |
| Audio devices (`audio.c`) | a mutex, a busy flag and an owner for microphone and speaker | start, read or write, stop | Main, the record task, the receive task |
| ESP-NOW sender (`network_audio.c`) | `s_streaming_tx*`, done semaphore, last send status | `stream_start`, `_send_next`, `_stop`, `send_recording`, the send callback | Main; the Wi-Fi task calls back |
| ESP-NOW receiver (`network_audio.c`) | the receive queue, the session (`speaker_started`, `dropping_stream`, `expected_sequence`) | the receive callback, the receive task | the Wi-Fi task, the receive task |
| Status LEDs (`status_leds.c`) | `s_tx_active`, `s_rx_active`, the pins | `set_tx`, `set_rx` | Main, the receive task |
| Button (`button.c`) | none | `read_event`, `release_confirmed`, `wait_for_release` | Main, polled |
| SD protocol (`components/sdmmc`, a local copy of ESP-IDF's) | `sdmmc_card_t` | `sdmmc_card_init`; read, write, erase, sanitize; transfers, interrupts and CIS of an IO card | FatFs below the recorder; one call at a time |

Interaction: Main calls everything but the receive task; the record task and Main
meet in `s_record_mutex` and by task notifications; Main, the record task and the
receive task compete for the audio devices without waiting; the Wi-Fi task meets
Main in a binary semaphore and the receive task in a queue; Main and the receive
task share the LED flags.

What is hard: starts and stops with timeouts whose late outcome arrives in the
next call; flags read without a lock; a radio that loses packets, callbacks
that come late; failures of the card, of the I2S driver and of file operations
in the middle of a sequence; power cuts; and, in the card driver, addresses in
32 bits, endless busy, errors that are reported elsewhere than where they occur.

What makes each component correct: *recorder*: one recording at a time, no lost
wake-up, a header that never promises more than the file holds, no resource kept;
*audio*: a device is used by its holder alone; *application*: the LED tells the
truth, one event per press, a way back to IDLE; *button*: a bouncing press is answered
once, and by its length; *sender and receiver*: well-formed
streams, what is heard was said, refused streams are not joined, the speaker comes
back; *LEDs*: pins show flags; *card*: ESP_OK means done, in the right place,
however a transfer is split; initialisation ends with card and host in agreement.

## 2. Modules

| Module | Models | Notes |
|---|---|---|
| `Storage` | `storage.c` | one action per statement that another task can observe; instances of the record task are `Workers` |
| `AppMain` (extends `Storage`) | `app_main.c`, the button as polled, LED flags, when the receive task plays | every `storage_*` call is the sequence of `Storage`'s own steps |
| `ExclusiveDevice` | abstract: a device has at most one holder and is used by it only | what `audio.c` promises |
| `Audio` | `audio.c` | each statement of start, read/write, stop a step; implements `ExclusiveDevice` (`holder <- mutex`, `inUse <-` the tasks inside a driver call) |
| `EspNowTx` | sending half of `network_audio.c` | Main, the Wi-Fi task with its callback, the driver |
| `EspNowRx` | receiving half | callback, queue, receive task, the speaker's other user |
| `EspNowRxTimed` (extends `EspNowRx`) | the same with a clock | what the 250 ms of silence end |
| `PttLink` (composes both) | a call from one board to another | an ordered, lossy radio between them |
| `StatusLeds` | `status_leds.c` | any number of tasks |
| `Button` | `button.c` and the samples `app_main.c` takes of it | in ticks of 10 ms, over a contact that bounces and may open under the finger |
| `Panel` (composes `Button`, `StatusLeds`) | the handset's panel | Main calls `status_leds_set_*` where `app_main.c` does; the receive task calls at any time |
| `SdTransfer` | `sdmmc_cmd.c`, `sdmmc_wait_for_idle` | the running call and a card that programs at its own pace |
| `SdIo` | `sdmmc_io.c` | one command a step; which byte went to which register is a history |
| `SdSlot` (composes both) | a slot with a memory or an IO card | `is_sdio`, as `sdmmc_init_io` found it |
| `SdCardInit` | `sdmmc_card_init` and its steps, UHS-I and tuning included | host and card chosen in `CardInit`, any command may fail |
| `MC*` | instances for TLC | model values, symmetry, the sets of hosts and cards |
| `*Proofs` | TLAPS theorems | section 4 says which of what |

Names of variables and operators are the code's where the code has one. A
variable `...pc` says which statement a task is about to execute. Variables that
the comments call *history* exist for the properties only. `AppMain` also
implements `Storage`: `UsesRecorderAsClient` is `Storage`'s `Spec`, so that what
holds of `Storage` with its free client holds in the firmware.

External parts are modelled from how the code uses them: FreeRTOS objects by their
documented meaning, FatFs as a file with a header and a number of chunks and a
table of open files, the I2S driver as calls that may fail (enabling an enabled
channel always does), the ESP-NOW driver as a queue with late or missing
callbacks, the card as described in the headers of `SdTransfer` and `SdCardInit`.

## 3. Runs

One configuration per component, with its safety and liveness together:

| Run | Configuration | What it shows |
|---|---|---|
| `recorder` | `MCStorage` | two record tasks and one client, card and file operations failing anywhere: one recorder, no playback of an open file, cancelled starts stay cancelled, header and microphone safe, no lost wake-up, IDLE means saved, handles accounted for; every stop comes to rest |
| `app` | `MCAppMain` | red whenever something is recorded, played, sent or received, IDLE is clean, one event per press, the client `Storage` assumes; the application settles |
| `audio` | `MCAudio` | three tasks: exclusive use and clean hand-over |
| `panel` | `MCPanel` | pins show flags; a press is answered once, as the click or the hold it was, however the contact bounces at its beginning and end |
| `sender` | `MCEspNowTx` | stream grammar of live calls and recordings; a packet reported as sent was, while no callback is late, and a transmission is reported once at most when one is |
| `receiver` | `MCEspNowRx` | speaker and LED only in a session, silence while dropping, nothing is dropped after a pause, the speaker comes back |
| `ptt_link` | `MCPttLink` | heard in order, refused is silent, a gap report means a loss, at the wrap of the numbers too, without a fault nothing is lost |
| `sd_slot` | `MCSdSlot` | ESP_OK means written and read, in place; a failed split write is a prefix; erase hits its range only; full erase erases; every call returns. IO card: each byte of a split transfer moved once to its own register; a CIS read in chunks is the CIS |
| `card_init` | `MCSdCardInit` | commands in the state they need, clock turned back unless the host refuses, bus width, voltage and frequency, capacity, a sampling point that works, termination |

Type invariants. `IInv` of `Storage` is the inductive invariant of its proofs, types
included, and so is `AudioInv`; `AppInv`, `RxInv`, `LinkInv`, `PressInv`, `XferInv`,
`IoInv` and `CardInv` are a module's type invariant (`...TypeOK`) with its most basic
safety properties. `LinkInv` contains the types of `EspNowTx` and `EspNowRx`, and
`LedTypeOK` is part of the invariant proved in `PanelProofs`. `OkMeansDone` joins what
ESP_OK of a write, a read and a full erase promises.

Bounds, and why they are enough. Two record tasks suffice: a third can only be
created when one of the two is past its last access (this is `OneRecorder`, proved
for any number). `MaxFiles` is the code's 2 in `recorder`. The chunks of a file
(`Capacity`) and the mount retries are 1, because only "none", "some" and "full",
"again" and "given up" are told apart. `app` has one record task, a table of one
file and `Capacity = 0`: playback reads no sample then, which changes the length
of the loop in `storage_play_recording` and no branch of the application, and what
depends on the recorder's own interleavings is the business of `recorder`, which
`UsesRecorderAsClient` carries over. `SeqMod = 2` stands for 2^16, so that the
sequence number wraps within a call of three packets. `PttLink` has two calls, the first of up
to three packets, so that a middle one is lost in an open session and the third has the
number of the first again, the second of up to two (`ShortSecondCall`); a queue of one, the
smallest with an overtaking START, and no recordings, which on the air are calls of a known
length. Its states are told apart by everything but the sender's history of reports
(`LinkView`), which no action reads and of which that run says the type only. For the receiver
four arrivals overfill the
receiver's queue of two, and two ticks of silence leave room for a frame in between.
`panel` debounces for 3 ticks, holds after 4 and bounces for up to 2: a bounce may end before,
within and at the debounce, and a hold is longer than a debounce; one opening of the
contact under the finger is enough to split a press. `SdTransfer`'s card has three sectors and makes two calls of up to
two sectors: enough for a split, a boundary, a wrap (`BlockSize` and `WordMod` are
small numbers with the same relation) and data for an erase to leave. `SdIo` has words of
2 bytes for 4, blocks of 4 for 512 and counts below 4 for 512: sizes below, at and above a word and a
block, and both counts that are cut; its CIS comes in chunks of 4 bytes for 32, three of them at most,
whose bytes are the end code or a length that reaches over the next chunk's beginning. Its five cards
are a byte-addressed and a high-capacity SD card on SPI, the second clearing its
error bits once reported, an SD card on an SD bus and two MMCs, with and without
sanitize. `SdCardInit` allows two tries and two errors of ACMD41, where the code
allows 300 and 3; `SdscLimit` is 4 sectors. Hosts and cards are all combinations of
bus widths, speeds, high capacity, high speed and DDR listed in `MCSdCardInit`, and UHS-I
hosts and cards apart from those; the sampling points are few enough to make every pattern of
good and bad ones.

`CHECK_DEADLOCK FALSE` stands in configurations whose bounded number of calls,
streams or arrivals may be used up, and where initialisation has ended.

Properties with a named exception. Where the code does less than a property would
like, and says so nowhere, the property names the path instead of leaving it out of
the model: `OkMeansWritten`, `SplitLeavesPrefix` and `FullEraseErases` hold unless
`unseen`, a history variable that is set exactly when the host lost the only sign of
a failure; `FullEraseErases` excepts an MMC without sanitize; `CapacityRight` the
second decoding of CSD; `BusAgrees` a card with neither memory nor functions, and the edges of
an MMC on one line of a DDR host (`OneLineDdr`); `ClockNotLeftOn`, a part of `CardInv`, a host
that refuses to turn its clock back (`off_refused`, set in `ClockOff`);
`RedTellsActivity` the paths recorded in `excused`, each in the action that opens it;
`PressInv` and `EventTellsPress` a contact that opened while the finger was down;
`TunedPhaseWorks` a table without a good point, or with its longest run at the end;
`HandlesAccounted` the one return of `storage_play_recording` that keeps a handle.

Fairness. `Storage`: Main inside a call and each record task are fair, since both
are ready tasks of a preemptive scheduler and every wait has a timeout; Main need
never call. `AppMain`: Main's loop and the recorder are fair; the user and the
radio are not. `EspNowRxTimed`: time passes and the receive task is not
starved; arrivals are bounded in that run, which is what "the radio falls silent"
means. `SdSlot`: the call's own steps and its 5 s deadline; neither the card's
end of programming nor an unanswered CMD13 is assumed, and nothing of the IO card. `SdCardInit`: the calling
task; every command has a timeout in the host driver.

Runs that end in a violation (each checks one property the sources claim):

| Run | Disagreement |
|---|---|
| `stuck_busy` | `storage.c:424`: a start that times out just when the task finishes leaves STOPPING with no task |
| `unasked_recording` | `app_main.c:208`: after a recording that failed between polls, a new one starts by itself |
| `stuck_session` | `network_audio.c:67`: one failed disable, and the session and the LED stay on |

Other disagreements met while modelling, present in the modules and not given a run:

| Where | What the code does |
|---|---|
| `storage.c:534` | speaker busy: the file stays open; after two such playbacks the FAT layer has no entry left (excepted in `HandlesAccounted`) |
| `app_main.c:211` | a press in the handler that follows a failed start goes on to playback of the old recording, LED off (excepted in `RedTellsActivity`) |
| `app_main.c:208` | a click while the task of a timed-out start or stop is still ending starts no recording and lights no LED; the next one plays what is on the card, LED off (excepted there too) |
| `app_main.c:218` | ERROR puts out the receive LED during a call (excepted there too) |
| `sdmmc_cmd.c:555` | a CMD13 that fails while waiting: ESP_OK from a write the card never finished (`PollLost`) |
| `sdmmc_cmd.c:522,565` | the first SEND_STATUS takes the error bits of a card that clears them on read; only the second is looked at |
| `sdmmc_cmd.c:841` | full erase of an MMC without sanitize is a discard |
| `sdmmc_sd.c:517` | the limited capacity of a byte-addressed card is undone by the second decoding of CSD |
| `sdmmc_common.c:190,237` | assertion with an SDIO card without functions in a 400 kHz host |
| `sdmmc_cmd.c:181` | a host that refuses to turn its clock back is only logged: the clock stays on, also behind ESP_OK (excepted in `ClockNotLeftOn`) |
| `sdmmc_mmc.c:57,118` | both edges are decided by the lines of the slot, the card is told of them with its width: an MMC on one line of a DDR host in a four-line slot is never told, its host uses them (excepted in `BusAgrees`) |
| `sdmmc_cmd.c:751` | the size of an erase is formed in 32 bits: 4 GiB is given the time of nothing (line 845 casts first); not in the modules, where a wait may end at any time |
| `sdmmc_sd.c:358` | the search for the sampling point misses a run that ends with the table, and ESP_OK is returned when no point worked (excepted in `TunedPhaseWorks`) |
| `sdmmc_io.c:405` | a transfer of 513 to 515 bytes is split into 512 and the rest and accepted; `sdmmc_cmd.h:213` promises ESP_ERR_INVALID_SIZE above 512 |
| `sdmmc_io.c:360` | a block count of 0, or a multiple of 512, is sent as 0, which the card takes as endless (`endless`) |
| `sdmmc_io.c:91` | on a combo card CMD5's OCR replaces what CMD8 found out, so that ACMD41 goes without HCS |

The MMC, SD-bus and SDIO paths are code of the repository that the firmware's SPI
configuration does not reach; the SPI cards of `sd_slot` and the SPI hosts of
`card_init` are the ones it does.

## 4. Proofs

Every safety property that a passing run checks, invariants and properties of steps, is a
theorem: it holds for every value of the constants that satisfies the named assumptions. None
is inductive by itself; each module proves an inductive invariant (TLC checked it first, on a
small instance), with one lemma per action or group of actions, and the theorems follow by
PTL. Of each liveness property the part that is safety is proved too: how many steps are left,
that each of them leaves fewer, and that nobody else adds to them.

| Module | Inductive invariant | Theorems |
|---|---|---|
| `StorageProofs` | `IInv` | `Invariance`, `TypeCorrect`, `RecorderIsUnique`, `PlaybackIsSafe`, `CancelIsFinal`, `HeaderIsSound`, `MicIsReturned`, `NoLostWakeup`; of steps `IdleMeansSaved`, `HandlesBalance`, `StopsGetOn` |
| `AppProofs` | `AppIInv` | `AppImplementsClient` (refinement), `FirmwareIsSafe`, `AppInvariance`, `IdleHoldsNothing`, `RedIsTrue`, `PressIsOneAppEvent`, `SettlingGetsOn` |
| `AudioProofs` | `AudioInv` | `AudioInvariance`, `HandedOnClean`, `AudioIsExclusive` (refinement) |
| `PanelProofs` | `LedInv`, `ButtonIInv` | `LedsAreRight`, `PanelIsButtonAndLeds` (refinement), `PanelShowsFlags`, `PressIsOneEvent`, `EventIsWhatThePressWas` |
| `EspNowRxProofs` | `RxIInv`, `TimedIInv` | `ReceiverIsSafe`, `ClockOnlyDelays` (refinement), `TimedReceiverIsSafe`, `PauseIsHeard`, `SilenceGetsOn` |
| `PttLinkProofs` | `TxIInv`, `ReportsCounted`, `LinkIInv` | `StreamsAreWellFormed`, `ReportsAreTrue`, `SpeechKeepsOrder`, `NoStreamIsJoined`, `GapsAreReal`, `NothingIsLost`, `LinkHasSender`, `LinkHasReceiver` (refinements) |
| `SdProofs` | `XferIInv`, `IoIInv`, `CisIInv` | `SlotTransfers`, `SlotTalksToCard` (refinements), `BlocksAreInPlace`, `OkCallsAreDone`, `SplitWritesStop`, `ErasesOnlyTheRange`, `BytesMoveInOrder`, `CisIsReadWhole`, `CallsGetOn`, `IoCallsEnd` |
| `SdCardInitProofs` | `CardIInv` | `CommandsComeInOrder`, `CardAndHostAgree`, `CapacityIsTheCards`, `TuningFindsAPoint`, `InitialisationEnds` |

The arguments.

*Recorder.* `RecorderInv`: while a task is at work the recorder is busy and its result is
still OK, which keeps a second start out; no task is at work while a start creates one.
`OpenFilesInv`: an open file is counted. `FileInv`: what the task has counted is on the card,
and the header is zero until rewritten. `MicInv`; `WakeInv`: a task that has taken the waiter
is about to notify it. `HandlesBalance` compares the files in hand before and after a step:
with one recorder at most, the set of tasks with a file changes by one where the count does.

*Application.* Each step is one of `Storage` or leaves the recorder alone, so that `IInv`
holds and need not be proved again. On top, `PlaceInv` says in which call Main can be behind
each place of `app_main`'s body, and in which state; `RecordingInv` that a start that failed
and a stop that has begun leave no recording that goes on, whatever the record task does
meanwhile (this is where `StopInv` is needed: only STOPPING outlives a request); `LedInv` why
the red LED is as it is; `FingerInv` that a press is waited out once it was read as an event.

*Audio.* Whoever is behind the owner check has the mutex; the owner is nobody or the mutex's
holder; the flags are down where the holder has not yet or no longer set them.

*Panel.* `LedInv` speaks of the flags a task has read while it holds the mutex. For the
button, the age of a press, the ticks since the finger moved and those Main still sleeps are
tied together at each place: a debounce that began on a bounce ends when the bouncing is over
(`DebounceOK`), a press that is measured was down for as long (`HoldingOK`), one that was
answered is waited out (`AnsweredOK`), one that was not will be in time (`UnansweredOK`).

*Receiver.* A packet in hand, the queue and the silence share one budget of ticks
(`BusyMeansRecent`, `DroppingIsRecent`): a stream that is being dropped, and is silent for the
pause, cannot still be dropped at its end.

*Radio link.* The sender's invariant orders all packets made, transmitted and waiting
(`Numbered`, `EndIsLast`, `InOrder`) and says, while no callback is late, whose semaphore is
given (`OneAtATime`). That a transmission is reported once at most, however late its callback, is
an invariant of its own (`ReportsCounted`): the status send_packet finds was stored since it cleared
it, so that a success is one nothing was reported for. The receiver's carries that order on through air, queue and task to what was
heard (`ArrivalOrder`); a refused stream's START is past (`RefusedIsPast`), and the expected
number is the one after what was heard last, or there was another packet since (`ExpectsNext`):
the argument does not depend on where the number wraps.

*Card transfers.* `WriteOK` says of each block of the running call whether it is on the card
or waits there to be programmed, `CardOK` that an earlier call's blocks are not mixed with
these; `ReadOK` and `EraseOK` say the same of reads and of the group to erase. Addresses need
`XferAssumption`: for a byte-addressed card all of it is within the 32 bits. `IoPlaceOK`: after the
whole words of a CMD53 the rest is smaller than a word; the register of the next byte follows
from the number of bytes moved.

*The CIS.* A CIS is a chain of tuples, each with the length of the way to the next, up to the code
0xff; where it ends is a recursive function of the bytes. `CisIInv` relates the chunks read so far to
the whole. While a call reads (`CisBetween`), the chain of every CIS that goes on from what was read
(`Continues`) ends where the chain from the cursor ends: the walks over the chunks have missed nothing.
When it has returned (`CisAtEnd`), size and buffer are those of the end found in one piece. Two things had to be proved
that a library would give to a prover that can instantiate operators: that a recursive function given by
jumps to later places exists (`JumpsEnd`), and induction downwards over numbers (`DownInduction`), taken
from the least element of a set (`WFMin` of `WellFoundedInduction`, whose relation is a set and no operator).
With them `WalkIsChain` says that the walk of the code and the chain of the card's tuples agree, and
`ChunkInChain` that a walk which stops at the end of a chunk goes on in the next.

*That things end.* Each of these theorems names a number, its bound, and the steps that lower it.
`ToRest` counts the record task's statements up to `record_finish` once a stop was requested (at most 7):
the request stands until then because only a new start clears the flag, and a start finds the recorder busy.
`ToIdle` counts `app_main`'s places on the way to STATE_IDLE, with the chunks of a playback and the waits of
a stop, whose timeouts make them finite. `ToSilence` counts, for the receive task, five steps for each packet
still queued and then the rest of the 250 ms. `CallLeft` and `IoLeft` count the commands of a card call;
what may repeat is named: asking a busy card again (until the deadline of 5 s), the card's own
programming, and a CIS read without a limit, which goes on until the card ends it (`HasLimit`). `StepsLeft`
counts the steps of `sdmmc_card_init`, the loop of ACMD41 and CMD1 twice at most.

*Card initialisation.* `Progress` lists, for the steps in their order, what card and host know
of state, width, edges, speed and capacity; a run that has failed need keep the clock rule
only: the clock is kept on by the tries of ACMD41, and afterwards by a host that refused to turn
it back (`ClockOffOK`). `TuningFindsAPoint` rests on `LargestOf`, `SmallestOf` and `RunIs`, which say what the search for
the longest run returns.

What the proofs changed in the modules. `ButtonAssumption` has `DebounceTicks > 1`: with a debounce
of one tick a press of two ticks can end unanswered, as TLC then confirmed; the code's 40 ms are 4 ticks. `SdIoAssumption` has `a < RegMod`: a single byte at the address just past the last
register would have wrapped, and the sizes listed need not contain 1. `InitAssumption` says that a host's
frequency is within high speed or one of the UHS-I rates; `RxAssumption` that there are streams and numbers; `LinkAssumption` that the queue has a place.
`PanelAssumption` was weakened from two LED tasks to any set with these two. In `SdIo` the walk over the
CIS and the end of its chain have become functions of the offset, `Walks` and `ChainEnds`, on all numbers:
a proof can name them and cite their equation. The types of the transfers are in `IoInv`, those of the CIS in
`CisReadWhole`.

Model-checked only:

- liveness (`StopReachesRest`, `AppSettles`, `SpeakerComesBack`, `CallsReturn`, `InitAnswers`): that
  steps are left to take, fewer each time, is proved (`StopsGetOn`, `SettlingGetsOn`, `SilenceGetsOn`,
  `CallsGetOn`, `InitialisationEnds`); that a step is enabled and that fairness takes it is TLC's, since
  ENABLED and WF are out of the prover's reach;
- that the three violations are reachable: a proof would be a trace, and TLC prints it.

## 5. Not modelled

`display.c` (log output) and `keypad.c` (no caller); the driver of the on-chip regulator in
`sd_pwr_ctrl` (another chip, no caller; that setting a voltage may fail is in `SdCardInit`);
`sdmmc_io_print_cis_info` and `sdmmc_card_print_info` (formatting); the fields of CID, SSR and
EXT_CSD that nothing reads; the arithmetic of the erase timeouts, which ends in a number for the
host driver; the check of a frame in `network_audio_recv_cb`, which touches no state before it drops
the frame; sample arithmetic, message wording, memory exhaustion at start-up, after which the board
restarts. Headers and configuration are constants of the modules.

A power cut is no step of a module. The initial states of `Storage` have every file a cut leaves
(`LeftOnCard`), and `HeaderNeverOverstates` says of every state, so of the one where power goes, that
such a file is left; a cut between two sector writes of FatFs would need the model of section 6.

Time is abstract outside `Button` and `EspNowRxTimed`: a timeout may pass whenever its wait
is not over, which covers every timing.

## 6. Plan

The order was the recorder first (its interleavings are what the firmware lives on), then
the application on top of it, the audio devices below both, the radio halves and
their composition, the panel, then the card; and the proofs in the same order, of which none that
section 4 does not leave to TLC is missing. What a next step would add is a model: `SdTransfer` below
`Storage`, the file operations as sector calls with a power cut between them, and the proof that
a header written so is still one that `HeaderNeverOverstates` allows.
