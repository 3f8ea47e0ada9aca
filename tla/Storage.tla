------------------------------- MODULE Storage -------------------------------
(***************************************************************************)
(* The microSD recorder of components/storage/storage.c.                   *)
(*                                                                         *)
(* One client task, Main, calls storage_record_start, _next, _stop and     *)
(* storage_play_recording in any order; every start creates a FreeRTOS     *)
(* task (an element of Workers) that runs storage_record_task.  The two    *)
(* share the s_record_* variables under s_record_mutex and wake each other *)
(* with task notifications.                                                *)
(*                                                                         *)
(* Every critical section of s_record_mutex is short and never blocks, so  *)
(* it is one action; whatever lies between two sections, the handing over  *)
(* of a notification included, is an action of its own.  A wait with a     *)
(* timeout may time out whenever no notification is pending: an SD card    *)
(* that stalls for the length of the timeout makes that moment real.       *)
(* Not modelled because nothing reads them: s_recording, s_record_task     *)
(* and the sample statistics.                                              *)
(***************************************************************************)
EXTENDS Integers, FiniteSets

CONSTANTS Workers,      \* instances of storage_record_task that can coexist
          Main,         \* the task that runs app_main and calls storage_*
          NoTask,       \* nobody holds the device
          MaxFiles,     \* mount_config.max_files
          Capacity,     \* chunks that fit on the card
          MountRetries  \* STORAGE_SD_MOUNT_RETRIES

ASSUME StorageAssumption ==
    /\ Main \notin Workers
    /\ NoTask \notin Workers
    /\ Main # NoTask
    /\ MaxFiles \in Nat \ {0}
    /\ Capacity \in Nat
    /\ MountRetries \in Nat \ {0}

VARIABLES
    s_record_state, s_record_task_result, s_recorded_bytes,
    s_record_stop_requested, s_record_start_cancel_requested,
    s_record_start_waiter, s_record_stop_waiter,  \* TRUE: Main is registered
    notified,   \* a task notification of Main is pending
    s_mounted,
    attempt,    \* mount attempts that have failed; 0 outside the loop
    file,       \* /sdcard/record.wav
    openFiles,  \* entries in use of the FAT layer's table of open files
    mic,        \* the task that holds s_mic_mutex
    spk,        \* who holds s_speaker_mutex
    mpc,        \* where Main is
    ret,        \* what Main's last storage_* call returned
    left,       \* bytes_remaining of a playback; 0 outside its loop
    wpc, werr, wbytes, wgive  \* per record task: place, err, recorded_bytes,
                              \* the waiters it has taken and not yet woken

flags   == <<s_record_stop_requested, s_record_start_cancel_requested>>
waiters == <<s_record_start_waiter, s_record_stop_waiter>>
result  == <<s_record_task_result, s_recorded_bytes>>
shared  == <<s_record_state, result, flags, waiters>>
disk    == <<s_mounted, attempt, file, openFiles>>
sound   == <<mic, spk>>
main    == <<mpc, ret, left>>
worker  == <<wpc, werr, wbytes, wgive>>
vars    == <<shared, notified, disk, sound, main, worker>>

NoHeader  == -1  \* record.wav does not begin with the header of make_wav_header
Absent    == -2  \* there is no record.wav
EmptyFile == [hdr |-> NoHeader, data |-> 0]
NoFile    == [hdr |-> Absent, data |-> 0]
Files     == [hdr : Absent..Capacity, data : 0..Capacity]

Errors  == {"FAIL", "INVALID_STATE", "NO_MEM", "TIMEOUT", "INVALID_RESPONSE"}
Results == {"OK"} \cup Errors
States  == {"IDLE", "STARTING", "ACTIVE", "STOPPING", "FAILED"}

\* Places of storage_record_task: before the first line, ..., and after
\* record_finish has left the mutex ("give": waiters still to be woken).
BodyPcs   == {"open", "header", "mic_start", "check", "cancel", "abort",
              "activate", "notify_active", "loop", "chunk", "mic_stop",
              "rewrite", "close", "finish"}
WorkerPcs == {"none", "give"} \cup BodyPcs
FilePcs   == BodyPcs \ {"open", "finish"}
MicPcs    == {"check", "cancel", "activate", "notify_active", "loop", "chunk",
              "mic_stop"}

PlayPcs == {"play_open", "play_header", "play_speaker", "play_loop",
            "play_stop", "play_close"}
MainPcs == {"boot", "idle", "live", "start_enter", "start_create",
            "start_nomem", "start_wait", "start_timeout", "start_result",
            "stop_enter", "stop_wait", "stop_timeout", "stop_result"}
           \cup PlayPcs

\* Mutant: a recorder that is being stopped is taken for one at rest.
record_is_active_NoStopping == s_record_state \in {"STARTING", "ACTIVE"}

record_is_active == s_record_state \in {"STARTING", "ACTIVE", "STOPPING"}
record_stop_requested ==
    s_record_stop_requested \/ s_record_start_cancel_requested

Body(w)     == wpc[w] \in BodyPcs  \* w runs and has not yet finished
HasFile(w)  == wpc[w] \in FilePcs
SomeBody    == \E w \in Workers : Body(w)
MainHasFile == mpc \in PlayPcs \ {"play_open"}
Holders ==  \* handles of record.wav that somebody still has
    Cardinality({w \in Workers : HasFile(w)}) + (IF MainHasFile THEN 1 ELSE 0)

-----------------------------------------------------------------------------
(* Boot: storage_init. *)

\* The card holds what an earlier run left there.  FatFs writes the size of a
\* file into its directory entry only when the file is closed, so a recording that
\* was open when the power was cut is found empty; one that was closed has a
\* header that may understate its samples.
LeftOnCard ==
    {NoFile, EmptyFile}
    \cup {f \in [hdr : 0..Capacity, data : 0..Capacity] : f.hdr <= f.data}

Init ==
    /\ s_record_state = "IDLE"
    /\ s_record_task_result = "OK"
    /\ s_recorded_bytes = 0
    /\ s_record_stop_requested = FALSE
    /\ s_record_start_cancel_requested = FALSE
    /\ s_record_start_waiter = FALSE
    /\ s_record_stop_waiter = FALSE
    /\ notified = FALSE
    /\ s_mounted = FALSE
    /\ attempt = 0
    /\ openFiles = 0
    /\ mic = NoTask
    /\ spk = "free"
    /\ mpc = "boot"
    /\ ret = "OK"
    /\ left = 0
    /\ wpc = [w \in Workers |-> "none"]
    /\ werr = [w \in Workers |-> "OK"]
    /\ wbytes = [w \in Workers |-> 0]
    /\ wgive = [w \in Workers |-> {}]
    /\ file \in LeftOnCard

BusFailed ==  \* spi_bus_initialize fails: the card is never tried
    /\ mpc = "boot" /\ attempt = 0
    /\ mpc' = "idle" /\ ret' = "FAIL"
    /\ UNCHANGED <<shared, notified, disk, sound, left, worker>>

MountSucceeds ==
    /\ mpc = "boot" /\ attempt < MountRetries
    /\ s_mounted' = TRUE /\ attempt' = 0
    /\ mpc' = "idle" /\ ret' = "OK"
    /\ UNCHANGED <<shared, notified, file, openFiles, sound, left, worker>>

MountFails ==
    /\ mpc = "boot" /\ attempt < MountRetries
    /\ IF attempt + 1 = MountRetries
       THEN attempt' = 0 /\ mpc' = "idle" /\ ret' = "FAIL"
       ELSE attempt' = attempt + 1 /\ UNCHANGED <<mpc, ret>>
    /\ UNCHANGED <<shared, notified, s_mounted, file, openFiles, sound, left,
                   worker>>

Return(r) == mpc' = "idle" /\ ret' = r

-----------------------------------------------------------------------------
(* storage_record_start *)

StartClear ==  \* drop a notification left over from an earlier call
    /\ mpc = "idle"
    /\ IF s_mounted THEN mpc' = "start_enter" /\ notified' = FALSE
                         /\ UNCHANGED ret
                    ELSE Return("INVALID_STATE") /\ UNCHANGED notified
    /\ UNCHANGED <<shared, disk, sound, left, worker>>

StartRefused ==
    /\ mpc = "start_enter" /\ record_is_active
    /\ Return("INVALID_STATE")
    /\ UNCHANGED <<shared, notified, disk, sound, left, worker>>

StartEnter ==
    /\ mpc = "start_enter" /\ ~record_is_active
    /\ s_record_task_result' = "OK"
    /\ s_recorded_bytes' = 0
    /\ s_record_stop_requested' = FALSE
    /\ s_record_start_cancel_requested' = FALSE
    /\ s_record_state' = "STARTING"
    /\ s_record_start_waiter' = TRUE
    /\ mpc' = "start_create"
    /\ UNCHANGED <<s_record_stop_waiter, notified, disk, sound, ret, left,
                   worker>>

CreateTask(w) ==
    /\ mpc = "start_create" /\ wpc[w] = "none"
    /\ wpc' = [wpc EXCEPT ![w] = "open"]
    /\ mpc' = "start_wait"
    /\ UNCHANGED <<shared, notified, disk, sound, ret, left, werr, wbytes,
                   wgive>>

CreateFails ==  \* no heap for the task's stack
    /\ mpc = "start_create"
    /\ mpc' = "start_nomem"
    /\ UNCHANGED <<shared, notified, disk, sound, ret, left, worker>>

StartNoMem ==
    /\ mpc = "start_nomem"
    /\ s_record_start_waiter' = FALSE
    /\ s_record_task_result' = "NO_MEM"
    /\ s_record_state' = "FAILED"
    /\ Return("NO_MEM")
    /\ UNCHANGED <<s_recorded_bytes, flags, s_record_stop_waiter, notified,
                   disk, sound, left, worker>>

StartWoken ==
    /\ mpc = "start_wait" /\ notified
    /\ notified' = FALSE
    /\ mpc' = "start_result"
    /\ UNCHANGED <<shared, disk, sound, ret, left, worker>>

StartTimesOut ==
    /\ mpc = "start_wait" /\ ~notified
    /\ mpc' = "start_timeout"
    /\ UNCHANGED <<shared, notified, disk, sound, ret, left, worker>>

\* Mutant: the timeout leaves s_record_state alone.
StartCancel_KeepsState ==
    /\ mpc = "start_timeout"
    /\ s_record_start_waiter' = FALSE
    /\ s_record_start_cancel_requested' = TRUE
    /\ s_record_stop_requested' = TRUE
    /\ Return("TIMEOUT")
    /\ UNCHANGED <<s_record_state, result, s_record_stop_waiter, notified, disk,
                   sound, left, worker>>

StartCancel ==
    /\ mpc = "start_timeout"
    /\ s_record_start_waiter' = FALSE
    /\ s_record_start_cancel_requested' = TRUE
    /\ s_record_stop_requested' = TRUE
    /\ s_record_state' = "STOPPING"
    /\ Return("TIMEOUT")
    /\ UNCHANGED <<result, s_record_stop_waiter, notified, disk, sound, left,
                   worker>>

StartResult ==
    /\ mpc = "start_result"
    /\ s_record_state' = IF s_record_task_result = "OK" THEN s_record_state
                                                        ELSE "FAILED"
    /\ Return(s_record_task_result)
    /\ UNCHANGED <<result, flags, waiters, notified, disk, sound, left, worker>>

-----------------------------------------------------------------------------
(* storage_record_next and storage_record_stop *)

RecordNext ==
    /\ mpc = "idle"
    /\ \/ Return(s_record_task_result)
       \/ /\ s_record_task_result = "OK" /\ record_is_active
          /\ Return("TIMEOUT")  \* no progress for 3 s
    /\ UNCHANGED <<shared, notified, disk, sound, left, worker>>

StopClear ==
    /\ mpc = "idle"
    /\ notified' = FALSE
    /\ mpc' = "stop_enter"
    /\ UNCHANGED <<shared, disk, sound, ret, left, worker>>

StopInactive ==
    /\ mpc = "stop_enter" /\ ~record_is_active
    /\ Return("OK")
    /\ UNCHANGED <<shared, notified, disk, sound, left, worker>>

StopEnter ==
    /\ mpc = "stop_enter" /\ record_is_active
    /\ s_record_state' = "STOPPING"
    /\ s_record_stop_waiter' = TRUE
    /\ s_record_stop_requested' = TRUE
    /\ mpc' = "stop_wait"
    /\ UNCHANGED <<result, s_record_start_cancel_requested,
                   s_record_start_waiter, notified, disk, sound, ret, left,
                   worker>>

StopWoken ==
    /\ mpc = "stop_wait" /\ notified
    /\ notified' = FALSE
    /\ mpc' = "stop_result"
    /\ UNCHANGED <<shared, disk, sound, ret, left, worker>>

StopTimesOut ==
    /\ mpc = "stop_wait" /\ ~notified
    /\ mpc' = "stop_timeout"
    /\ UNCHANGED <<shared, notified, disk, sound, ret, left, worker>>

\* Mutant: a stop that timed out declares the recorder failed.
StopGiveUp_Fails ==
    /\ mpc = "stop_timeout"
    /\ s_record_stop_waiter' = FALSE
    /\ s_record_state' = "FAILED"
    /\ Return("TIMEOUT")
    /\ UNCHANGED <<result, flags, s_record_start_waiter, notified, disk, sound,
                   left, worker>>

StopGiveUp ==
    /\ mpc = "stop_timeout"
    /\ s_record_stop_waiter' = FALSE
    /\ Return("TIMEOUT")
    /\ UNCHANGED <<s_record_state, result, flags, s_record_start_waiter,
                   notified, disk, sound, left, worker>>

StopResult ==
    /\ mpc = "stop_result"
    /\ Return(s_record_task_result)
    /\ UNCHANGED <<shared, notified, disk, sound, left, worker>>

-----------------------------------------------------------------------------
(* storage_play_recording *)

PlayCall ==
    /\ mpc = "idle"
    /\ IF s_mounted /\ ~record_is_active THEN mpc' = "play_open" /\ UNCHANGED ret
                                         ELSE Return("INVALID_STATE")
    /\ UNCHANGED <<shared, notified, disk, sound, left, worker>>

PlayOpen ==
    /\ mpc = "play_open"
    /\ file.hdr # Absent /\ openFiles < MaxFiles
    /\ openFiles' = openFiles + 1
    /\ mpc' = "play_header"
    /\ UNCHANGED <<shared, notified, s_mounted, attempt, file, sound, ret, left,
                   worker>>

PlayOpenFails ==  \* no such file, no free entry, or a card error
    /\ mpc = "play_open"
    /\ Return("FAIL")
    /\ UNCHANGED <<shared, notified, disk, sound, left, worker>>

PlayHeader ==
    /\ mpc = "play_header" /\ file.hdr >= 0
    /\ left' = file.hdr
    /\ mpc' = "play_speaker"
    /\ UNCHANGED <<shared, notified, disk, sound, ret, worker>>

PlayRejects ==  \* not a header of ours, or it cannot be read
    /\ mpc = "play_header"
    /\ openFiles' = openFiles - 1
    /\ Return("INVALID_RESPONSE")
    /\ UNCHANGED <<shared, notified, s_mounted, attempt, file, sound, left,
                   worker>>

PlaySpeaker ==
    /\ mpc = "play_speaker" /\ spk = "free"
    /\ spk' = "main"
    /\ mpc' = "play_loop"
    /\ UNCHANGED <<shared, notified, disk, mic, ret, left, worker>>

\* audio_speaker_start fails: the call returns and the file stays open.
PlaySpeakerFails ==
    /\ mpc = "play_speaker"
    /\ \E e \in {"INVALID_STATE", "FAIL"} : Return(e)
    /\ left' = 0
    /\ UNCHANGED <<shared, notified, disk, sound, worker>>

PlayChunk ==
    /\ mpc = "play_loop" /\ left > 0
    /\ left' = left - 1
    /\ UNCHANGED <<shared, notified, disk, sound, mpc, ret, worker>>

PlayEnds ==  \* all played, the file is shorter than its header says, or an error
    /\ mpc = "play_loop"
    /\ mpc' = "play_stop"
    /\ ret' \in IF left = 0 THEN {"OK"} ELSE {"OK", "FAIL"}
    /\ left' = 0
    /\ UNCHANGED <<shared, notified, disk, sound, worker>>

PlayStop ==  \* audio_speaker_stop gives the mutex back even when it fails
    /\ mpc = "play_stop"
    /\ spk' = "free"
    /\ mpc' = "play_close"
    /\ ret' \in IF ret = "OK" THEN {"OK", "FAIL"} ELSE {ret}
    /\ UNCHANGED <<shared, notified, disk, mic, left, worker>>

PlayClose ==
    /\ mpc = "play_close"
    /\ openFiles' = openFiles - 1
    /\ Return(ret)
    /\ UNCHANGED <<shared, notified, s_mounted, attempt, file, sound, left,
                   worker>>

-----------------------------------------------------------------------------
(* storage_record_task, run by w *)

Goto(w, pc) == wpc' = [wpc EXCEPT ![w] = pc]
Fail(w)     == werr' = [werr EXCEPT ![w] = "FAIL"]

\* Mutant: the last result wins.
KeepLastError(w, e) == werr' = [werr EXCEPT ![w] = e]

\* if (err == ESP_OK) err = <the next call's result>
KeepFirstError(w, e) ==
    werr' = [werr EXCEPT ![w] = IF werr[w] = "OK" THEN e ELSE werr[w]]

OpenFile(w) ==  \* "wb+": an existing recording is truncated here
    /\ wpc[w] = "open" /\ openFiles < MaxFiles
    /\ openFiles' = openFiles + 1
    /\ file' = EmptyFile
    /\ Goto(w, "header")
    /\ UNCHANGED <<shared, notified, s_mounted, attempt, sound, main, werr,
                   wbytes, wgive>>

OpenFails(w) ==
    /\ wpc[w] = "open"
    /\ Goto(w, "finish") /\ Fail(w)
    /\ UNCHANGED <<shared, notified, disk, sound, main, wbytes, wgive>>

WriteHeader(w) ==
    /\ wpc[w] = "header"
    /\ \/ /\ file' = [file EXCEPT !.hdr = 0]
          /\ Goto(w, "mic_start") /\ UNCHANGED werr
       \/ Goto(w, "abort") /\ Fail(w) /\ UNCHANGED file
    /\ UNCHANGED <<shared, notified, s_mounted, attempt, openFiles, sound, main,
                   wbytes, wgive>>

MicStart(w) ==
    /\ wpc[w] = "mic_start"
    /\ \/ /\ mic = NoTask /\ mic' = w
          /\ Goto(w, "check") /\ UNCHANGED werr
       \/ Goto(w, "abort") /\ Fail(w) /\ UNCHANGED mic
    /\ UNCHANGED <<shared, notified, disk, spk, main, wbytes, wgive>>

CheckStop(w) ==
    /\ wpc[w] = "check"
    /\ Goto(w, IF record_stop_requested THEN "cancel" ELSE "activate")
    /\ UNCHANGED <<shared, notified, disk, sound, main, werr, wbytes, wgive>>

\* Mutant: the mutex is kept when i2s_channel_disable fails.
MicRelease_OnlyIfDisabled(w) == mic' \in {mic, NoTask}

\* audio_mic_stop: only the owner may, and it gives the mutex back whatever
\* the I2S driver answers.
MicRelease(w) == mic' = IF mic = w THEN NoTask ELSE mic

Cancel(w) ==
    /\ wpc[w] = "cancel"
    /\ MicRelease(w)
    /\ werr' = [werr EXCEPT ![w] = "INVALID_STATE"]
    /\ Goto(w, "abort")
    /\ UNCHANGED <<shared, notified, disk, spk, main, wbytes, wgive>>

\* Mutant: the error path forgets fclose.
Abort_LeavesOpen(w) ==
    /\ wpc[w] = "abort"
    /\ Goto(w, "finish")
    /\ UNCHANGED <<shared, notified, disk, sound, main, werr, wbytes, wgive>>

Abort(w) ==  \* fclose before any sample was written
    /\ wpc[w] = "abort"
    /\ openFiles' = openFiles - 1
    /\ Goto(w, "finish")
    /\ UNCHANGED <<shared, notified, s_mounted, attempt, file, sound, main,
                   werr, wbytes, wgive>>

Activate(w) ==
    /\ wpc[w] = "activate"
    /\ IF s_record_start_cancel_requested
       THEN /\ s_record_stop_requested' = TRUE
            /\ Goto(w, "loop")
            /\ UNCHANGED <<s_record_state, s_recorded_bytes,
                           s_record_start_waiter, wgive>>
       ELSE /\ s_record_state' = "ACTIVE"
            /\ s_recorded_bytes' = 0
            /\ s_record_start_waiter' = FALSE
            /\ wgive' = [wgive EXCEPT ![w] =
                             IF s_record_start_waiter THEN {"start"} ELSE {}]
            /\ Goto(w, "notify_active")
            /\ UNCHANGED s_record_stop_requested
    /\ UNCHANGED <<s_record_task_result, s_record_start_cancel_requested,
                   s_record_stop_waiter, notified, disk, sound, main, werr,
                   wbytes>>

\* Mutant: the waiter is taken and never woken.
NotifyActive_Forgets(w) ==
    /\ wpc[w] = "notify_active"
    /\ wgive' = [wgive EXCEPT ![w] = {}]
    /\ Goto(w, "loop")
    /\ UNCHANGED <<shared, notified, disk, sound, main, werr, wbytes>>

NotifyActive(w) ==
    /\ wpc[w] = "notify_active"
    /\ notified' = (notified \/ "start" \in wgive[w])
    /\ wgive' = [wgive EXCEPT ![w] = {}]
    /\ Goto(w, "loop")
    /\ UNCHANGED <<shared, disk, sound, main, werr, wbytes>>

Loop(w) ==
    /\ wpc[w] = "loop"
    /\ Goto(w, IF record_stop_requested THEN "mic_stop" ELSE "chunk")
    /\ UNCHANGED <<shared, notified, disk, sound, main, werr, wbytes, wgive>>

ChunkSaved(w) ==
    /\ wpc[w] = "chunk" /\ file.data < Capacity
    /\ file' = [file EXCEPT !.data = @ + 1]
    /\ wbytes' = [wbytes EXCEPT ![w] = @ + 1]
    /\ s_recorded_bytes' = wbytes[w] + 1
    /\ Goto(w, "loop")
    /\ UNCHANGED <<s_record_state, s_record_task_result, flags, waiters,
                   notified, s_mounted, attempt, openFiles, sound, main, werr,
                   wgive>>

\* Mutant: recorded_bytes grows before fwrite's result is looked at.
ChunkFails_Counted(w) ==
    /\ wpc[w] = "chunk" /\ wbytes[w] < Capacity
    /\ wbytes' = [wbytes EXCEPT ![w] = @ + 1]
    /\ Goto(w, "mic_stop") /\ Fail(w)
    /\ UNCHANGED <<shared, notified, disk, sound, main, wgive>>

ChunkFails(w) ==  \* the microphone, a card error, or the card is full
    /\ wpc[w] = "chunk"
    /\ Goto(w, "mic_stop") /\ Fail(w)
    /\ UNCHANGED <<shared, notified, disk, sound, main, wbytes, wgive>>

MicStop(w) ==
    /\ wpc[w] = "mic_stop"
    /\ MicRelease(w)
    /\ \E e \in {"OK", "FAIL"} : KeepFirstError(w, e)
    /\ Goto(w, "rewrite")
    /\ UNCHANGED <<shared, notified, disk, spk, main, wbytes, wgive>>

\* rewrite_wav_header.  Its fseek flushes the samples that stdio still buffers:
\* when the card refuses them the header stays as it was.
RewriteHeader(w) ==
    /\ wpc[w] = "rewrite"
    /\ \/ /\ file' = [file EXCEPT !.hdr = wbytes[w]]
          /\ KeepFirstError(w, "OK")
       \/ /\ \E d \in 0..file.data : file' = [file EXCEPT !.data = d]
          /\ KeepFirstError(w, "FAIL")
    /\ Goto(w, "close")
    /\ UNCHANGED <<shared, notified, s_mounted, attempt, openFiles, sound, main,
                   wbytes, wgive>>

\* Mutant: after a failed fclose the task ends without record_finish.
CloseFile_Ends(w) ==
    /\ wpc[w] = "close"
    /\ openFiles' = openFiles - 1
    /\ \/ KeepFirstError(w, "OK") /\ UNCHANGED file /\ Goto(w, "finish")
       \/ /\ KeepFirstError(w, "FAIL") /\ file' \in {file, EmptyFile}
          /\ Goto(w, "none")
    /\ UNCHANGED <<shared, notified, s_mounted, attempt, sound, main, wbytes,
                   wgive>>

CloseFile(w) ==
    /\ wpc[w] = "close"
    /\ openFiles' = openFiles - 1
    /\ \/ KeepFirstError(w, "OK") /\ UNCHANGED file
       \/ KeepFirstError(w, "FAIL") /\ file' \in {file, EmptyFile}
    /\ Goto(w, "finish")
    /\ UNCHANGED <<shared, notified, s_mounted, attempt, sound, main, wbytes,
                   wgive>>

Finish(w) ==  \* the critical section of record_finish
    /\ wpc[w] = "finish"
    /\ s_record_task_result' = werr[w]
    /\ s_recorded_bytes' = wbytes[w]
    /\ s_record_state' = IF werr[w] = "OK" THEN "IDLE" ELSE "FAILED"
    /\ s_record_stop_requested' = FALSE
    /\ s_record_start_cancel_requested' = FALSE
    /\ s_record_start_waiter' = FALSE
    /\ s_record_stop_waiter' = FALSE
    /\ wgive' = [wgive EXCEPT ![w] =
                     (IF s_record_start_waiter THEN {"start"} ELSE {})
                     \cup (IF s_record_stop_waiter THEN {"stop"} ELSE {})]
    /\ werr' = [werr EXCEPT ![w] = "OK"]  \* the locals go out of scope
    /\ wbytes' = [wbytes EXCEPT ![w] = 0]
    /\ Goto(w, "give")
    /\ UNCHANGED <<notified, disk, sound, main>>

GiveStart(w) ==
    /\ wpc[w] = "give" /\ "start" \in wgive[w]
    /\ notified' = TRUE
    /\ wgive' = [wgive EXCEPT ![w] = @ \ {"start"}]
    /\ UNCHANGED <<shared, disk, sound, main, wpc, werr, wbytes>>

GiveStop(w) ==
    /\ wpc[w] = "give" /\ wgive[w] = {"stop"}
    /\ notified' = TRUE
    /\ wgive' = [wgive EXCEPT ![w] = {}]
    /\ UNCHANGED <<shared, disk, sound, main, wpc, werr, wbytes>>

DeleteSelf(w) ==
    /\ wpc[w] = "give" /\ wgive[w] = {}
    /\ Goto(w, "none")
    /\ UNCHANGED <<shared, notified, disk, sound, main, werr, wbytes, wgive>>

-----------------------------------------------------------------------------
(* The users of the two audio devices outside storage.c: a live call of Main *)
(* holds the microphone, the ESP-NOW receive task the speaker.               *)

LiveStart ==
    /\ mpc = "idle" /\ mic = NoTask
    /\ mic' = Main /\ mpc' = "live"
    /\ UNCHANGED <<shared, notified, disk, spk, ret, left, worker>>

LiveStop ==
    /\ mpc = "live"
    /\ mic' = NoTask /\ mpc' = "idle"
    /\ UNCHANGED <<shared, notified, disk, spk, ret, left, worker>>

RxTakesSpeaker ==
    /\ spk = "free" /\ spk' = "rx"
    /\ UNCHANGED <<shared, notified, disk, mic, main, worker>>

RxReleasesSpeaker ==
    /\ spk = "rx" /\ spk' = "free"
    /\ UNCHANGED <<shared, notified, disk, mic, main, worker>>

-----------------------------------------------------------------------------
Boot      == BusFailed \/ MountSucceeds \/ MountFails
StartBody == \/ StartRefused \/ StartEnter
             \/ (\E w \in Workers : CreateTask(w)) \/ CreateFails \/ StartNoMem
             \/ StartWoken \/ StartTimesOut \/ StartCancel \/ StartResult
StopBody  == \/ StopInactive \/ StopEnter \/ StopWoken \/ StopTimesOut
             \/ StopGiveUp \/ StopResult
PlayBody  == \/ PlayOpen \/ PlayOpenFails \/ PlayHeader \/ PlayRejects
             \/ PlaySpeaker \/ PlaySpeakerFails \/ PlayChunk \/ PlayEnds
             \/ PlayStop \/ PlayClose
InCall    == StartBody \/ StopBody \/ PlayBody  \* Main inside a storage_* call

RecordTask(w) ==
    \/ OpenFile(w) \/ OpenFails(w) \/ WriteHeader(w) \/ MicStart(w)
    \/ CheckStop(w) \/ Cancel(w) \/ Abort(w) \/ Activate(w) \/ NotifyActive(w)
    \/ Loop(w) \/ ChunkSaved(w) \/ ChunkFails(w) \/ MicStop(w)
    \/ RewriteHeader(w) \/ CloseFile(w) \/ Finish(w)
    \/ GiveStart(w) \/ GiveStop(w) \/ DeleteSelf(w)

Rx == RxTakesSpeaker \/ RxReleasesSpeaker

Next ==
    \/ Boot \/ InCall
    \/ StartClear \/ RecordNext \/ StopClear \/ PlayCall  \* Main makes a call
    \/ LiveStart \/ LiveStop \/ Rx
    \/ \E w \in Workers : RecordTask(w)

Spec == Init /\ [][Next]_vars

\* Both tasks are runnable threads of a preemptive scheduler: each keeps taking
\* steps inside storage.c.  Nothing makes Main call again.
Fairness == WF_vars(InCall) /\ \A w \in Workers : WF_vars(RecordTask(w))

FairSpec == Spec /\ Fairness

-----------------------------------------------------------------------------
(* Properties *)

FlagsOK ==
    /\ s_record_stop_requested \in BOOLEAN
    /\ s_record_start_cancel_requested \in BOOLEAN
    /\ s_record_start_waiter \in BOOLEAN
    /\ s_record_stop_waiter \in BOOLEAN
    /\ notified \in BOOLEAN
    /\ s_mounted \in BOOLEAN

\* Every variable has a value the C types and the FAT layer allow; the table of
\* open files neither overflows nor underflows.
TypeOK ==
    /\ FlagsOK
    /\ s_record_state \in States
    /\ s_record_task_result \in Results
    /\ s_recorded_bytes \in 0..Capacity
    /\ attempt \in 0..MountRetries
    /\ file \in Files
    /\ openFiles \in 0..MaxFiles
    /\ mic \in Workers \cup {Main, NoTask}
    /\ spk \in {"free", "main", "rx"}
    /\ mpc \in MainPcs
    /\ ret \in Results
    /\ left \in 0..Capacity
    /\ wpc \in [Workers -> WorkerPcs]
    /\ werr \in [Workers -> Results]
    /\ wbytes \in [Workers -> 0..Capacity]
    /\ wgive \in [Workers -> SUBSET {"start", "stop"}]

\* At most one record task works on record.wav and the microphone, although a
\* start that timed out, a stop that timed out and a late wake-up all return to
\* the client while a task may still be running.
OneRecorder ==
    \A v, w \in Workers : Body(v) /\ Body(w) => v = w

\* storage_play_recording never reads record.wav while a record task has it open
\* for writing, although it looks at the recorder's state only once, before fopen.
PlaybackSeesClosedFile ==
    MainHasFile => \A w \in Workers : ~HasFile(w)

\* Once a start has been cancelled by its timeout the recorder is never shown as
\* ACTIVE again on its behalf: Activate must look at the cancel flag under the
\* mutex, the check before it is not enough.
CancelledStartNeverActive ==
    s_record_start_cancel_requested => s_record_state # "ACTIVE"

\* The length in the header of record.wav never exceeds the samples on the card,
\* whatever fails, in every state and so in the one where power is lost.
HeaderNeverOverstates ==
    file.hdr <= file.data

\* The microphone is in a record task's hands exactly while the task is between
\* its audio_mic_start and its audio_mic_stop: no error path keeps it.
MicHeldByRecorder ==
    \A w \in Workers : mic = w <=> wpc[w] \in MicPcs

\* A start call that sleeps will be woken: its task has not yet taken the waiter,
\* or is about to give the notification, or has given it.
StartIsAnswered ==
    mpc = "start_wait" =>
        \/ notified
        \/ \E w \in Workers : "start" \in wgive[w]
        \/ s_record_start_waiter /\ SomeBody

\* The recorder becomes IDLE only with the recording complete on the card: the
\* header gives the length the task counted, all of it is there, and no record
\* task holds the file or the microphone.
SavedWhenIdle ==
    [][s_record_state # "IDLE" /\ s_record_state' = "IDLE" =>
          /\ file'.hdr = s_recorded_bytes' /\ s_recorded_bytes' <= file'.data
          /\ \A w \in Workers : ~HasFile(w)' /\ mic' # w]_vars

\* An entry of the FAT layer's table of open files is lost only where playback finds
\* the speaker busy and returns without closing record.wav: every other way out of
\* a recording and of a playback closes what it has opened.
HandlesAccounted ==
    [][openFiles' - Holders' # openFiles - Holders =>
          mpc = "play_speaker" /\ mpc' = "idle"]_vars

\* When a record task is asked to stop, the recorder comes to rest, whatever
\* fails on the way: no path of the task ends without record_finish.
StopReachesRest ==
    SomeBody /\ s_record_stop_requested ~> ~record_is_active

-----------------------------------------------------------------------------
(* The inductive invariant of StorageProofs, which the run checks as a whole. *)

\* Who may be at work in which state of the recorder.
RecorderInv ==
    /\ OneRecorder
    /\ CancelledStartNeverActive
    /\ SomeBody => record_is_active /\ s_record_task_result = "OK"
    /\ mpc \in {"start_create", "start_nomem"} =>
           /\ s_record_state = "STARTING" /\ s_record_task_result = "OK"
           /\ s_record_start_waiter /\ ~SomeBody
    /\ mpc \in PlayPcs => ~record_is_active

\* The open file of a record task, or of Main, is counted.
OpenFilesInv ==
    MainHasFile \/ (\E w \in Workers : HasFile(w)) => openFiles > 0

\* What a record task knows about record.wav.
FileInv ==
    /\ HeaderNeverOverstates
    /\ \A w \in Workers :
        /\ wpc[w] \notin {"loop", "chunk", "mic_stop", "rewrite", "close",
                         "finish"} => wbytes[w] = 0
        /\ wpc[w] \in {"loop", "chunk", "mic_stop", "rewrite"} =>
               wbytes[w] <= file.data
        /\ HasFile(w) /\ wpc[w] # "close" => file.hdr <= 0
        /\ wpc[w] \in {"close", "finish"} /\ werr[w] = "OK" =>
               file.hdr = wbytes[w]
        /\ wpc[w] = "abort" => werr[w] # "OK"

MicInv ==
    MicHeldByRecorder /\ (mpc = "live" <=> mic = Main)

WakeInv ==
    /\ StartIsAnswered
    /\ \A w \in Workers :
           wpc[w] \notin {"notify_active", "give"} => wgive[w] = {}

\* Types, and with them: the table of open files neither overflows nor underflows, no
\* error path keeps the microphone, every open file is counted, every wake-up is owed.
IInv == TypeOK /\ RecorderInv /\ OpenFilesInv /\ FileInv /\ MicInv /\ WakeInv

-----------------------------------------------------------------------------
\* (Refuted) The recorder is busy only while there is a record task that will
\* end it: a start is never refused for good.
BusyHasTask ==
    record_is_active /\ mpc \notin {"start_create", "start_nomem"} => SomeBody
==============================================================================
