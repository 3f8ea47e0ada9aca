-------------------------------- MODULE Audio --------------------------------
(***************************************************************************)
(* Ownership of the microphone and the speaker in components/audio/audio.c, *)
(* statement by statement, for any set of tasks that call                   *)
(*   audio_mic_start,     audio_mic_read,      audio_mic_stop,              *)
(*   audio_speaker_start, audio_speaker_write, audio_speaker_stop           *)
(* in any order.  audio_record_samples, audio_play_samples and the tone of  *)
(* the self test are sequences of these calls.                              *)
(*                                                                         *)
(* start takes the device's mutex and leaves it taken; read, write and stop *)
(* do not look at the mutex at all but at a busy flag and an owner, read    *)
(* one after the other without a lock.  The two starts set them in a        *)
(* different order around i2s_channel_enable.  Samples are left out.        *)
(***************************************************************************)
EXTENDS FiniteSets

CONSTANTS Tasks,   \* the tasks that may call audio.c
          NoTask   \* NULL

Devices == {"mic", "speaker"}

ASSUME AudioAssumption == NoTask \notin Tasks

VARIABLES
    mutex,    \* s_mic_mutex, s_speaker_mutex: who has taken it
    busy,     \* s_audio_busy, s_speaker_busy
    owner,    \* s_mic_owner, s_speaker_owner
    enabled,  \* the I2S channel is enabled (external: the driver's state)
    pc,       \* per task: the statement it is about to execute
    dev       \* per task: the device its current call is about

audioVars == <<mutex, busy, owner, enabled, pc, dev>>

Places == {"idle", "take", "set_busy", "set_owner", "enable", "enabling",
           "io_busy", "io_owner", "io", "stop_busy", "stop_owner", "disable",
           "clear_busy", "clear_owner", "give"}

InDriver == {"enabling", "io", "disable"}  \* inside an i2s_channel_* call

AudioInit ==
    /\ mutex = [d \in Devices |-> NoTask]
    /\ busy = [d \in Devices |-> FALSE]
    /\ owner = [d \in Devices |-> NoTask]
    /\ enabled = [d \in Devices |-> FALSE]
    /\ pc = [t \in Tasks |-> "idle"]
    /\ dev \in [Tasks -> Devices]

At(t, place)  == pc[t] = place
Goto(t, place) == pc' = [pc EXCEPT ![t] = place]
IsMic(t) == dev[t] = "mic"

Call(t) ==  \* t calls start, read or write, or stop of either device
    /\ At(t, "idle")
    /\ \E d \in Devices : dev' = [dev EXCEPT ![t] = d]
    /\ \E first \in {"take", "io_busy", "stop_busy"} : Goto(t, first)
    /\ UNCHANGED <<mutex, busy, owner, enabled>>

-----------------------------------------------------------------------------
(* audio_mic_start and audio_speaker_start *)

Take(t) ==
    /\ At(t, "take") /\ mutex[dev[t]] = NoTask
    /\ mutex' = [mutex EXCEPT ![dev[t]] = t]
    /\ Goto(t, IF IsMic(t) THEN "set_busy" ELSE "enable")
    /\ UNCHANGED <<busy, owner, enabled, dev>>

TakeFails(t) ==  \* "mic is busy", "speaker is busy": the caller does not wait
    /\ At(t, "take") /\ mutex[dev[t]] # NoTask
    /\ Goto(t, "idle")
    /\ UNCHANGED <<mutex, busy, owner, enabled, dev>>

SetBusy(t) ==
    /\ At(t, "set_busy")
    /\ busy' = [busy EXCEPT ![dev[t]] = TRUE]
    /\ Goto(t, "set_owner")
    /\ UNCHANGED <<mutex, owner, enabled, dev>>

\* Mutant: the owner is compared with the wrong kind of handle.
SetOwner_Device(t) ==
    /\ At(t, "set_owner")
    /\ owner' = [owner EXCEPT ![dev[t]] = dev[t]]
    /\ Goto(t, IF IsMic(t) THEN "enable" ELSE "idle")
    /\ UNCHANGED <<mutex, busy, enabled, dev>>

SetOwner(t) ==
    /\ At(t, "set_owner")
    /\ owner' = [owner EXCEPT ![dev[t]] = t]
    /\ Goto(t, IF IsMic(t) THEN "enable" ELSE "idle")
    /\ UNCHANGED <<mutex, busy, enabled, dev>>

Enable(t) ==
    /\ At(t, "enable")
    /\ Goto(t, "enabling")
    /\ UNCHANGED <<mutex, busy, owner, enabled, dev>>

Enabled(t) ==
    /\ At(t, "enabling") /\ ~enabled[dev[t]]
    /\ enabled' = [enabled EXCEPT ![dev[t]] = TRUE]
    /\ Goto(t, IF IsMic(t) THEN "idle" ELSE "set_busy")
    /\ UNCHANGED <<mutex, busy, owner, dev>>

\* i2s_channel_enable fails, always so on a channel that is still enabled: the
\* microphone's flags are taken back, the speaker's were not yet set.
EnableFails(t) ==
    /\ At(t, "enabling")
    /\ Goto(t, IF IsMic(t) THEN "clear_busy" ELSE "give")
    /\ UNCHANGED <<mutex, busy, owner, enabled, dev>>

-----------------------------------------------------------------------------
(* The checks of audio_mic_read, audio_speaker_write and the two stops *)

\* Mutant: it is enough that somebody has started the device.
CheckBusy_Only(t, from, next, last) ==
    /\ At(t, from)
    /\ Goto(t, IF busy[dev[t]] THEN last ELSE "idle")
    /\ UNCHANGED <<mutex, busy, owner, enabled, dev>>

CheckBusy(t, from, next, last) ==
    /\ At(t, from)
    /\ Goto(t, IF busy[dev[t]] THEN next ELSE "idle")
    /\ UNCHANGED <<mutex, busy, owner, enabled, dev>>

CheckOwner(t, from, next) ==
    /\ At(t, from)
    /\ Goto(t, IF owner[dev[t]] = t THEN next ELSE "idle")
    /\ UNCHANGED <<mutex, busy, owner, enabled, dev>>

CheckForIo(t) == \/ CheckBusy(t, "io_busy", "io_owner", "io")
                 \/ CheckOwner(t, "io_owner", "io")
CheckForStop(t) == \/ CheckBusy(t, "stop_busy", "stop_owner", "disable")
                   \/ CheckOwner(t, "stop_owner", "disable")

Transferred(t) ==  \* i2s_channel_read or _write returns, with or without data
    /\ At(t, "io")
    /\ Goto(t, "idle")
    /\ UNCHANGED <<mutex, busy, owner, enabled, dev>>

Disabled(t) ==  \* i2s_channel_disable returns; on failure nothing is retried
    /\ At(t, "disable")
    /\ \/ enabled' = [enabled EXCEPT ![dev[t]] = FALSE]
       \/ UNCHANGED enabled
    /\ Goto(t, "clear_busy")
    /\ UNCHANGED <<mutex, busy, owner, dev>>

ClearBusy(t) ==
    /\ At(t, "clear_busy")
    /\ busy' = [busy EXCEPT ![dev[t]] = FALSE]
    /\ Goto(t, "clear_owner")
    /\ UNCHANGED <<mutex, owner, enabled, dev>>

ClearOwner(t) ==
    /\ At(t, "clear_owner")
    /\ owner' = [owner EXCEPT ![dev[t]] = NoTask]
    /\ Goto(t, "give")
    /\ UNCHANGED <<mutex, busy, enabled, dev>>

Give(t) ==
    /\ At(t, "give")
    /\ mutex' = [mutex EXCEPT ![dev[t]] = NoTask]
    /\ Goto(t, "idle")
    /\ UNCHANGED <<busy, owner, enabled, dev>>

-----------------------------------------------------------------------------
Task(t) ==
    \/ Call(t) \/ Take(t) \/ TakeFails(t) \/ SetBusy(t) \/ SetOwner(t)
    \/ Enable(t) \/ Enabled(t) \/ EnableFails(t) \/ CheckForIo(t)
    \/ CheckForStop(t) \/ Transferred(t) \/ Disabled(t) \/ ClearBusy(t)
    \/ ClearOwner(t) \/ Give(t)

AudioNext == \E t \in Tasks : Task(t)

AudioSpec == AudioInit /\ [][AudioNext]_audioVars

-----------------------------------------------------------------------------
(* Properties *)

\* Every variable stays within its type; only tasks own a device.
AudioTypeOK ==
    /\ mutex \in [Devices -> Tasks \cup {NoTask}]
    /\ busy \in [Devices -> BOOLEAN]
    /\ owner \in [Devices -> Tasks \cup {NoTask}]
    /\ enabled \in [Devices -> BOOLEAN]
    /\ pc \in [Tasks -> Places]
    /\ dev \in [Tasks -> Devices]

\* The abstract device: the mutex says who holds it, the driver calls under way
\* say who uses it.
InUse ==
    [d \in Devices |-> {t \in Tasks : dev[t] = d /\ pc[t] \in InDriver}]

Abstract == INSTANCE ExclusiveDevice WITH holder <- mutex, inUse <- InUse

\* Although read, write and stop look at two unlocked variables one after the
\* other, the devices are used exclusively: audio.c implements ExclusiveDevice.
ImplementsExclusiveDevice == Abstract!DeviceSpec

\* A device that is handed on is handed on clean: when its mutex is free neither
\* flag of the last holder is left for the next one to trip over.
FreeMeansClear ==
    \A d \in Devices : mutex[d] = NoTask => ~busy[d] /\ owner[d] = NoTask

-----------------------------------------------------------------------------
(* The inductive invariant of AudioProofs *)

Unowned(t) == \* where t has the mutex and is not, or no longer, the owner
    \/ pc[t] \in {"set_busy", "set_owner", "give"}
    \/ pc[t] \in {"enable", "enabling"} /\ ~IsMic(t)

HoldsMutex(t) == pc[t] \in {"set_busy", "set_owner", "enable", "enabling", "io",
                            "disable", "clear_busy", "clear_owner", "give"}

Quiet(t) ==  \* where t has the mutex and the busy flag is down
    \/ pc[t] \in {"clear_owner", "give"}
    \/ pc[t] \in {"enable", "enabling"} /\ ~IsMic(t)

\* Types; whoever is past the owner check has the mutex, the owner is the one who has it
\* or nobody, and neither flag of the last holder is left on a device that is free.
AudioInv ==
    /\ AudioTypeOK
    /\ \A t \in Tasks : HoldsMutex(t) => mutex[dev[t]] = t
    /\ \A d \in Devices : owner[d] \in {NoTask, mutex[d]}
    /\ \A t \in Tasks : Unowned(t) => owner[dev[t]] = NoTask
    /\ \A d \in Devices : mutex[d] = NoTask => ~busy[d]
    /\ \A t \in Tasks : Quiet(t) => ~busy[dev[t]]
==============================================================================
