----------------------------- MODULE AudioProofs -----------------------------
(***************************************************************************)
(* TLAPS proof that audio.c implements ExclusiveDevice, for any number of   *)
(* tasks.  The argument: the owner of a device is either nobody or the task *)
(* that has its mutex (AudioInv), and a task clears its own ownership before *)
(* it gives the mutex back; so a task that has once read itself as the owner *)
(* has the mutex, and keeps it until its own stop, however late it comes to *)
(* the driver call.                                                        *)
(***************************************************************************)
EXTENDS Audio, TLAPS

\* The steps of the two three-argument checks, flattened for the case splits.
LEMMA TaskCases ==
    ASSUME NEW t \in Tasks, Task(t)
    PROVE  \/ Call(t) \/ Take(t) \/ TakeFails(t) \/ SetBusy(t) \/ SetOwner(t)
           \/ Enable(t) \/ Enabled(t) \/ EnableFails(t)
           \/ CheckBusy(t, "io_busy", "io_owner", "io")
           \/ CheckOwner(t, "io_owner", "io")
           \/ CheckBusy(t, "stop_busy", "stop_owner", "disable")
           \/ CheckOwner(t, "stop_owner", "disable")
           \/ Transferred(t) \/ Disabled(t) \/ ClearBusy(t)
           \/ ClearOwner(t) \/ Give(t)
BY DEF Task, CheckForIo, CheckForStop

\* At start-up no task is inside a call and nothing is taken.
LEMMA InitAudioInv == ASSUME AudioInit PROVE AudioInv
BY AudioAssumption
   DEF AudioInit, AudioInv, AudioTypeOK, Places, HoldsMutex, Unowned, Quiet, At, Devices

\* Every statement of the start, use and stop calls preserves the invariant.
LEMMA StepAudioInv == ASSUME AudioInv, [AudioNext]_audioVars PROVE AudioInv'
<1> USE AudioAssumption
    DEF AudioInv, AudioTypeOK, Places, HoldsMutex, Unowned, Quiet, At, Goto, IsMic
<1>1. ASSUME NEW t \in Tasks, Task(t) PROVE AudioInv'
  <2>1. CASE Call(t) BY <2>1 DEF Call
  <2>2. CASE Take(t) BY <2>2 DEF Take
  <2>3. CASE TakeFails(t) BY <2>3 DEF TakeFails
  <2>4. CASE SetBusy(t) BY <2>4 DEF SetBusy
  <2>5. CASE SetOwner(t) BY <2>5 DEF SetOwner
  <2>6. CASE Enable(t) BY <2>6 DEF Enable
  <2>7. CASE Enabled(t) BY <2>7 DEF Enabled
  <2>8. CASE EnableFails(t) BY <2>8 DEF EnableFails
  <2>9. CASE CheckBusy(t, "io_busy", "io_owner", "io") BY <2>9 DEF CheckBusy
  <2>10. CASE CheckOwner(t, "io_owner", "io") BY <2>10 DEF CheckOwner
  <2>11. CASE CheckBusy(t, "stop_busy", "stop_owner", "disable")
    BY <2>11 DEF CheckBusy
  <2>12. CASE CheckOwner(t, "stop_owner", "disable") BY <2>12 DEF CheckOwner
  <2>13. CASE Transferred(t) BY <2>13 DEF Transferred
  <2>14. CASE Disabled(t) BY <2>14 DEF Disabled
  <2>15. CASE ClearBusy(t) BY <2>15 DEF ClearBusy
  <2>16. CASE ClearOwner(t) BY <2>16 DEF ClearOwner
  <2>17. CASE Give(t) BY <2>17 DEF Give
  <2> QED
    BY <1>1, <2>1, <2>2, <2>3, <2>4, <2>5, <2>6, <2>7, <2>8, <2>9, <2>10, <2>11,
       <2>12, <2>13, <2>14, <2>15, <2>16, <2>17, TaskCases
<1>2. CASE UNCHANGED audioVars BY <1>2 DEF audioVars
<1> QED BY <1>1, <1>2 DEF AudioNext

\* What each task may rely on in every reachable state.
THEOREM AudioInvariance == AudioSpec => []AudioInv
<1>1. AudioInit => AudioInv BY InitAudioInv
<1>2. AudioInv /\ [AudioNext]_audioVars => AudioInv' BY StepAudioInv
<1> QED BY <1>1, <1>2, PTL DEF AudioSpec

\* When a device's mutex is free, neither flag of its last holder is left.
THEOREM HandedOnClean == AudioSpec => []FreeMeansClear
<1>1. AudioInv => FreeMeansClear BY DEF AudioInv, FreeMeansClear
<1> QED BY <1>1, AudioInvariance, PTL

-----------------------------------------------------------------------------
(* The refinement *)

\* No other task is inside the driver on a device whose mutex t has.
LEMMA UseIsExclusive ==
    ASSUME AudioInv, NEW t \in Tasks, mutex[dev[t]] = t, NEW u \in Tasks,
           dev[u] = dev[t], pc[u] \in InDriver
    PROVE  u = t
BY AudioAssumption DEF AudioInv, HoldsMutex, InDriver

\* A step that changes neither devices nor who is inside the driver leaves InUse
\* alone.
LEMMA SameUse ==
    ASSUME NEW t \in Tasks, AudioTypeOK, AudioTypeOK',
           \A u \in Tasks \ {t} : pc'[u] = pc[u] /\ dev'[u] = dev[u],
           pc[t] \notin InDriver, pc'[t] \notin InDriver
    PROVE  InUse' = InUse
<1>1. \A d \in Devices :
        {u \in Tasks : dev'[u] = d /\ pc'[u] \in InDriver}
          = {u \in Tasks : dev[u] = d /\ pc[u] \in InDriver}
  OBVIOUS
<1> QED BY <1>1 DEF InUse, InDriver

\* A step of t, which has the mutex, that takes t into the driver or out of it.
LEMMA UseChanges ==
    ASSUME NEW t \in Tasks, AudioInv, mutex[dev[t]] = t, AudioTypeOK',
           dev' = dev, \A u \in Tasks \ {t} : pc'[u] = pc[u]
    PROVE  /\ InUse[dev[t]] = IF pc[t] \in InDriver THEN {t} ELSE {}
           /\ InUse' = [InUse EXCEPT ![dev[t]] =
                            IF pc'[t] \in InDriver THEN {t} ELSE {}]
<1>1. dev[t] \in Devices BY DEF AudioInv, AudioTypeOK
<1>2. \A u \in Tasks : dev[u] = dev[t] /\ pc[u] \in InDriver => u = t
  BY UseIsExclusive
<1>3. InUse[dev[t]] = {u \in Tasks : dev[u] = dev[t] /\ pc[u] \in InDriver}
  BY <1>1 DEF InUse
<1>4. InUse'[dev[t]] = {u \in Tasks : dev[u] = dev[t] /\ pc'[u] \in InDriver}
  BY <1>1 DEF InUse, InDriver
<1>5. {u \in Tasks : dev[u] = dev[t] /\ pc'[u] \in InDriver}
        = IF pc'[t] \in InDriver THEN {t} ELSE {}
  BY <1>2
<1>6. \A d \in Devices \ {dev[t]} : InUse'[d] = InUse[d]
  BY DEF InUse, InDriver
<1>7. InUse' = [d \in Devices |-> InUse'[d]] /\ InUse = [d \in Devices |-> InUse[d]]
  BY DEF InUse
<1> QED BY <1>1, <1>2, <1>3, <1>4, <1>5, <1>6, <1>7

\* Every step of audio.c is a step of the abstract device or leaves it alone.
LEMMA RefineStep ==
    ASSUME AudioInv, AudioInv', [AudioNext]_audioVars
    PROVE  [Abstract!DeviceNext]_(Abstract!deviceVars)
<1> USE AudioAssumption DEF At, Goto, IsMic, InDriver, HoldsMutex,
        Abstract!deviceVars
<1>0. AudioTypeOK /\ AudioTypeOK' BY DEF AudioInv
<1>1. ASSUME NEW t \in Tasks, Task(t)
      PROVE  [Abstract!DeviceNext]_(Abstract!deviceVars)
  <2>0. dev[t] \in Devices BY <1>0 DEF AudioTypeOK
  <2>1. ASSUME Abstract!Acquire(t, dev[t]) \/ Abstract!BeginUse(t, dev[t])
               \/ Abstract!EndUse(t, dev[t]) \/ Abstract!Release(t, dev[t])
        PROVE  Abstract!DeviceNext
    BY <2>0, <2>1 DEF Abstract!DeviceNext
  \* Calls, checks and refusals: nothing is acquired and nothing used.
  <2>2. CASE Call(t) \/ TakeFails(t)
             \/ CheckBusy(t, "io_busy", "io_owner", "io")
             \/ CheckBusy(t, "stop_busy", "stop_owner", "disable")
    <3>1. InUse' = InUse
      BY <1>0, <2>2, SameUse DEF Call, TakeFails, CheckBusy, AudioTypeOK
    <3> QED BY <2>2, <3>1 DEF Call, TakeFails, CheckBusy
  <2>3. CASE SetBusy(t) \/ SetOwner(t) \/ Enable(t) \/ ClearBusy(t)
             \/ ClearOwner(t)
    <3>1. UNCHANGED mutex
      BY <2>3 DEF SetBusy, SetOwner, Enable, ClearBusy, ClearOwner
    <3>2. CASE SetBusy(t) \/ SetOwner(t) \/ ClearBusy(t) \/ ClearOwner(t)
      <4>1. InUse' = InUse
        BY <1>0, <3>2, SameUse
           DEF SetBusy, SetOwner, ClearBusy, ClearOwner, AudioTypeOK
      <4> QED BY <3>1, <4>1
    <3>3. CASE Enable(t)
      <4>1. mutex[dev[t]] = t BY <3>3 DEF Enable, AudioInv
      <4>2. InUse[dev[t]] = {} /\ InUse' = [InUse EXCEPT ![dev[t]] = {t}]
        BY <1>0, <3>3, <4>1, UseChanges DEF Enable, AudioTypeOK
      <4> QED BY <2>1, <3>1, <4>1, <4>2 DEF Abstract!BeginUse
    <3> QED BY <2>3, <3>2, <3>3
  <2>4. CASE Take(t)
    <3>1. InUse' = InUse BY <1>0, <2>4, SameUse DEF Take, AudioTypeOK
    <3> QED BY <2>1, <2>4, <3>1 DEF Take, Abstract!Acquire
  <2>5. CASE Enabled(t) \/ EnableFails(t) \/ Disabled(t)
    <3>1. UNCHANGED mutex BY <2>5 DEF Enabled, EnableFails, Disabled
    <3>2. mutex[dev[t]] = t
      BY <2>5 DEF Enabled, EnableFails, Disabled, AudioInv
    <3>3. InUse[dev[t]] = {t} /\ InUse' = [InUse EXCEPT ![dev[t]] = {}]
      BY <1>0, <2>5, <3>2, UseChanges
         DEF Enabled, EnableFails, Disabled, AudioTypeOK
    <3> QED BY <2>1, <3>1, <3>3 DEF Abstract!EndUse
  \* The owner read without a lock is the task itself, so it has the mutex.
  <2>6. ASSUME NEW from, NEW next, CheckOwner(t, from, next), next \in InDriver,
               from \notin InDriver
        PROVE  [Abstract!DeviceNext]_(Abstract!deviceVars)
    <3>1. UNCHANGED mutex BY <2>6 DEF CheckOwner
    <3>2. CASE owner[dev[t]] = t
      <4>1. mutex[dev[t]] = t BY <2>0, <3>2 DEF AudioInv
      <4>2. InUse[dev[t]] = {} /\ InUse' = [InUse EXCEPT ![dev[t]] = {t}]
        BY <1>0, <2>6, <3>2, <4>1, UseChanges DEF CheckOwner, AudioTypeOK
      <4> QED BY <2>1, <3>1, <4>1, <4>2 DEF Abstract!BeginUse
    <3>3. CASE owner[dev[t]] # t
      <4>1. InUse' = InUse
        BY <1>0, <2>6, <3>3, SameUse DEF CheckOwner, AudioTypeOK
      <4> QED BY <3>1, <4>1
    <3> QED BY <3>2, <3>3
  <2>7. CASE Transferred(t)
    <3>1. mutex[dev[t]] = t /\ UNCHANGED mutex
      BY <2>7 DEF Transferred, AudioInv
    <3>2. InUse[dev[t]] = {t} /\ InUse' = [InUse EXCEPT ![dev[t]] = {}]
      BY <1>0, <2>7, <3>1, UseChanges DEF Transferred, AudioTypeOK
    <3> QED BY <2>1, <3>1, <3>2 DEF Abstract!EndUse
  <2>8. CASE Give(t)
    <3>1. mutex[dev[t]] = t BY <2>8 DEF Give, AudioInv
    <3>2. InUse[dev[t]] = {}
      BY <1>0, <2>0, <2>8, <3>1, UseIsExclusive DEF Give, InUse
    <3>3. InUse' = InUse BY <1>0, <2>8, SameUse DEF Give, AudioTypeOK
    <3> QED BY <2>1, <2>8, <3>1, <3>2, <3>3 DEF Give, Abstract!Release
  <2> QED
    BY <1>1, <2>2, <2>3, <2>4, <2>5, <2>6, <2>7, <2>8, TaskCases
<1>2. CASE UNCHANGED audioVars
  BY <1>2 DEF audioVars, InUse
<1> QED BY <1>1, <1>2 DEF AudioNext

\* audio.c implements the exclusive device: its unlocked checks of the busy flag
\* and the owner are enough, for any number of tasks and any order of calls.
THEOREM AudioIsExclusive == AudioSpec => ImplementsExclusiveDevice
<1>1. AudioInit => Abstract!DeviceInit
  BY DEF AudioInit, Abstract!DeviceInit, InUse, InDriver
<1>2. AudioInv /\ AudioInv' /\ [AudioNext]_audioVars
        => [Abstract!DeviceNext]_(Abstract!deviceVars)
  BY RefineStep
<1> QED
  BY <1>1, <1>2, AudioInvariance, PTL
     DEF AudioSpec, ImplementsExclusiveDevice, Abstract!DeviceSpec
==============================================================================
