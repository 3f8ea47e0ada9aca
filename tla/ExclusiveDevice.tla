--------------------------- MODULE ExclusiveDevice ---------------------------
(***************************************************************************)
(* What components/audio promises its callers: each I2S device is used by   *)
(* one task at a time, the one that acquired it, and is handed on only when *)
(* no driver call of that task is under way.                               *)
(***************************************************************************)
CONSTANTS Tasks, NoTask, Devices

VARIABLES
    holder,  \* per device: the task that has acquired it, or NoTask
    inUse    \* per device: the tasks inside a driver call on it

deviceVars == <<holder, inUse>>

DeviceInit ==
    /\ holder = [d \in Devices |-> NoTask]
    /\ inUse = [d \in Devices |-> {}]

Acquire(t, d) ==
    /\ holder[d] = NoTask
    /\ holder' = [holder EXCEPT ![d] = t]
    /\ UNCHANGED inUse

BeginUse(t, d) ==
    /\ holder[d] = t
    /\ inUse[d] = {}
    /\ inUse' = [inUse EXCEPT ![d] = {t}]
    /\ UNCHANGED holder

EndUse(t, d) ==
    /\ inUse[d] = {t}
    /\ inUse' = [inUse EXCEPT ![d] = {}]
    /\ UNCHANGED holder

Release(t, d) ==
    /\ holder[d] = t
    /\ inUse[d] = {}
    /\ holder' = [holder EXCEPT ![d] = NoTask]
    /\ UNCHANGED inUse

DeviceNext ==
    \E t \in Tasks, d \in Devices :
        Acquire(t, d) \/ BeginUse(t, d) \/ EndUse(t, d) \/ Release(t, d)

DeviceSpec == DeviceInit /\ [][DeviceNext]_deviceVars
==============================================================================
