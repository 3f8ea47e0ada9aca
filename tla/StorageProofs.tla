---------------------------- MODULE StorageProofs ----------------------------
(***************************************************************************)
(* TLAPS proofs about Storage, for every set of record tasks, every size   *)
(* of the card and of the table of open files.                             *)
(*                                                                         *)
(* IInv (in Storage, where TLC checks it too) is the inductive invariant:  *)
(* RecorderInv ties the recorder's state to the record task at work, and   *)
(* the other parts rest on it.  One lemma per part shows that every step   *)
(* keeps it; each goes through the steps of Main by group and through the  *)
(* steps of the record task one by one.                                    *)
(*                                                                         *)
(* StopsGetOn at the end counts the steps a stopped recording has left.    *)
(***************************************************************************)
EXTENDS Storage, FiniteSetTheorems, TLAPS

\* Every step keeps the flags Boolean.
LEMMA FlagsStep == ASSUME IInv, [Next]_vars PROVE FlagsOK'
<1> USE StorageAssumption DEF IInv, TypeOK, FlagsOK, Return, Goto, Fail, flags,
   waiters, result, shared, disk, sound, main, worker
<1>1. CASE Boot
  BY <1>1 DEF Boot, BusFailed, MountSucceeds, MountFails
<1>2. CASE StartBody
  BY <1>2 DEF StartBody, StartRefused, StartEnter, CreateTask, CreateFails,
     StartNoMem, StartWoken, StartTimesOut, StartCancel, StartResult
<1>3. CASE StopBody
  BY <1>3 DEF StopBody, StopInactive, StopEnter, StopWoken, StopTimesOut,
     StopGiveUp, StopResult
<1>4. CASE PlayBody
  BY <1>4 DEF PlayBody, PlayOpen, PlayOpenFails, PlayHeader, PlayRejects,
     PlaySpeaker, PlaySpeakerFails, PlayChunk, PlayEnds, PlayStop, PlayClose
<1>5. CASE StartClear \/ RecordNext \/ StopClear \/ PlayCall
  BY <1>5 DEF StartClear, RecordNext, StopClear, PlayCall
<1>6. CASE LiveStart \/ LiveStop \/ Rx
  BY <1>6 DEF LiveStart, LiveStop, Rx, RxTakesSpeaker, RxReleasesSpeaker
<1>7. ASSUME NEW w \in Workers, RecordTask(w) PROVE FlagsOK'
  <2>1. CASE OpenFile(w) BY <2>1 DEF OpenFile
  <2>2. CASE OpenFails(w) BY <2>2 DEF OpenFails
  <2>3. CASE WriteHeader(w) BY <2>3 DEF WriteHeader
  <2>4. CASE MicStart(w) BY <2>4 DEF MicStart
  <2>5. CASE CheckStop(w) BY <2>5 DEF CheckStop
  <2>6. CASE Cancel(w) BY <2>6 DEF Cancel
  <2>7. CASE Abort(w) BY <2>7 DEF Abort
  <2>8. CASE Activate(w) BY <2>8 DEF Activate
  <2>9. CASE NotifyActive(w) BY <2>9 DEF NotifyActive
  <2>10. CASE Loop(w) BY <2>10 DEF Loop
  <2>11. CASE ChunkSaved(w) BY <2>11 DEF ChunkSaved
  <2>12. CASE ChunkFails(w) BY <2>12 DEF ChunkFails
  <2>13. CASE MicStop(w) BY <2>13 DEF MicStop
  <2>14. CASE RewriteHeader(w) BY <2>14 DEF RewriteHeader
  <2>15. CASE CloseFile(w) BY <2>15 DEF CloseFile
  <2>16. CASE Finish(w) BY <2>16 DEF Finish
  <2>17. CASE GiveStart(w) BY <2>17 DEF GiveStart
  <2>18. CASE GiveStop(w) BY <2>18 DEF GiveStop
  <2>19. CASE DeleteSelf(w) BY <2>19 DEF DeleteSelf
  <2> QED BY <1>7, <2>1, <2>2, <2>3, <2>4, <2>5, <2>6, <2>7, <2>8, <2>9, <2>10,
     <2>11, <2>12, <2>13, <2>14, <2>15, <2>16, <2>17, <2>18, <2>19 DEF
     RecordTask
<1>8. CASE UNCHANGED vars BY <1>8 DEF vars
<1> QED BY <1>1, <1>2, <1>3, <1>4, <1>5, <1>6, <1>7, <1>8 DEF Next, InCall

\* Every step keeps the types.  A file is closed only while OpenFilesInv
\* counts it, so the table of open files never underflows; the chunks a task
\* has counted are on the card (FileInv), so no counter passes Capacity.
LEMMA TypeStep == ASSUME IInv, [Next]_vars PROVE TypeOK'
<1> USE StorageAssumption DEF IInv, TypeOK, RecorderInv, OpenFilesInv, FileInv,
   SomeBody, Body, HasFile, MainHasFile, FilePcs, BodyPcs, PlayPcs, WorkerPcs,
   MainPcs, States, Results, Errors, Files, NoHeader, Absent, EmptyFile,
   HeaderNeverOverstates, Return, Goto, Fail, KeepFirstError, MicRelease,
   flags, waiters, result, shared, disk, sound, main, worker
<1> FlagsOK' BY FlagsStep DEF IInv
<1>1. CASE Boot
  BY <1>1 DEF Boot, BusFailed, MountSucceeds, MountFails
<1>2. CASE StartBody
  BY <1>2 DEF StartBody, StartRefused, StartEnter, CreateTask, CreateFails,
     StartNoMem, StartWoken, StartTimesOut, StartCancel, StartResult
<1>3. CASE StopBody
  BY <1>3 DEF StopBody, StopInactive, StopEnter, StopWoken, StopTimesOut,
     StopGiveUp, StopResult
<1>4. CASE PlayBody
  BY <1>4 DEF PlayBody, PlayOpen, PlayOpenFails, PlayHeader, PlayRejects,
     PlaySpeaker, PlaySpeakerFails, PlayChunk, PlayEnds, PlayStop, PlayClose
<1>5. CASE StartClear \/ RecordNext \/ StopClear \/ PlayCall
  BY <1>5 DEF StartClear, RecordNext, StopClear, PlayCall
<1>6. CASE LiveStart \/ LiveStop \/ Rx
  BY <1>6 DEF LiveStart, LiveStop, Rx, RxTakesSpeaker, RxReleasesSpeaker
<1>7. ASSUME NEW w \in Workers, RecordTask(w) PROVE TypeOK'
  <2>1. CASE OpenFile(w) BY <2>1 DEF OpenFile
  <2>2. CASE OpenFails(w) BY <2>2 DEF OpenFails
  <2>3. CASE WriteHeader(w) BY <2>3 DEF WriteHeader
  <2>4. CASE MicStart(w) BY <2>4 DEF MicStart
  <2>5. CASE CheckStop(w) BY <2>5 DEF CheckStop
  <2>6. CASE Cancel(w) BY <2>6 DEF Cancel
  <2>7. CASE Abort(w) BY <2>7 DEF Abort
  <2>8. CASE Activate(w) BY <2>8 DEF Activate
  <2>9. CASE NotifyActive(w) BY <2>9 DEF NotifyActive
  <2>10. CASE Loop(w) BY <2>10 DEF Loop
  <2>11. CASE ChunkSaved(w) BY <2>11 DEF ChunkSaved
  <2>12. CASE ChunkFails(w) BY <2>12 DEF ChunkFails
  <2>13. CASE MicStop(w) BY <2>13 DEF MicStop
  <2>14. CASE RewriteHeader(w) BY <2>14 DEF RewriteHeader
  <2>15. CASE CloseFile(w)
    <3>1. EmptyFile \in Files OBVIOUS
    <3>2. file' \in Files BY <2>15, <3>1 DEF CloseFile
    <3>3. openFiles' \in 0..MaxFiles BY <2>15 DEF CloseFile
    <3> QED BY <2>15, <3>2, <3>3 DEF CloseFile
  <2>16. CASE Finish(w) BY <2>16 DEF Finish
  <2>17. CASE GiveStart(w) BY <2>17 DEF GiveStart
  <2>18. CASE GiveStop(w) BY <2>18 DEF GiveStop
  <2>19. CASE DeleteSelf(w) BY <2>19 DEF DeleteSelf
  <2> QED BY <1>7, <2>1, <2>2, <2>3, <2>4, <2>5, <2>6, <2>7, <2>8, <2>9, <2>10,
     <2>11, <2>12, <2>13, <2>14, <2>15, <2>16, <2>17, <2>18, <2>19 DEF
     RecordTask
<1>8. CASE UNCHANGED vars BY <1>8 DEF vars
<1> QED BY <1>1, <1>2, <1>3, <1>4, <1>5, <1>6, <1>7, <1>8 DEF Next, InCall

\* Every step keeps the recorder's state and its task in agreement. The
\* critical step is StartEnter: it sees the recorder at rest, hence no task
\* at work, before CreateTask makes one.
LEMMA RecorderStep == ASSUME IInv, [Next]_vars PROVE RecorderInv'
<1> USE StorageAssumption DEF IInv, RecorderInv, OneRecorder,
   CancelledStartNeverActive, SomeBody, Body, BodyPcs, PlayPcs, TypeOK,
   FlagsOK, record_is_active, Return, Goto, flags, waiters, result, shared,
   disk, sound, main, worker
<1>1. CASE Boot
  BY <1>1 DEF Boot, BusFailed, MountSucceeds, MountFails
<1>2. ASSUME StartBody PROVE RecorderInv'
  <2>1. ASSUME NEW w \in Workers, CreateTask(w) PROVE RecorderInv'
    <3>1. \A v \in Workers : Body(v)' <=> v = w BY <2>1 DEF CreateTask
    <3>2. s_record_state' = "STARTING" /\ s_record_task_result' = "OK"
      BY <2>1 DEF CreateTask
    <3> QED BY <2>1, <3>1, <3>2 DEF CreateTask
  <2>2. CASE StartRefused \/ StartEnter BY <2>2 DEF StartRefused, StartEnter
  <2>3. CASE CreateFails \/ StartNoMem BY <2>3 DEF CreateFails, StartNoMem
  <2>4. CASE StartWoken \/ StartTimesOut BY <2>4 DEF StartWoken, StartTimesOut
  <2>5. CASE StartCancel \/ StartResult BY <2>5 DEF StartCancel, StartResult
  <2> QED BY <1>2, <2>1, <2>2, <2>3, <2>4, <2>5 DEF StartBody
<1>3. CASE StopBody
  BY <1>3 DEF StopBody, StopInactive, StopEnter, StopWoken, StopTimesOut,
     StopGiveUp, StopResult
<1>4. CASE PlayBody
  BY <1>4 DEF PlayBody, PlayOpen, PlayOpenFails, PlayHeader, PlayRejects,
     PlaySpeaker, PlaySpeakerFails, PlayChunk, PlayEnds, PlayStop, PlayClose
<1>5. CASE StartClear \/ RecordNext \/ StopClear \/ PlayCall
  BY <1>5 DEF StartClear, RecordNext, StopClear, PlayCall
<1>6. CASE LiveStart \/ LiveStop \/ Rx
  BY <1>6 DEF LiveStart, LiveStop, Rx, RxTakesSpeaker, RxReleasesSpeaker
<1>7. ASSUME NEW w \in Workers, RecordTask(w) PROVE RecorderInv'
  <2>1. CASE OpenFile(w) BY <2>1 DEF OpenFile
  <2>2. CASE OpenFails(w) BY <2>2 DEF OpenFails
  <2>3. CASE WriteHeader(w) BY <2>3 DEF WriteHeader
  <2>4. CASE MicStart(w) BY <2>4 DEF MicStart
  <2>5. CASE CheckStop(w) BY <2>5 DEF CheckStop
  <2>6. CASE Cancel(w) BY <2>6 DEF Cancel
  <2>7. CASE Abort(w) BY <2>7 DEF Abort
  <2>8. CASE Activate(w) BY <2>8 DEF Activate
  <2>9. CASE NotifyActive(w) BY <2>9 DEF NotifyActive
  <2>10. CASE Loop(w) BY <2>10 DEF Loop
  <2>11. CASE ChunkSaved(w) BY <2>11 DEF ChunkSaved
  <2>12. CASE ChunkFails(w) BY <2>12 DEF ChunkFails
  <2>13. CASE MicStop(w) BY <2>13 DEF MicStop
  <2>14. CASE RewriteHeader(w) BY <2>14 DEF RewriteHeader
  <2>15. CASE CloseFile(w) BY <2>15 DEF CloseFile
  <2>16. CASE Finish(w) BY <2>16 DEF Finish
  <2>17. CASE GiveStart(w) BY <2>17 DEF GiveStart
  <2>18. CASE GiveStop(w) BY <2>18 DEF GiveStop
  <2>19. CASE DeleteSelf(w) BY <2>19 DEF DeleteSelf
  <2> QED BY <1>7, <2>1, <2>2, <2>3, <2>4, <2>5, <2>6, <2>7, <2>8, <2>9, <2>10,
     <2>11, <2>12, <2>13, <2>14, <2>15, <2>16, <2>17, <2>18, <2>19 DEF
     RecordTask
<1>8. CASE UNCHANGED vars BY <1>8 DEF vars
<1> QED BY <1>1, <1>2, <1>3, <1>4, <1>5, <1>6, <1>7, <1>8 DEF Next, InCall

\* Every step keeps an open file counted: Main and a record task never have
\* record.wav open together, so closing one entry never uncounts the other.
LEMMA OpenFilesStep == ASSUME IInv, [Next]_vars PROVE OpenFilesInv'
<1> USE StorageAssumption DEF IInv, OpenFilesInv, RecorderInv, OneRecorder,
   SomeBody, Body, HasFile, MainHasFile, FilePcs, BodyPcs, PlayPcs, TypeOK,
   record_is_active, Return, Goto, flags, waiters, result, shared, disk, sound,
   main, worker
<1>1. CASE Boot
  BY <1>1 DEF Boot, BusFailed, MountSucceeds, MountFails
<1>2. CASE StartBody
  BY <1>2 DEF StartBody, StartRefused, StartEnter, CreateTask, CreateFails,
     StartNoMem, StartWoken, StartTimesOut, StartCancel, StartResult
<1>3. CASE StopBody
  BY <1>3 DEF StopBody, StopInactive, StopEnter, StopWoken, StopTimesOut,
     StopGiveUp, StopResult
<1>4. CASE PlayBody
  BY <1>4 DEF PlayBody, PlayOpen, PlayOpenFails, PlayHeader, PlayRejects,
     PlaySpeaker, PlaySpeakerFails, PlayChunk, PlayEnds, PlayStop, PlayClose
<1>5. CASE StartClear \/ RecordNext \/ StopClear \/ PlayCall
  BY <1>5 DEF StartClear, RecordNext, StopClear, PlayCall
<1>6. CASE LiveStart \/ LiveStop \/ Rx
  BY <1>6 DEF LiveStart, LiveStop, Rx, RxTakesSpeaker, RxReleasesSpeaker
<1>7. ASSUME NEW w \in Workers, RecordTask(w) PROVE OpenFilesInv'
  <2>1. CASE OpenFile(w) BY <2>1 DEF OpenFile
  <2>2. CASE OpenFails(w) BY <2>2 DEF OpenFails
  <2>3. CASE WriteHeader(w) BY <2>3 DEF WriteHeader
  <2>4. CASE MicStart(w) BY <2>4 DEF MicStart
  <2>5. CASE CheckStop(w) BY <2>5 DEF CheckStop
  <2>6. CASE Cancel(w) BY <2>6 DEF Cancel
  <2>7. CASE Abort(w) BY <2>7 DEF Abort
  <2>8. CASE Activate(w) BY <2>8 DEF Activate
  <2>9. CASE NotifyActive(w) BY <2>9 DEF NotifyActive
  <2>10. CASE Loop(w) BY <2>10 DEF Loop
  <2>11. CASE ChunkSaved(w) BY <2>11 DEF ChunkSaved
  <2>12. CASE ChunkFails(w) BY <2>12 DEF ChunkFails
  <2>13. CASE MicStop(w) BY <2>13 DEF MicStop
  <2>14. CASE RewriteHeader(w) BY <2>14 DEF RewriteHeader
  <2>15. CASE CloseFile(w) BY <2>15 DEF CloseFile
  <2>16. CASE Finish(w) BY <2>16 DEF Finish
  <2>17. CASE GiveStart(w) BY <2>17 DEF GiveStart
  <2>18. CASE GiveStop(w) BY <2>18 DEF GiveStop
  <2>19. CASE DeleteSelf(w) BY <2>19 DEF DeleteSelf
  <2> QED BY <1>7, <2>1, <2>2, <2>3, <2>4, <2>5, <2>6, <2>7, <2>8, <2>9, <2>10,
     <2>11, <2>12, <2>13, <2>14, <2>15, <2>16, <2>17, <2>18, <2>19 DEF
     RecordTask
<1>8. CASE UNCHANGED vars BY <1>8 DEF vars
<1> QED BY <1>1, <1>2, <1>3, <1>4, <1>5, <1>6, <1>7, <1>8 DEF Next, InCall

\* Every step keeps what the record task knows about the file; no other task
\* writes it.
LEMMA FileStep == ASSUME IInv, [Next]_vars PROVE FileInv'
<1> USE StorageAssumption DEF IInv, FileInv, HeaderNeverOverstates,
   RecorderInv, OneRecorder, SomeBody, Body, HasFile, FilePcs, BodyPcs, TypeOK,
   Files, NoHeader, Absent, EmptyFile, Goto, Fail, KeepFirstError, flags,
   waiters, result, shared, disk, sound, main, worker
<1>1. CASE Boot
  BY <1>1 DEF Boot, BusFailed, MountSucceeds, MountFails
<1>2. CASE StartBody
  BY <1>2 DEF StartBody, StartRefused, StartEnter, CreateTask, CreateFails,
     StartNoMem, StartWoken, StartTimesOut, StartCancel, StartResult
<1>3. CASE StopBody
  BY <1>3 DEF StopBody, StopInactive, StopEnter, StopWoken, StopTimesOut,
     StopGiveUp, StopResult
<1>4. CASE PlayBody
  BY <1>4 DEF PlayBody, PlayOpen, PlayOpenFails, PlayHeader, PlayRejects,
     PlaySpeaker, PlaySpeakerFails, PlayChunk, PlayEnds, PlayStop, PlayClose
<1>5. CASE StartClear \/ RecordNext \/ StopClear \/ PlayCall
  BY <1>5 DEF StartClear, RecordNext, StopClear, PlayCall
<1>6. CASE LiveStart \/ LiveStop \/ Rx
  BY <1>6 DEF LiveStart, LiveStop, Rx, RxTakesSpeaker, RxReleasesSpeaker
<1>7. ASSUME NEW w \in Workers, RecordTask(w) PROVE FileInv'
  <2>1. CASE OpenFile(w) BY <2>1 DEF OpenFile
  <2>2. CASE OpenFails(w) BY <2>2 DEF OpenFails
  <2>3. CASE WriteHeader(w) BY <2>3 DEF WriteHeader
  <2>4. CASE MicStart(w) BY <2>4 DEF MicStart
  <2>5. CASE CheckStop(w) BY <2>5 DEF CheckStop
  <2>6. CASE Cancel(w) BY <2>6 DEF Cancel
  <2>7. CASE Abort(w) BY <2>7 DEF Abort
  <2>8. CASE Activate(w) BY <2>8 DEF Activate
  <2>9. CASE NotifyActive(w) BY <2>9 DEF NotifyActive
  <2>10. CASE Loop(w) BY <2>10 DEF Loop
  <2>11. CASE ChunkSaved(w) BY <2>11 DEF ChunkSaved
  <2>12. CASE ChunkFails(w) BY <2>12 DEF ChunkFails
  <2>13. CASE MicStop(w) BY <2>13 DEF MicStop
  <2>14. CASE RewriteHeader(w) BY <2>14 DEF RewriteHeader
  <2>15. CASE CloseFile(w) BY <2>15 DEF CloseFile
  <2>16. CASE Finish(w) BY <2>16 DEF Finish
  <2>17. CASE GiveStart(w) BY <2>17 DEF GiveStart
  <2>18. CASE GiveStop(w) BY <2>18 DEF GiveStop
  <2>19. CASE DeleteSelf(w) BY <2>19 DEF DeleteSelf
  <2> QED BY <1>7, <2>1, <2>2, <2>3, <2>4, <2>5, <2>6, <2>7, <2>8, <2>9, <2>10,
     <2>11, <2>12, <2>13, <2>14, <2>15, <2>16, <2>17, <2>18, <2>19 DEF
     RecordTask
<1>8. CASE UNCHANGED vars BY <1>8 DEF vars
<1> QED BY <1>1, <1>2, <1>3, <1>4, <1>5, <1>6, <1>7, <1>8 DEF Next, InCall

\* Every step keeps the holder of the microphone where the record task, or
\* the live call, expects it.
LEMMA MicStep == ASSUME IInv, [Next]_vars PROVE MicInv'
<1> USE StorageAssumption DEF IInv, MicInv, MicHeldByRecorder, MicPcs, BodyPcs,
   RecorderInv, OneRecorder, Body, TypeOK, Return, Goto, MicRelease, flags,
   waiters, result, shared, disk, sound, main, worker
<1>1. CASE Boot
  BY <1>1 DEF Boot, BusFailed, MountSucceeds, MountFails
<1>2. CASE StartBody
  BY <1>2 DEF StartBody, StartRefused, StartEnter, CreateTask, CreateFails,
     StartNoMem, StartWoken, StartTimesOut, StartCancel, StartResult
<1>3. CASE StopBody
  BY <1>3 DEF StopBody, StopInactive, StopEnter, StopWoken, StopTimesOut,
     StopGiveUp, StopResult
<1>4. CASE PlayBody
  BY <1>4 DEF PlayBody, PlayOpen, PlayOpenFails, PlayHeader, PlayRejects,
     PlaySpeaker, PlaySpeakerFails, PlayChunk, PlayEnds, PlayStop, PlayClose
<1>5. CASE StartClear \/ RecordNext \/ StopClear \/ PlayCall
  BY <1>5 DEF StartClear, RecordNext, StopClear, PlayCall
<1>6. CASE LiveStart \/ LiveStop \/ Rx
  BY <1>6 DEF LiveStart, LiveStop, Rx, RxTakesSpeaker, RxReleasesSpeaker
<1>7. ASSUME NEW w \in Workers, RecordTask(w) PROVE MicInv'
  <2>1. CASE OpenFile(w) BY <2>1 DEF OpenFile
  <2>2. CASE OpenFails(w) BY <2>2 DEF OpenFails
  <2>3. CASE WriteHeader(w) BY <2>3 DEF WriteHeader
  <2>4. CASE MicStart(w) BY <2>4 DEF MicStart
  <2>5. CASE CheckStop(w) BY <2>5 DEF CheckStop
  <2>6. CASE Cancel(w) BY <2>6 DEF Cancel
  <2>7. CASE Abort(w) BY <2>7 DEF Abort
  <2>8. CASE Activate(w) BY <2>8 DEF Activate
  <2>9. CASE NotifyActive(w) BY <2>9 DEF NotifyActive
  <2>10. CASE Loop(w) BY <2>10 DEF Loop
  <2>11. CASE ChunkSaved(w) BY <2>11 DEF ChunkSaved
  <2>12. CASE ChunkFails(w) BY <2>12 DEF ChunkFails
  <2>13. CASE MicStop(w) BY <2>13 DEF MicStop
  <2>14. CASE RewriteHeader(w) BY <2>14 DEF RewriteHeader
  <2>15. CASE CloseFile(w) BY <2>15 DEF CloseFile
  <2>16. CASE Finish(w) BY <2>16 DEF Finish
  <2>17. CASE GiveStart(w) BY <2>17 DEF GiveStart
  <2>18. CASE GiveStop(w) BY <2>18 DEF GiveStop
  <2>19. CASE DeleteSelf(w) BY <2>19 DEF DeleteSelf
  <2> QED BY <1>7, <2>1, <2>2, <2>3, <2>4, <2>5, <2>6, <2>7, <2>8, <2>9, <2>10,
     <2>11, <2>12, <2>13, <2>14, <2>15, <2>16, <2>17, <2>18, <2>19 DEF
     RecordTask
<1>8. CASE UNCHANGED vars BY <1>8 DEF vars
<1> QED BY <1>1, <1>2, <1>3, <1>4, <1>5, <1>6, <1>7, <1>8 DEF Next, InCall

\* Every step keeps a sleeping start answered: the waiter moves from the
\* shared variable to the task, and from the task to the notification.
LEMMA WakeStep == ASSUME IInv, [Next]_vars PROVE WakeInv'
<1> USE StorageAssumption DEF IInv, WakeInv, StartIsAnswered, RecorderInv,
   SomeBody, Body, BodyPcs, TypeOK, Return, Goto, flags, waiters, result,
   shared, disk, sound, main, worker
<1>1. CASE Boot
  BY <1>1 DEF Boot, BusFailed, MountSucceeds, MountFails
<1>2. CASE StartBody
  BY <1>2 DEF StartBody, StartRefused, StartEnter, CreateTask, CreateFails,
     StartNoMem, StartWoken, StartTimesOut, StartCancel, StartResult
<1>3. CASE StopBody
  BY <1>3 DEF StopBody, StopInactive, StopEnter, StopWoken, StopTimesOut,
     StopGiveUp, StopResult
<1>4. CASE PlayBody
  BY <1>4 DEF PlayBody, PlayOpen, PlayOpenFails, PlayHeader, PlayRejects,
     PlaySpeaker, PlaySpeakerFails, PlayChunk, PlayEnds, PlayStop, PlayClose
<1>5. CASE StartClear \/ RecordNext \/ StopClear \/ PlayCall
  BY <1>5 DEF StartClear, RecordNext, StopClear, PlayCall
<1>6. CASE LiveStart \/ LiveStop \/ Rx
  BY <1>6 DEF LiveStart, LiveStop, Rx, RxTakesSpeaker, RxReleasesSpeaker
<1>7. ASSUME NEW w \in Workers, RecordTask(w) PROVE WakeInv'
  <2>1. CASE OpenFile(w) BY <2>1 DEF OpenFile
  <2>2. CASE OpenFails(w) BY <2>2 DEF OpenFails
  <2>3. CASE WriteHeader(w) BY <2>3 DEF WriteHeader
  <2>4. CASE MicStart(w) BY <2>4 DEF MicStart
  <2>5. CASE CheckStop(w) BY <2>5 DEF CheckStop
  <2>6. CASE Cancel(w) BY <2>6 DEF Cancel
  <2>7. CASE Abort(w) BY <2>7 DEF Abort
  <2>8. CASE Activate(w) BY <2>8 DEF Activate
  <2>9. CASE NotifyActive(w) BY <2>9 DEF NotifyActive
  <2>10. CASE Loop(w) BY <2>10 DEF Loop
  <2>11. CASE ChunkSaved(w) BY <2>11 DEF ChunkSaved
  <2>12. CASE ChunkFails(w) BY <2>12 DEF ChunkFails
  <2>13. CASE MicStop(w) BY <2>13 DEF MicStop
  <2>14. CASE RewriteHeader(w) BY <2>14 DEF RewriteHeader
  <2>15. CASE CloseFile(w) BY <2>15 DEF CloseFile
  <2>16. CASE Finish(w) BY <2>16 DEF Finish
  <2>17. CASE GiveStart(w) BY <2>17 DEF GiveStart
  <2>18. CASE GiveStop(w) BY <2>18 DEF GiveStop
  <2>19. CASE DeleteSelf(w) BY <2>19 DEF DeleteSelf
  <2> QED BY <1>7, <2>1, <2>2, <2>3, <2>4, <2>5, <2>6, <2>7, <2>8, <2>9, <2>10,
     <2>11, <2>12, <2>13, <2>14, <2>15, <2>16, <2>17, <2>18, <2>19 DEF
     RecordTask
<1>8. CASE UNCHANGED vars BY <1>8 DEF vars
<1> QED BY <1>1, <1>2, <1>3, <1>4, <1>5, <1>6, <1>7, <1>8 DEF Next, InCall

\* The initial state satisfies the invariant.
LEMMA InitIInv == ASSUME Init PROVE IInv
<1> USE StorageAssumption DEF Init
<1>0. file \in Files /\ file.hdr <= file.data
  <2> USE DEF LeftOnCard, NoFile, EmptyFile, NoHeader, Absent, Files
  <2>1. CASE file \in {NoFile, EmptyFile} BY <2>1
  <2>2. CASE file \notin {NoFile, EmptyFile}
    <3>1. file \in [hdr : 0..Capacity, data : 0..Capacity]
      BY <2>2
    <3>2. file.hdr <= file.data BY <2>2
    <3>3. [hdr : 0..Capacity, data : 0..Capacity]
             \subseteq Files
      OBVIOUS
    <3> QED BY <3>1, <3>2, <3>3
  <2> QED BY <2>1, <2>2
<1>1. TypeOK
  <2>1. FlagsOK BY DEF FlagsOK
  <2>2. mpc \in MainPcs /\ s_record_state \in States /\ "OK" \in Results
    BY DEF MainPcs, States, Results
  <2>3. /\ wpc \in [Workers -> WorkerPcs]
        /\ wgive \in [Workers -> SUBSET {"start", "stop"}]
    BY DEF WorkerPcs
  <2> QED BY <1>0, <2>1, <2>2, <2>3 DEF TypeOK
<1>2. RecorderInv /\ OpenFilesInv
  BY DEF RecorderInv, OpenFilesInv, OneRecorder, CancelledStartNeverActive,
         SomeBody, Body, HasFile, MainHasFile, FilePcs, BodyPcs, PlayPcs
<1>3. FileInv
  BY <1>0 DEF FileInv, HeaderNeverOverstates, HasFile, FilePcs, BodyPcs
<1>4. MicInv /\ WakeInv
  BY DEF MicInv, MicHeldByRecorder, MicPcs, WakeInv, StartIsAnswered
<1> QED BY <1>1, <1>2, <1>3, <1>4 DEF IInv

\* The invariant holds in every reachable state of storage.c.
THEOREM Invariance == Spec => []IInv
<1>1. Init => IInv BY InitIInv
<1>2. IInv /\ [Next]_vars => IInv'
  BY TypeStep, RecorderStep, OpenFilesStep, FileStep, MicStep, WakeStep DEF IInv
<1> QED BY <1>1, <1>2, PTL DEF Spec

\* Type correctness: in particular the FAT layer's table of open files neither
\* overflows nor underflows.
THEOREM TypeCorrect == Spec => []TypeOK
<1>1. IInv => TypeOK BY DEF IInv
<1> QED BY <1>1, Invariance, PTL

\* At most one record task is at work on record.wav and the microphone.
THEOREM RecorderIsUnique == Spec => []OneRecorder
<1>1. IInv => OneRecorder BY DEF IInv, RecorderInv
<1> QED BY <1>1, Invariance, PTL

\* storage_play_recording never has record.wav open together with a record task.
THEOREM PlaybackIsSafe == Spec => []PlaybackSeesClosedFile
<1>1. IInv => PlaybackSeesClosedFile
  BY DEF IInv, RecorderInv, PlaybackSeesClosedFile, MainHasFile, HasFile,
         FilePcs, SomeBody, Body
<1> QED BY <1>1, Invariance, PTL

\* A start cancelled by its timeout is never shown as ACTIVE.
THEOREM CancelIsFinal == Spec => []CancelledStartNeverActive
<1>1. IInv => CancelledStartNeverActive BY DEF IInv, RecorderInv
<1> QED BY <1>1, Invariance, PTL

\* The header of record.wav never gives more samples than the card holds.
THEOREM HeaderIsSound == Spec => []HeaderNeverOverstates
<1>1. IInv => HeaderNeverOverstates BY DEF IInv, FileInv
<1> QED BY <1>1, Invariance, PTL

\* No path of the record task keeps the microphone.
THEOREM MicIsReturned == Spec => []MicHeldByRecorder
<1>1. IInv => MicHeldByRecorder BY DEF IInv, MicInv
<1> QED BY <1>1, Invariance, PTL

\* A start that sleeps has a wake-up on its way.
THEOREM NoLostWakeup == Spec => []StartIsAnswered
<1>1. IInv => StartIsAnswered BY DEF IInv, WakeInv
<1> QED BY <1>1, Invariance, PTL

\* The recorder becomes IDLE only by a Finish whose recording is complete.
LEMMA SavedStep ==
    ASSUME IInv, [Next]_vars, s_record_state # "IDLE", s_record_state' = "IDLE"
    PROVE  /\ file'.hdr = s_recorded_bytes' /\ s_recorded_bytes' <= file'.data
           /\ \A w \in Workers : ~HasFile(w)' /\ mic' # w
<1> USE StorageAssumption DEF flags, waiters, result, shared, disk, sound, main, worker
<1>1. PICK w \in Workers : Finish(w)
  <2>1. ~Boot BY DEF Boot, BusFailed, MountSucceeds, MountFails
  <2>2. ~StartBody
    BY DEF StartBody, StartRefused, StartEnter, CreateTask, CreateFails,
        StartNoMem, StartWoken, StartTimesOut, StartCancel, StartResult
  <2>3. ~StopBody BY DEF StopBody, StopInactive, StopEnter, StopWoken,
      StopTimesOut, StopGiveUp, StopResult
  <2>4. ~PlayBody
    BY DEF PlayBody, PlayOpen, PlayOpenFails, PlayHeader, PlayRejects,
        PlaySpeaker, PlaySpeakerFails, PlayChunk, PlayEnds, PlayStop, PlayClose
  <2>5. ~(StartClear \/ RecordNext \/ StopClear \/ PlayCall \/ LiveStart
         \/ LiveStop \/ Rx)
    BY DEF StartClear, RecordNext, StopClear, PlayCall, LiveStart, LiveStop, Rx,
           RxTakesSpeaker, RxReleasesSpeaker
  <2>6. ASSUME NEW w \in Workers, RecordTask(w) PROVE Finish(w)
    BY <2>6 DEF RecordTask, OpenFile, OpenFails, WriteHeader, MicStart,
        CheckStop, Cancel, Abort, Activate, NotifyActive, Loop, ChunkSaved,
        ChunkFails, MicStop, RewriteHeader, CloseFile, GiveStart, GiveStop,
        DeleteSelf
  <2>7. ~UNCHANGED vars BY DEF vars
  <2> QED BY <2>1, <2>2, <2>3, <2>4, <2>5, <2>6, <2>7 DEF Next, InCall
<1>2. werr[w] = "OK" /\ file.hdr = wbytes[w]
  BY <1>1 DEF Finish, IInv, FileInv
<1>3. file' = file /\ s_recorded_bytes' = wbytes[w] BY <1>1 DEF Finish
<1>4. \A v \in Workers : ~HasFile(v)' /\ mic' # v
  BY <1>1 DEF Finish, Goto, IInv, RecorderInv, OneRecorder, Body, HasFile,
              FilePcs, BodyPcs, MicInv, MicHeldByRecorder, MicPcs, TypeOK
<1> QED BY <1>2, <1>3, <1>4 DEF IInv, FileInv, HeaderNeverOverstates

\* IDLE means saved, for every interleaving and every failure.
THEOREM IdleMeansSaved == Spec => SavedWhenIdle
<1>1. IInv /\ [Next]_vars =>
        [s_record_state # "IDLE" /\ s_record_state' = "IDLE" =>
          /\ file'.hdr = s_recorded_bytes' /\ s_recorded_bytes' <= file'.data
          /\ \A w \in Workers : ~HasFile(w)' /\ mic' # w]_vars
  BY SavedStep
<1> QED BY <1>1, Invariance, PTL DEF Spec, SavedWhenIdle

\* Of a set with at most one element the size says whether it is empty.
LEMMA AtMostOne ==
    ASSUME NEW H, \A v, w \in H : v = w
    PROVE  Cardinality(H) = IF H = {} THEN 0 ELSE 1
<1>1. CASE H = {}
  BY <1>1, FS_EmptySet
<1>2. ASSUME NEW w \in H PROVE Cardinality(H) = 1
  <2>1. H = {w}
    BY <1>2
  <2>. QED
    BY <2>1, FS_Singleton
<1>. QED
  BY <1>1, <1>2

\* A step keeps the entries in use and the handles in balance, but for the one
\* return of storage_play_recording.
LEMMA HandleStep ==
    ASSUME IInv, [Next]_vars, ~(mpc = "play_speaker" /\ mpc' = "idle")
    PROVE  openFiles' - Holders' = openFiles - Holders
<1> DEFINE TaskHasFile == \E w \in Workers : HasFile(w)
           tasks == IF TaskHasFile THEN 1 ELSE 0
           mains == IF MainHasFile THEN 1 ELSE 0
<1>0. IInv'
  BY TypeStep, RecorderStep, OpenFilesStep, FileStep, MicStep, WakeStep DEF IInv
<1>1. Holders = tasks + mains
  <2>1. \A v, w \in {u \in Workers : HasFile(u)} : v = w
    BY DEF IInv, RecorderInv, OneRecorder, Body, HasFile, FilePcs
  <2>2. {u \in Workers : HasFile(u)} = {} <=> ~TaskHasFile
    OBVIOUS
  <2>. QED
    BY <2>1, <2>2, AtMostOne DEF Holders
<1>2. Holders' = tasks' + mains'
  <2>1. \A v, w \in {u \in Workers : HasFile(u)'} : v = w
    BY <1>0 DEF IInv, RecorderInv, OneRecorder, Body, HasFile, FilePcs
  <2>2. {u \in Workers : HasFile(u)'} = {} <=> ~TaskHasFile'
    OBVIOUS
  <2>. QED
    BY <2>1, <2>2, AtMostOne DEF Holders
<1>3. openFiles \in Nat /\ openFiles' \in Nat
  BY <1>0, StorageAssumption DEF IInv, TypeOK
<1> HIDE DEF TaskHasFile
<1>4. {tasks, tasks', mains, mains'} \subseteq Int
  OBVIOUS
<1>5. UNCHANGED wpc => tasks' = tasks
  BY DEF TaskHasFile, HasFile
<1>6. UNCHANGED mpc => mains' = mains
  BY DEF MainHasFile
<1>7. ~MainHasFile => mains = 0
  OBVIOUS
<1>8. ~MainHasFile' => mains' = 0
  OBVIOUS
<1> HIDE DEF tasks, mains
<1>. SUFFICES openFiles' - openFiles = (tasks' - tasks) + (mains' - mains)
  BY <1>1, <1>2, <1>3, <1>4
<1> USE DEF Return, disk, sound, main, worker
<1>9. CASE Boot
  <2>1. tasks' = tasks /\ openFiles' = openFiles /\ mains = 0 /\ mains' = 0
    BY <1>5, <1>7, <1>8, <1>9 DEF Boot, BusFailed, MountSucceeds, MountFails,
       MainHasFile, PlayPcs
  <2>. QED
    BY <1>3, <1>4, <2>1
<1>10. CASE StartBody
  <2>1. ASSUME NEW w \in Workers, CreateTask(w) PROVE tasks' = tasks
    BY <2>1 DEF CreateTask, tasks, TaskHasFile, HasFile, FilePcs, BodyPcs,
       IInv, TypeOK
  <2>2. tasks' = tasks /\ openFiles' = openFiles /\ mains = 0 /\ mains' = 0
    BY <1>5, <1>7, <1>8, <1>10, <2>1 DEF StartBody, StartRefused, StartEnter,
       CreateTask, CreateFails, StartNoMem, StartWoken, StartTimesOut,
       StartCancel, StartResult, MainHasFile, PlayPcs
  <2>. QED
    BY <1>3, <1>4, <2>2
<1>11. CASE StopBody
  <2>1. tasks' = tasks /\ openFiles' = openFiles /\ mains = 0 /\ mains' = 0
    BY <1>5, <1>7, <1>8, <1>11 DEF StopBody, StopInactive, StopEnter,
       StopWoken, StopTimesOut, StopGiveUp, StopResult, MainHasFile, PlayPcs
  <2>. QED
    BY <1>3, <1>4, <2>1
<1>12. CASE PlayBody
  <2>1. tasks' = tasks
    BY <1>5, <1>12 DEF PlayBody, PlayOpen, PlayOpenFails, PlayHeader,
       PlayRejects, PlaySpeaker, PlaySpeakerFails, PlayChunk, PlayEnds,
       PlayStop, PlayClose
  <2>2. openFiles' - openFiles = mains' - mains
    <3> USE <1>3 DEF mains, MainHasFile, PlayPcs
    <3>1. CASE PlayOpen BY <3>1 DEF PlayOpen
    <3>2. CASE PlayOpenFails BY <3>2 DEF PlayOpenFails
    <3>3. CASE PlayHeader BY <3>3 DEF PlayHeader
    <3>4. CASE PlayRejects BY <3>4 DEF PlayRejects
    <3>5. CASE PlaySpeaker BY <3>5 DEF PlaySpeaker
    <3>6. CASE PlaySpeakerFails BY <3>6 DEF PlaySpeakerFails
    <3>7. CASE PlayChunk BY <3>7 DEF PlayChunk
    <3>8. CASE PlayEnds BY <3>8 DEF PlayEnds
    <3>9. CASE PlayStop BY <3>9 DEF PlayStop
    <3>10. CASE PlayClose BY <3>10 DEF PlayClose
    <3>. QED
      BY <1>12, <3>1, <3>2, <3>3, <3>4, <3>5, <3>6, <3>7, <3>8, <3>9, <3>10
         DEF PlayBody
  <2>. QED
    BY <1>3, <1>4, <2>1, <2>2
<1>13. CASE StartClear \/ RecordNext \/ StopClear \/ PlayCall
  <2>1. tasks' = tasks /\ openFiles' = openFiles /\ mains = 0 /\ mains' = 0
    BY <1>5, <1>7, <1>8, <1>13 DEF StartClear, RecordNext, StopClear, PlayCall,
       MainHasFile, PlayPcs
  <2>. QED
    BY <1>3, <1>4, <2>1
<1>14. CASE LiveStart \/ LiveStop \/ Rx
  <2>1. tasks' = tasks /\ openFiles' = openFiles /\ mains' = mains
    BY <1>5, <1>6, <1>7, <1>8, <1>14 DEF LiveStart, LiveStop, Rx,
       RxTakesSpeaker, RxReleasesSpeaker, MainHasFile, PlayPcs
  <2>. QED
    BY <1>3, <1>4, <2>1
<1>15. ASSUME NEW w \in Workers, RecordTask(w)
       PROVE  openFiles' - openFiles = (tasks' - tasks) + (mains' - mains)
  <2>1. mains' = mains
    <3>1. UNCHANGED mpc
      BY <1>15 DEF RecordTask, OpenFile, OpenFails, WriteHeader, MicStart,
         CheckStop, Cancel, Abort, Activate, NotifyActive, Loop, ChunkSaved,
         ChunkFails, MicStop, RewriteHeader, CloseFile, Finish, GiveStart, GiveStop,
         DeleteSelf
    <3>. QED
      BY <3>1, <1>6
  <2>2. wpc[w] \notin {"give", "none"} =>
            (TaskHasFile <=> HasFile(w)) /\ (TaskHasFile' <=> HasFile(w)')
    <3>. SUFFICES ASSUME wpc[w] \notin {"give", "none"}
                  PROVE  (TaskHasFile <=> HasFile(w))
                         /\ (TaskHasFile' <=> HasFile(w)')
      OBVIOUS
    <3>1. \A v \in Workers \ {w} : ~Body(v) /\ Body(w)
      BY DEF IInv, TypeOK, RecorderInv, OneRecorder, Body, WorkerPcs
    <3>2. \A v \in Workers \ {w} : wpc'[v] = wpc[v]
      BY <1>15 DEF RecordTask, OpenFile, OpenFails, WriteHeader, MicStart,
         CheckStop, Cancel, Abort, Activate, NotifyActive, Loop, ChunkSaved,
         ChunkFails, MicStop, RewriteHeader, CloseFile, Finish, GiveStart, GiveStop,
         DeleteSelf, Goto, IInv, TypeOK
    <3>. QED
      BY <3>1, <3>2 DEF TaskHasFile, HasFile, Body, FilePcs
  <2>3. wpc[w] = "give" => tasks' = tasks /\ openFiles' = openFiles
    BY <1>15 DEF RecordTask, OpenFile, OpenFails, WriteHeader, MicStart,
       CheckStop, Cancel, Abort, Activate, NotifyActive, Loop, ChunkSaved,
       ChunkFails, MicStop, RewriteHeader, CloseFile, Finish, GiveStart, GiveStop,
       DeleteSelf, tasks, TaskHasFile, HasFile, FilePcs, BodyPcs, Goto, IInv, TypeOK
  <2>4. wpc[w] \notin {"give", "none"} =>
            openFiles' - openFiles = (IF HasFile(w)' THEN 1 ELSE 0)
                                     - (IF HasFile(w) THEN 1 ELSE 0)
    <3> USE <1>3, StorageAssumption DEF Goto, HasFile, FilePcs, BodyPcs, IInv, TypeOK
    <3>1. CASE OpenFile(w) BY <3>1 DEF OpenFile
    <3>2. CASE OpenFails(w) BY <3>2 DEF OpenFails
    <3>3. CASE WriteHeader(w) BY <3>3 DEF WriteHeader
    <3>4. CASE MicStart(w) BY <3>4 DEF MicStart
    <3>5. CASE CheckStop(w) BY <3>5 DEF CheckStop
    <3>6. CASE Cancel(w) BY <3>6 DEF Cancel
    <3>7. CASE Abort(w) BY <3>7 DEF Abort
    <3>8. CASE Activate(w) BY <3>8 DEF Activate
    <3>9. CASE NotifyActive(w) BY <3>9 DEF NotifyActive
    <3>10. CASE Loop(w) BY <3>10 DEF Loop
    <3>11. CASE ChunkSaved(w) BY <3>11 DEF ChunkSaved
    <3>12. CASE ChunkFails(w) BY <3>12 DEF ChunkFails
    <3>13. CASE MicStop(w) BY <3>13 DEF MicStop
    <3>14. CASE RewriteHeader(w) BY <3>14 DEF RewriteHeader
    <3>15. CASE CloseFile(w) BY <3>15 DEF CloseFile
    <3>16. CASE Finish(w) BY <3>16 DEF Finish
    <3>17. CASE GiveStart(w) BY <3>17 DEF GiveStart
    <3>18. CASE GiveStop(w) BY <3>18 DEF GiveStop
    <3>19. CASE DeleteSelf(w) BY <3>19 DEF DeleteSelf
    <3>. QED
      BY <1>15, <3>1, <3>2, <3>3, <3>4, <3>5, <3>6, <3>7, <3>8, <3>9,
         <3>10, <3>11, <3>12, <3>13, <3>14, <3>15, <3>16, <3>17, <3>18, <3>19
         DEF RecordTask
  <2>5. wpc[w] # "none"
    BY <1>15 DEF RecordTask, OpenFile, OpenFails, WriteHeader, MicStart,
       CheckStop, Cancel, Abort, Activate, NotifyActive, Loop, ChunkSaved,
       ChunkFails, MicStop, RewriteHeader, CloseFile, Finish, GiveStart, GiveStop,
       DeleteSelf
  <2>6. openFiles' - openFiles = tasks' - tasks
    <3>1. CASE wpc[w] = "give"
      BY <1>3, <1>4, <2>3, <3>1
    <3>2. CASE wpc[w] # "give"
      BY <2>2, <2>4, <2>5, <3>2 DEF tasks
    <3>. QED
      BY <3>1, <3>2
  <2>. QED
    BY <1>3, <1>4, <2>1, <2>6
<1>16. CASE UNCHANGED vars
  <2>1. tasks' = tasks /\ mains' = mains /\ openFiles' = openFiles
    BY <1>5, <1>6, <1>16 DEF vars
  <2>. QED
    BY <1>3, <1>4, <2>1
<1>. QED
  BY <1>9, <1>10, <1>11, <1>12, <1>13, <1>14, <1>15, <1>16 DEF Next, InCall

\* Every way out of a recording and of a playback, failures included, closes what it
\* has opened, but for the one that HandlesAccounted names.
THEOREM HandlesBalance == Spec => HandlesAccounted
<1>1. IInv /\ [Next]_vars =>
        [openFiles' - Holders' # openFiles - Holders =>
             mpc = "play_speaker" /\ mpc' = "idle"]_vars
  BY HandleStep
<1>. QED
  BY <1>1, Invariance, PTL DEF Spec, HandlesAccounted

-----------------------------------------------------------------------------
(* What StopReachesRest rests on besides fairness: a recording that was asked *)
(* to stop has only so many steps of its task left, and nobody adds to them.  *)

\* The steps of the record task before record_finish has been done, when a stop
\* is requested, by the place the task is at.
ToRest(w) ==
    CASE wpc[w] \in {"open", "activate"}                    -> 7
      [] wpc[w] \in {"header", "notify_active", "chunk"}    -> 6
      [] wpc[w] \in {"mic_start", "loop"}                   -> 5
      [] wpc[w] \in {"check", "mic_stop"}                   -> 4
      [] wpc[w] \in {"cancel", "rewrite"}                   -> 3
      [] wpc[w] \in {"abort", "close"}                      -> 2
      [] wpc[w] = "finish"                                  -> 1
      [] OTHER                                              -> 0

\* What a step does to a recording of w that was asked to stop: the recorder
\* comes to rest, or the request stands, and a step of w has brought it nearer.
TowardsRest(w) ==
    \/ ~record_is_active'
    \/ /\ s_record_stop_requested' /\ Body(w)'
       /\ IF RecordTask(w) THEN ToRest(w)' < ToRest(w)
                           ELSE ToRest(w)' = ToRest(w)

\* A step that leaves the request and the place of w alone and is not w's.
LEMMA OthersWait ==
    ASSUME NEW w \in Workers, Body(w), ~RecordTask(w),
           s_record_stop_requested', wpc'[w] = wpc[w]
    PROVE  TowardsRest(w)
<1>1. ToRest(w)' = ToRest(w) BY DEF ToRest
<1>2. Body(w)' BY DEF Body
<1> QED BY <1>1, <1>2 DEF TowardsRest

\* A step of w itself.
LEMMA TaskGetsOn ==
    ASSUME IInv, NEW w \in Workers, RecordTask(w), Body(w),
           s_record_stop_requested
    PROVE  TowardsRest(w)
<1> USE DEF IInv, TypeOK, FlagsOK, Body, BodyPcs, WorkerPcs, ToRest,
    TowardsRest, record_stop_requested, Goto, Fail, flags, waiters, result,
    shared, disk, sound, main, worker
<1>1. CASE OpenFile(w) BY <1>1 DEF OpenFile
<1>2. CASE OpenFails(w) BY <1>2 DEF OpenFails
<1>3. CASE WriteHeader(w) BY <1>3 DEF WriteHeader
<1>4. CASE MicStart(w) BY <1>4 DEF MicStart
<1>5. CASE CheckStop(w) BY <1>5 DEF CheckStop
<1>6. CASE Cancel(w) BY <1>6 DEF Cancel
<1>7. CASE Abort(w) BY <1>7 DEF Abort
<1>8. CASE Activate(w)
  <2>1. wpc[w] = "activate" /\ wpc'[w] \in {"loop", "notify_active"}
    BY <1>8 DEF Activate
  <2>2. CASE s_record_start_cancel_requested
    BY <1>8, <2>1, <2>2 DEF Activate
  <2>3. CASE ~s_record_start_cancel_requested
    <3>1. s_record_stop_requested' = s_record_stop_requested
      BY <1>8, <2>3 DEF Activate
    <3> QED BY <2>1, <3>1
  <2> QED BY <2>2, <2>3
<1>9. CASE NotifyActive(w) BY <1>9 DEF NotifyActive
<1>10. CASE Loop(w) BY <1>10 DEF Loop
<1>11. CASE ChunkSaved(w) BY <1>11 DEF ChunkSaved
<1>12. CASE ChunkFails(w) BY <1>12 DEF ChunkFails
<1>13. CASE MicStop(w) BY <1>13 DEF MicStop
<1>14. CASE RewriteHeader(w) BY <1>14 DEF RewriteHeader
<1>15. CASE CloseFile(w) BY <1>15 DEF CloseFile
<1>16. CASE Finish(w) BY <1>16 DEF Finish, record_is_active
<1>17. CASE GiveStart(w) \/ GiveStop(w) \/ DeleteSelf(w)
  BY <1>17 DEF GiveStart, GiveStop, DeleteSelf
<1> QED BY <1>1, <1>2, <1>3, <1>4, <1>5, <1>6, <1>7, <1>8, <1>9, <1>10, <1>11,
    <1>12, <1>13, <1>14, <1>15, <1>16, <1>17 DEF RecordTask

\* Every step: Main cannot withdraw a stop while a task is at work (only a new
\* start clears the flag, and the recorder is active), and another record task
\* can only be on its way out (RecorderInv).
LEMMA TowardsRestStep ==
    ASSUME IInv, [Next]_vars, NEW w \in Workers, Body(w),
           s_record_stop_requested
    PROVE  TowardsRest(w)
<1>1. CASE RecordTask(w) BY <1>1, TaskGetsOn
<1>2. ASSUME ~RecordTask(w),
             s_record_stop_requested' /\ wpc'[w] = wpc[w]
      PROVE  TowardsRest(w)
  BY <1>2, OthersWait
<1>3. ASSUME ~RecordTask(w)
      PROVE  s_record_stop_requested' /\ wpc'[w] = wpc[w]
  <2>1. SomeBody /\ record_is_active BY DEF SomeBody, IInv, RecorderInv
  <2> USE DEF flags, waiters, result, shared, disk, sound, main, worker
  <2>2. CASE Boot BY <2>2 DEF Boot, BusFailed, MountSucceeds, MountFails
  <2>3. CASE StartBody
    <3>1. ~StartEnter BY <2>1 DEF StartEnter
    <3>2. ASSUME NEW v \in Workers, CreateTask(v) PROVE FALSE
      BY <3>2, <2>1 DEF CreateTask, IInv, RecorderInv
    <3> QED BY <2>3, <3>1, <3>2 DEF StartBody, StartRefused, CreateFails,
        StartNoMem, StartWoken, StartTimesOut, StartCancel, StartResult
  <2>4. CASE StopBody BY <2>4 DEF StopBody, StopInactive, StopEnter, StopWoken,
      StopTimesOut, StopGiveUp, StopResult
  <2>5. CASE PlayBody
    BY <2>5 DEF PlayBody, PlayOpen, PlayOpenFails, PlayHeader, PlayRejects,
       PlaySpeaker, PlaySpeakerFails, PlayChunk, PlayEnds, PlayStop, PlayClose
  <2>6. CASE StartClear \/ RecordNext \/ StopClear \/ PlayCall \/ LiveStart
             \/ LiveStop \/ Rx
    BY <2>6 DEF StartClear, RecordNext, StopClear, PlayCall, LiveStart,
       LiveStop, Rx, RxTakesSpeaker, RxReleasesSpeaker
  <2>7. ASSUME NEW v \in Workers, RecordTask(v), v # w
        PROVE  s_record_stop_requested' /\ wpc'[w] = wpc[w]
    <3>1. ~Body(v) BY <2>7 DEF IInv, RecorderInv, OneRecorder
    <3>2. GiveStart(v) \/ GiveStop(v) \/ DeleteSelf(v)
      BY <2>7, <3>1 DEF Body, BodyPcs, RecordTask, OpenFile, OpenFails,
         WriteHeader, MicStart, CheckStop, Cancel, Abort, Activate,
         NotifyActive, Loop, ChunkSaved, ChunkFails, MicStop, RewriteHeader,
         CloseFile, Finish
    <3> QED BY <2>7, <3>2 DEF GiveStart, GiveStop, DeleteSelf, Goto, IInv,
        TypeOK
  <2>8. CASE UNCHANGED vars BY <2>8 DEF vars
  <2> QED BY <1>3, <2>2, <2>3, <2>4, <2>5, <2>6, <2>7, <2>8 DEF Next, InCall
<1> QED BY <1>1, <1>2, <1>3

\* A recording that was asked to stop is at most seven steps of its task away
\* from record_finish, the request cannot be lost on the way, no step of
\* anybody takes it further away, and each of its own brings it nearer.
THEOREM StopsGetOn ==
    Spec => /\ [](\A w \in Workers : Body(w) => ToRest(w) \in 1..7)
            /\ [][\A w \in Workers :
                     Body(w) /\ s_record_stop_requested => TowardsRest(w)]_vars
<1>1. IInv => \A w \in Workers : Body(w) => ToRest(w) \in 1..7
  BY DEF Body, BodyPcs, ToRest
<1>2. IInv /\ [Next]_vars =>
        [\A w \in Workers :
            Body(w) /\ s_record_stop_requested => TowardsRest(w)]_vars
  BY TowardsRestStep
<1> QED BY <1>1, <1>2, Invariance, PTL DEF Spec
==============================================================================
