--------------------------------- MODULE SdSlot --------------------------------
(***************************************************************************)
(* The slot of the SD/MMC host: it holds a memory card, which the calls of    *)
(* sdmmc_cmd.c read and write (SdTransfer), or an IO card, which those of      *)
(* sdmmc_io.c talk to (SdIo).  sdmmc_init_io decides which, from the answer    *)
(* to CMD5, and leaves it in card->is_mem and card->is_sdio.                *)
(***************************************************************************)
EXTENDS SdTransfer, SdIo

VARIABLE is_sdio

slotVars == <<is_sdio, xferVars, ioVars>>

SlotInit == is_sdio \in BOOLEAN /\ XferInit /\ SdIoInit
              /\ IF is_sdio THEN card = CHOOSE c \in Cards : TRUE
                            ELSE bounce = CHOOSE b \in BounceBuffers : TRUE

MemoryCalls == ~is_sdio /\ XferNext /\ UNCHANGED <<is_sdio, ioVars>>
IoCalls == is_sdio /\ SdIoNext /\ UNCHANGED <<is_sdio, xferVars>>

SlotNext == MemoryCalls \/ IoCalls

\* A call runs on, and 5 s pass for a wait.  Neither an unanswered CMD13 nor the end
\* of programming is promised.
SlotSpec ==
    /\ SlotInit /\ [][SlotNext]_slotVars
    /\ WF_slotVars(Transfer /\ UNCHANGED <<is_sdio, ioVars>>)
    /\ WF_slotVars(PollTimesOut /\ UNCHANGED <<is_sdio, ioVars>>)
===============================================================================
