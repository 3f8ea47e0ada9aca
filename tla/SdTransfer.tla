------------------------------ MODULE SdTransfer ------------------------------
(***************************************************************************)
(* components/sdmmc, the calls that move data once a card is up: reading,   *)
(* writing and erasing sectors (sdmmc_cmd.c) and waiting for the card       *)
(* (sdmmc_wait_for_idle of sdmmc_common.c).  FatFs issues one call at a     *)
(* time, so the actors are the running call and the card, which programs    *)
(* the blocks it has accepted at its own pace.                             *)
(*                                                                         *)
(* The card is external.  It takes a data or erase command only in its      *)
(* transfer state, when nothing is left to program; it may refuse any       *)
(* command, take only the first blocks of a write, and fail to program what  *)
(* it took.  On an SPI bus it is busy until it has programmed, and no other  *)
(* command gets through before; otherwise its state must be polled.         *)
(*                                                                         *)
(* A block of the caller's buffer is named by the call it belongs to and by *)
(* the sector it is meant for, so that a block in a wrong place shows.      *)
(* Buffer allocation, whose failure returns before any command, the CMD38   *)
(* timeout and log output are left out.                                    *)
(***************************************************************************)
EXTENDS Integers, Sequences

CONSTANTS
    Cards,          \* the cards and the buses they may be on, see CardType
    Capacity,       \* card->csd.capacity, in sectors
    BlockSize,      \* card->csd.sector_size
    WordMod,        \* 2^32: range of size_t and of a command's argument
    MaxCount,       \* bound: sectors in a call
    MaxCalls        \* bound: calls

\* spi: host_is_spi; mmc: card->is_mmc; sdhc: SD_OCR_SDHC_CAP in card->ocr, addresses
\* count sectors; discard, trim, sanitize: offered in card->ssr or card->ext_csd;
\* clears: the card forgets a failure once it has reported it.
CardType == [spi : BOOLEAN, mmc : BOOLEAN, sdhc : BOOLEAN, discard : BOOLEAN,
             trim : BOOLEAN, sanitize : BOOLEAN, clears : BOOLEAN]

\* FatFs asks for sectors near the card's, never near 2^32; sdmmc_init_csd limits
\* what a byte-addressed card offers; MMC cards are not supported on SPI.
ASSUME XferAssumption ==
    /\ Capacity \in Nat \ {0} /\ BlockSize \in Nat \ {0}
    /\ MaxCount \in Nat /\ MaxCalls \in Nat
    /\ WordMod \in Nat /\ Capacity + MaxCount < WordMod
    /\ Cards \subseteq CardType
    /\ \A c \in Cards : ~(c.spi /\ c.mmc)
    /\ \A c \in Cards : ~c.sdhc => Capacity * BlockSize <= WordMod

VARIABLES
    card,            \* the card in the slot
    pc, req, i,      \* the running call: its step, its arguments, its block
    err, status,     \* sdmmc_*_sectors_dma: what the command and CMD13 returned
    dst,             \* what a read has put into the caller's buffer
    ret, calls,      \* what the last call returned; calls made
    mem, unmapped,   \* the card: its sectors; those discarded but still there
    buffered,        \* blocks accepted and not yet programmed
    failed,          \* the error bits of the card's status
    unseen,          \* history: a sign of failure in this call that the host lost
    group            \* the sectors named by ERASE_GROUP_START and _END

hostVars == <<pc, req, i, err, status, dst, ret, calls>>
cardVars == <<card, mem, unmapped, buffered, failed, unseen, group>>
xferVars == <<hostVars, cardVars>>

Spi == card.spi
Mmc == card.mmc
Sdhc == card.sdhc

Sectors == 0..Capacity - 1
Blank == [call |-> 0, sector |-> 0]
Blocks == [call : 0..MaxCalls, sector : 0..Capacity + MaxCount]
Ops == {"write", "read", "erase", "full_erase", "sanitize"}
Requests == [op : Ops, start : 0..Capacity, count : 0..Capacity + MaxCount,
             aligned : BOOLEAN, arg : 0..3]
Pcs == {"idle", "cmd", "status", "failed", "poll", "verify", "group_start",
        "group_end", "erase", "erase_verify", "sanitize"}

XferInit ==
    /\ card \in Cards
    /\ pc = "idle" /\ i = 0 /\ err = FALSE /\ status = "unknown" /\ dst = <<>>
    /\ req = [op |-> "read", start |-> 0, count |-> 0, aligned |-> TRUE, arg |-> 0]
    /\ ret = "ok" /\ calls = 0
    /\ mem = [s \in Sectors |-> Blank] /\ unmapped = {} /\ buffered = {}
    /\ failed = FALSE /\ unseen = FALSE /\ group = <<0, 0>>

-----------------------------------------------------------------------------
(* Steps common to the calls *)

Goto(p) == pc' = p /\ UNCHANGED <<i, ret>>

Return(e) == pc' = "idle" /\ ret' = e /\ UNCHANGED i

\* An aligned buffer is moved in one command, any other block by block.
Chunk == IF req.aligned THEN req.count ELSE 1
First == req.start + i

LastBlock == req.aligned \/ i + 1 = req.count

BlockDone ==
    IF LastBlock
    THEN Return("ok")
    ELSE pc' = "cmd" /\ i' = i + 1 /\ UNCHANGED ret

\* Mutant: a failed block does not end the loop.
Fail_Goes(e) ==
    IF LastBlock
    THEN Return(e)
    ELSE pc' = "cmd" /\ i' = i + 1 /\ UNCHANGED ret

Fail(e) == Return(e)

\* The argument of a command for sector s, and the sector a card takes it for.
Argument(s) == IF Sdhc THEN s ELSE (s * BlockSize) % WordMod
Located(a) == IF Sdhc THEN a ELSE a \div BlockSize

Fits(s, n) == (s + n) % WordMod <= Capacity

\* Mutant: every command of a split transfer addresses the call's first sector.
Target_Start(k) == Located(Argument(req.start)) + k

\* Sector of the k-th block of the command.
Target(k) == Located(Argument(First)) + k

Source(k) == [call |-> calls, sector |-> req.start + k]

Transfers(n) == buffered = {} /\ \A k \in 0..n - 1 : Target(k) \in Sectors

CardStatus == IF failed THEN "error" ELSE IF buffered # {} THEN "busy" ELSE "ready"

\* SEND_STATUS (CMD13) answered with s.
Answered(s) ==
    /\ Spi => buffered = {}
    /\ s = CardStatus
    /\ failed' = (failed /\ ~card.clears)
    /\ UNCHANGED <<card, mem, unmapped, buffered, group>>

-----------------------------------------------------------------------------
(* The calls, up to their first command *)

Begin(r, p) ==
    /\ pc = "idle" /\ calls < MaxCalls
    /\ calls' = calls + 1 /\ req' = r /\ pc' = p /\ i' = 0 /\ dst' = <<>>
    /\ unseen' = FALSE
    /\ UNCHANGED <<err, status, ret, card, mem, unmapped, buffered, failed, group>>

Refuse(r, e) ==  \* returned without a command
    /\ pc = "idle" /\ calls < MaxCalls
    /\ calls' = calls + 1 /\ req' = r /\ ret' = e /\ dst' = <<>>
    /\ UNCHANGED <<pc, i, err, status, cardVars>>

ReadOrWrite(r) ==
    IF r.count = 0 THEN Refuse(r, "ok") ELSE Begin(r, "cmd")

\* The CMD38 argument for the argument of sdmmc_erase_sectors.
EraseCommand(arg) == IF arg = 0 THEN IF Mmc THEN 1 ELSE 0
                                ELSE IF Mmc THEN 3 ELSE 1
Discards == req.arg # 0

EraseSupported(arg) ==
    IF Mmc THEN (EraseCommand(arg) = 1 => card.trim) /\ (EraseCommand(arg) = 3 => card.discard)
           ELSE EraseCommand(arg) = 1 => ~Spi /\ card.discard

EraseSectors(r) ==
    IF r.count = 0 THEN Refuse(r, "ok")
    ELSE IF ~Fits(r.start, r.count) THEN Refuse(r, "invalid_size")
    ELSE IF ~EraseSupported(r.arg) THEN Refuse(r, "not_supported")
    ELSE Begin(r, "group_start")

FullEraseArg == IF Mmc THEN IF card.sanitize THEN 3 ELSE 1 ELSE 0

FullErase ==
    EraseSectors([op |-> "full_erase", start |-> 0, count |-> Capacity,
                  aligned |-> TRUE, arg |-> FullEraseArg])

SanitizeCall(r) ==
    IF Mmc /\ card.sanitize THEN Begin(r, "sanitize") ELSE Refuse(r, "not_supported")

Call ==
    \/ \E s \in 0..Capacity, n \in 0..MaxCount :
         \/ \E op \in {"write", "read"}, a \in BOOLEAN :
              ReadOrWrite([op |-> op, start |-> s, count |-> n, aligned |-> a,
                           arg |-> 0])
         \/ \E arg \in 0..1 :
              EraseSectors([op |-> "erase", start |-> s, count |-> n,
                            aligned |-> TRUE, arg |-> arg])
    \/ FullErase
    \/ SanitizeCall([op |-> "sanitize", start |-> 0, count |-> 0, aligned |-> TRUE,
                     arg |-> 0])

-----------------------------------------------------------------------------
(* sdmmc_write_sectors_dma, sdmmc_read_sectors_dma *)

OutOfRange ==
    /\ pc = "cmd" /\ ~Fits(First, Chunk)
    /\ Fail("invalid_size")
    /\ UNCHANGED <<req, err, status, dst, calls, cardVars>>

SendWrite ==  \* the card takes n blocks
    /\ pc = "cmd" /\ req.op = "write" /\ Fits(First, Chunk)
    /\ \E n \in 0..Chunk, ok \in BOOLEAN :
         /\ ok => n = Chunk
         /\ n > 0 => Transfers(n)
         /\ buffered' = buffered \cup
              {[at |-> Target(k), what |-> Source(i + k)] : k \in 0..n - 1}
         /\ err' = ~ok
         /\ failed' = (failed /\ n = 0)
    /\ status' = "unknown"
    /\ Goto("status")
    /\ UNCHANGED <<req, dst, calls, card, mem, unmapped, unseen, group>>

SendRead ==
    /\ pc = "cmd" /\ req.op = "read" /\ Fits(First, Chunk)
    /\ \/ /\ Transfers(Chunk)
          /\ dst' = dst \o [k \in 1..Chunk |-> mem[Target(k - 1)]]
          /\ err' = FALSE
       \/ err' = TRUE /\ UNCHANGED dst
    /\ status' = "unknown"
    /\ Goto("status")
    /\ UNCHANGED <<req, calls, cardVars>>

\* Mutant: on SPI a write is not checked.
AfterStatus_Unverified ==
    IF err THEN Goto("failed") ELSE IF ~Spi THEN Goto("poll") ELSE BlockDone

AfterStatus ==
    IF err THEN Goto("failed")
    ELSE IF ~Spi THEN Goto("poll")
    ELSE IF req.op = "write" THEN Goto("verify") ELSE BlockDone

SendStatus ==
    /\ pc = "status"
    /\ \/ Answered(status') /\ unseen' = (unseen \/ (failed /\ card.clears))
       \/ UNCHANGED <<status, cardVars>>  \* no answer: status stays 0
    /\ AfterStatus
    /\ UNCHANGED <<req, err, dst, calls>>

\* After a failed command: the wait for the card and the number of blocks it took
\* are only logged, and change nothing but the time.
Failed ==
    /\ pc = "failed"
    /\ Fail("error")
    /\ UNCHANGED <<req, err, status, dst, calls, cardVars>>

\* sdmmc_wait_for_idle.  A card that failed to program is ready again.
Ready == status \in {"ready", "error"}

PollReady ==
    /\ pc = "poll" /\ Ready
    /\ BlockDone
    /\ UNCHANGED <<req, err, status, dst, calls, cardVars>>

PollAgain ==
    /\ pc = "poll" /\ ~Ready
    /\ Answered(status')
    /\ UNCHANGED <<pc, req, i, err, dst, ret, calls, unseen>>

PollLost ==  \* CMD13 fails; the command's own err, which is ESP_OK, is returned
    /\ pc = "poll" /\ ~Ready
    /\ BlockDone
    /\ unseen' = TRUE
    /\ UNCHANGED <<req, err, status, dst, calls, card, mem, unmapped, buffered,
                   failed, group>>

\* Mutant: the wait has no deadline.
PollTimesOut_Never == FALSE /\ UNCHANGED xferVars

PollTimesOut ==
    /\ pc = "poll" /\ ~Ready
    /\ Fail("timeout")
    /\ UNCHANGED <<req, err, status, dst, calls, cardVars>>

Verify ==  \* SPI: the second SEND_STATUS, which decides
    /\ pc = "verify"
    /\ \/ /\ Answered(status') /\ UNCHANGED unseen
          /\ IF status' = "ready" THEN BlockDone ELSE Fail("error")
       \/ UNCHANGED <<status, cardVars>> /\ Fail("error")
    /\ UNCHANGED <<req, err, dst, calls>>

-----------------------------------------------------------------------------
(* sdmmc_erase_sectors, sdmmc_full_erase, sdmmc_mmc_sanitize *)

\* One of the two commands that name the group; n is its index in group.
NameGroup(here, n, s, there) ==
    /\ pc = here
    /\ \/ /\ buffered = {}
          /\ group' = [group EXCEPT ![n] = Argument(s)]
          /\ Goto(there)
       \/ UNCHANGED group /\ Return("error")
    /\ UNCHANGED <<req, err, status, dst, calls, card, mem, unmapped, buffered,
                   failed, unseen>>

GroupStart == NameGroup("group_start", 1, req.start, "group_end")

\* Mutant: the end is the sector after the last.
GroupEnd_Past == NameGroup("group_end", 2, req.start + req.count, "erase")

GroupEnd == NameGroup("group_end", 2, req.start + (req.count - 1), "erase")

Erased == Sectors \cap (Located(group[1])..Located(group[2]))

EraseDone ==  \* arg = SDMMC_MMC_DISCARD_ARG: the full erase goes on to sanitize
    IF req.op = "full_erase" /\ req.arg = 3 THEN Goto("sanitize") ELSE Return("ok")

Erase ==  \* the host waits for the end of busy; gone is what the card erases
    /\ pc = "erase"
    /\ \/ /\ buffered = {}
          /\ \E gone \in SUBSET Erased, ok \in BOOLEAN :
               /\ ok /\ ~Discards => gone = Erased
               /\ mem' = [s \in Sectors |-> IF s \in gone THEN Blank ELSE mem[s]]
               /\ unmapped' = (unmapped \cup (IF Discards THEN Erased ELSE {})) \ gone
               /\ failed' = ~ok
               /\ unseen' = (~ok /\ ~Spi)
          /\ IF Spi THEN Goto("erase_verify") ELSE EraseDone
       \/ Return("error") /\ UNCHANGED <<mem, unmapped, failed, unseen>>
    /\ UNCHANGED <<req, err, status, dst, calls, card, buffered, group>>

EraseVerify ==
    /\ pc = "erase_verify"
    /\ \/ /\ Answered(status') /\ UNCHANGED unseen
          /\ IF status' = "ready" THEN EraseDone ELSE Return("error")
       \/ UNCHANGED <<status, cardVars>> /\ Return("error")
    /\ UNCHANGED <<req, err, dst, calls>>

Sanitize ==
    /\ pc = "sanitize"
    /\ \/ /\ buffered = {}
          /\ mem' = [s \in Sectors |-> IF s \in unmapped THEN Blank ELSE mem[s]]
          /\ unmapped' = {} /\ Return("ok")
       \/ UNCHANGED <<mem, unmapped>> /\ Return("error")
    /\ UNCHANGED <<req, err, status, dst, calls, card, buffered, failed, unseen,
                   group>>

-----------------------------------------------------------------------------
(* The card, and the specification *)

Program ==
    /\ \E b \in buffered :
         /\ mem' = [mem EXCEPT ![b.at] = b.what]
         /\ unmapped' = unmapped \ {b.at}
         /\ buffered' = buffered \ {b}
    /\ UNCHANGED <<hostVars, card, failed, unseen, group>>

ProgramFails ==
    /\ buffered # {}
    /\ buffered' = {} /\ failed' = TRUE
    /\ unseen' = (unseen \/ ~Spi)  \* the host only looks at READY_FOR_DATA there
    /\ UNCHANGED <<hostVars, card, mem, unmapped, group>>

Transfer ==
    \/ OutOfRange \/ SendWrite \/ SendRead \/ SendStatus \/ Failed
    \/ PollReady \/ PollAgain \/ Verify
    \/ GroupStart \/ GroupEnd \/ Erase \/ EraseVerify \/ Sanitize

XferNext ==
    Call \/ Transfer \/ PollLost \/ PollTimesOut \/ Program \/ ProgramFails

XferSpec == XferInit /\ [][XferNext]_xferVars

-----------------------------------------------------------------------------
(* Properties *)

\* Every variable stays within its type.
XferTypeOK ==
    /\ card \in Cards /\ pc \in Pcs /\ req \in Requests /\ i \in 0..MaxCount /\ calls \in 0..MaxCalls
    /\ err \in BOOLEAN /\ status \in {"unknown", "busy", "ready", "error"}
    /\ ret \in {"ok", "error", "timeout", "invalid_size", "not_supported"}
    /\ dst \in Seq(Blocks) /\ Len(dst) <= MaxCount
    /\ mem \in [Sectors -> Blocks] /\ unmapped \subseteq Sectors
    /\ buffered \subseteq [at : Sectors, what : Blocks]
    /\ failed \in BOOLEAN /\ unseen \in BOOLEAN
    /\ group \in (0..WordMod - 1) \X (0..WordMod - 1)

Was(op) == pc = "idle" /\ req.op = op /\ ret = "ok"

\* A block only ever gets to the sector it was meant for: neither the split of an
\* unaligned write nor the byte addresses of a small card put it elsewhere.
RightPlace ==
    /\ \A s \in Sectors : mem[s] # Blank => mem[s].sector = s
    /\ \A b \in buffered : b.at = b.what.sector

\* Types, and every block in its place.
XferInv == XferTypeOK /\ RightPlace

\* A write that returned ESP_OK is on the card, all of it, unless the host lost the
\* sign of a failure: the wait's CMD13 went unanswered, programming failed on an SD
\* bus, or the first SEND_STATUS took an error bit and only the second is looked at.
OkMeansWritten ==
    Was("write") /\ ~unseen =>
        \A k \in 0..req.count - 1 : mem[req.start + k] = Source(k)

\* A read that returned ESP_OK delivered what the sectors hold, in order.
OkMeansRead ==
    Was("read") =>
        /\ Len(dst) = req.count
        /\ \A k \in 1..req.count : dst[k] = mem[req.start + k - 1]

\* A write that is split into blocks leaves a prefix on the card, whatever fails and
\* is noticed.
SplitLeavesPrefix ==
    (req.op = "write" /\ ~req.aligned /\ ~unseen) =>
        \A j, k \in 0..req.count - 1 :
            (j < k /\ req.start + k \in Sectors /\ mem[req.start + k] = Source(k))
                => mem[req.start + j] = Source(j)

\* A full erase that returned ESP_OK left no data on the card, but for an MMC without
\* sanitize, which is sent a discard, and an erase that failed on an SD bus.
FullEraseErases ==
    Was("full_erase") /\ ~unseen /\ (Mmc => card.sanitize) =>
        \A s \in Sectors : mem[s] = Blank

\* What a call that returned ESP_OK promises: written, read or erased.
OkMeansDone == OkMeansWritten /\ OkMeansRead /\ FullEraseErases

\* An erase changes no sector outside the range it was asked for.
EraseKeepsTheRest ==
    [][pc = "erase" =>
        \A s \in Sectors \ (req.start..req.start + req.count - 1) : mem'[s] = mem[s]]_xferVars

\* Every call returns, also when the card never becomes ready.
CallsReturn == (pc # "idle") ~> (pc = "idle")
==============================================================================
