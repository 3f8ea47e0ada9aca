--------------------------------- MODULE SdIo ---------------------------------
(***************************************************************************)
(* components/sdmmc/sdmmc_io.c, the calls that move data of an IO card: one  *)
(* byte with CMD52, bytes or blocks with CMD53, the interrupt line, and the  *)
(* reading of the card's information structure (CIS).  One command is one    *)
(* step; a byte transfer is split in two where its size is no multiple of a   *)
(* word, the CIS is read in chunks.                                         *)
(*                                                                         *)
(* The card is external: it may fail any command after any number of bytes,  *)
(* and its CIS may hold any bytes.  What a transfer moved is kept as a        *)
(* history of pairs, a byte of the caller's buffer and the card's register.  *)
(* The function number, which is only passed on, the values of the bytes      *)
(* moved, what a failed read leaves in the caller's buffer, and the printing  *)
(* of the CIS are left out.                                                 *)
(***************************************************************************)
EXTENDS Integers, Sequences, SequencesExt

CONSTANTS
    BounceBuffers,  \* is card->host.dma_aligned_buffer allocated: SUBSET BOOLEAN
    IoWord,         \* 4: sizes are split at multiples of it
    IoBlock,        \* 512: SDMMC_IO_BLOCK_SIZE
    CountMod,       \* 2^9: range of a CMD53 count
    RegMod,         \* 2^17: range of a register address
    IoAddrs, IoSizes, \* inputs: addresses and sizes asked for
    CisPart,        \* 32: CIS_GET_MINIMAL_SIZE
    Codes,          \* 0..255: what a byte of the CIS holds
    End,            \* 0xff: CISTPL_CODE_END
    MaxCis,         \* bound: bytes of CIS the card answers with
    CisSizes, CisLimits, \* inputs: buffer_size and *inout_cis_size
    MaxIoCalls      \* bound: calls

\* IoAddrs leaves the wrap of register addresses to the card's documentation.
ASSUME SdIoAssumption ==
    /\ IoWord \in Nat \ {0} /\ IoBlock \in Nat \ {0} /\ IoBlock % IoWord = 0
    /\ CountMod \in Nat /\ IoBlock <= CountMod
    /\ CisPart \in Nat \ {0} /\ CisPart % IoWord = 0 /\ CisPart <= IoBlock
    /\ RegMod \in Nat \ {0} /\ IoAddrs \subseteq Nat /\ IoSizes \subseteq Nat
    /\ \A a \in IoAddrs : a < RegMod /\ \A n \in IoSizes : a + n <= RegMod
    /\ Codes \subseteq Nat /\ End \in Codes
    /\ MaxCis \in Nat /\ CisSizes \subseteq Nat /\ CisLimits \subseteq Nat
    /\ BounceBuffers \subseteq BOOLEAN /\ MaxIoCalls \in Nat

VARIABLES
    bounce,          \* is there an aligned buffer to go through
    ioPc, ioReq,     \* the running call and its arguments
    left, at,        \* sdmmc_io_*_bytes: size and addr of what is left
    moved,           \* history: bytes moved, in order
    endless,         \* the card waits for data without end
    ioRet, ioCalls,  \* what the last call returned; calls made
    cis,             \* what has been read of the CIS; its length is buffer_offset
    cursor,          \* cur_cis_offset
    out, cisSize     \* sdmmc_io_get_cis_data: *out_buffer and *inout_cis_size

moveVars == <<left, at, moved, endless>>
cisVars == <<cis, cursor, out, cisSize>>
ioVars == <<bounce, ioPc, ioReq, ioRet, ioCalls, moveVars, cisVars>>

IoOps == {"byte", "bytes", "blocks", "int", "cis"}
IoRequest(op, a, n) ==
    [op |-> op, addr |-> a, size |-> n, fixed |-> FALSE, aligned |-> TRUE,
     limit |-> 0]

SdIoInit ==
    /\ bounce \in BounceBuffers
    /\ ioPc = "idle" /\ ioReq = IoRequest("int", 0, 0) /\ ioRet = "ok" /\ ioCalls = 0
    /\ left = 0 /\ at = 0 /\ moved = <<>> /\ endless = FALSE
    /\ cis = <<>> /\ cursor = 0 /\ out = <<>> /\ cisSize = 0

IoReturn(e) == ioPc' = "idle" /\ ioRet' = e

IoBegin(r, p) ==
    /\ ioPc = "idle" /\ ioCalls < MaxIoCalls
    /\ ioCalls' = ioCalls + 1 /\ ioReq' = r /\ ioPc' = p
    /\ left' = r.size /\ at' = r.addr /\ moved' = <<>>
    /\ cis' = <<>> /\ cursor' = 0 /\ out' = <<>> /\ cisSize' = r.limit
    /\ UNCHANGED <<bounce, endless, ioRet>>

-----------------------------------------------------------------------------
(* sdmmc_io_rw_direct, sdmmc_io_rw_extended: one command *)

\* n bytes of the buffer, from the one the call has got to, at register a onwards.
Bytes(n, a) ==
    [k \in 1..n |-> [byte |-> Len(moved) + k - 1,
                     reg |-> (a + IF ioReq.fixed THEN 0 ELSE k - 1) % RegMod]]

\* The command is sent, and the card moves all n bytes or some and fails.
Moves(n, a) == moved' = moved \o Bytes(n, a)

Direct ==
    /\ ioPc = "byte"
    /\ \/ ~endless /\ Moves(1, at) /\ IoReturn("ok")
       \/ UNCHANGED moved /\ IoReturn("error")
    /\ UNCHANGED <<bounce, ioReq, ioCalls, left, at, endless, cisVars>>

BlockMode == ioReq.op = "blocks"

\* Why a transfer of n bytes is refused before the command, if it is.
Refusal(n) ==
    CASE n > 0 /\ ~ioReq.aligned /\ (n > IoBlock \/ ~bounce) -> "invalid_arg"
      [] IF BlockMode THEN n % IoBlock # 0 ELSE n > IoBlock -> "invalid_size"
      [] OTHER -> "none"

Count(n) ==
    (IF BlockMode THEN n \div IoBlock ELSE IF n = IoBlock THEN 0 ELSE n) % CountMod

\* How many bytes the card takes the command for; a block count of 0 has no end.
Endless(n) == BlockMode /\ Count(n) = 0
Expected(n) ==
    IF Endless(n) THEN n
    ELSE IF BlockMode THEN Count(n) * IoBlock
    ELSE IF Count(n) = 0 THEN IoBlock ELSE Count(n)

\* CMD53 for n bytes; the card moves what it was told, and less when it fails.
Extended(n, ok) ==
    /\ ok => ~endless /\ Expected(n) = n
    /\ \E k \in 0..n :
         /\ IF ok THEN k = n ELSE k <= Expected(n)
         /\ endless => k = 0
         /\ Moves(k, at)
    /\ endless' = (endless \/ Endless(n))

-----------------------------------------------------------------------------
(* sdmmc_io_read_byte, _write_byte, _read_bytes, _write_bytes, _read_blocks,
   _write_blocks, _enable_int, _wait_int *)

\* The part that is sent next: whole words first, then what remains.
Part == IF left >= IoWord THEN left - (left % IoWord) ELSE left

\* Mutant: the second part goes to the address of the first.
NextAt_Same == at

NextAt == IF ioReq.fixed THEN at ELSE at + Part

BytesDone ==
    /\ ioPc = "bytes" /\ left = 0
    /\ IoReturn("ok")
    /\ UNCHANGED <<bounce, ioReq, ioCalls, moveVars, cisVars>>

BytesRefused ==
    /\ ioPc = "bytes" /\ left > 0 /\ Refusal(Part) # "none"
    /\ IoReturn(Refusal(Part))
    /\ UNCHANGED <<bounce, ioReq, ioCalls, moveVars, cisVars>>

BytesPart ==
    /\ ioPc = "bytes" /\ left > 0 /\ Refusal(Part) = "none"
    /\ \/ /\ Extended(Part, TRUE)
          /\ left' = left - Part /\ at' = NextAt
          /\ UNCHANGED <<ioPc, ioRet>>
       \/ Extended(Part, FALSE) /\ IoReturn("error") /\ UNCHANGED <<left, at>>
    /\ UNCHANGED <<bounce, ioReq, ioCalls, cisVars>>

\* An unaligned buffer is refused before its size is looked at, also one of size 0.
MoveBlocks ==
    /\ ioPc = "blocks"
    /\ IF ~ioReq.aligned
       THEN IoReturn("invalid_arg") /\ UNCHANGED moveVars
       ELSE IF Refusal(left) # "none"
       THEN IoReturn(Refusal(left)) /\ UNCHANGED moveVars
       ELSE /\ \E ok \in BOOLEAN :
                 Extended(left, ok) /\ IoReturn(IF ok THEN "ok" ELSE "error")
            /\ UNCHANGED <<left, at>>
    /\ UNCHANGED <<bounce, ioReq, ioCalls, cisVars>>

IoInterrupt ==  \* the host driver may have no such function
    /\ ioPc = "int"
    /\ \E e \in {"ok", "not_supported", "timeout"} : IoReturn(e)
    /\ UNCHANGED <<bounce, ioReq, ioCalls, moveVars, cisVars>>

-----------------------------------------------------------------------------
(* sdmmc_io_get_cis_data *)

\* check_tuples_in_buffer, from the code of the tuple at each offset.
Walks(buf) ==
    LET walk[o \in Nat] ==
          IF o < CisPart /\ buf[o + 1] = End THEN [found |-> TRUE, offset |-> o + 1]
          ELSE IF o + 1 < CisPart THEN walk[o + buf[o + 2] + 2]
          ELSE [found |-> FALSE, offset |-> o]
    IN  walk

\* Mutant: a tuple whose length is in the next chunk is not skipped.
Walk_NoSplit(buf, offset) == Walks(buf)[IF offset = -1 THEN 0 ELSE offset]

\* An offset of -1: the code was the last byte of the chunk before.
Walk(buf, offset) == Walks(buf)[IF offset = -1 THEN buf[1] + 1 ELSE offset]

CisAddress ==  \* CISTPL pointer in the CCCR
    /\ ioPc = "cis_address"
    /\ \/ ~endless /\ ioPc' = "cis" /\ UNCHANGED ioRet
       \/ \E e \in {"error", "invalid_response"} : IoReturn(e)
    /\ UNCHANGED <<bounce, ioReq, ioCalls, moveVars, cisVars>>

CisFails ==
    /\ ioPc = "cis" /\ IoReturn("error")
    /\ UNCHANGED <<bounce, ioReq, ioCalls, moveVars, cisVars>>

CisChunk ==
    /\ ioPc = "cis" /\ Len(cis) + CisPart <= MaxCis
    /\ \E buf \in [1..CisPart -> Codes] :
         LET w == Walk(buf, cursor - Len(cis))
             copy == Min({IF w.found THEN w.offset ELSE CisPart,
                          ioReq.size - Len(cis)})
         IN  /\ cis' = cis \o buf
             /\ cursor' = Len(cis) + w.offset
             /\ out' = out \o SubSeq(buf, 1, copy)
             /\ cisSize' = IF w.found THEN cursor' ELSE cisSize
             /\ IF w.found
                THEN IoReturn(IF cursor' > ioReq.size THEN "invalid_size" ELSE "ok")
                ELSE IF ioReq.limit = 0 \/ Len(cis') < ioReq.limit
                THEN UNCHANGED <<ioPc, ioRet>>
                ELSE IoReturn("not_found")
    /\ UNCHANGED <<bounce, ioReq, ioCalls, moveVars>>

-----------------------------------------------------------------------------
IoCall ==
    \/ \E a \in IoAddrs : IoBegin(IoRequest("byte", a, 1), "byte")
    \/ \E op \in {"bytes", "blocks"}, a \in IoAddrs, n \in IoSizes :
         \E f, al \in BOOLEAN :
           IoBegin([IoRequest(op, a, n) EXCEPT !.fixed = f, !.aligned = al], op)
    \/ IoBegin(IoRequest("int", 0, 0), "int")
    \/ \E n \in CisSizes, l \in CisLimits :
         IoBegin([IoRequest("cis", 0, n) EXCEPT !.limit = l], "cis_address")

SdIoNext ==
    \/ IoCall \/ Direct \/ BytesDone \/ BytesRefused \/ BytesPart \/ MoveBlocks
    \/ IoInterrupt \/ CisAddress \/ CisFails \/ CisChunk

SdIoSpec == SdIoInit /\ [][SdIoNext]_ioVars

-----------------------------------------------------------------------------
(* Properties *)

\* Every variable stays within its type: those of a transfer, those of the CIS.
MoveTypeOK ==
    /\ bounce \in BOOLEAN /\ endless \in BOOLEAN /\ ioCalls \in 0..MaxIoCalls
    /\ ioPc \in {"idle", "byte", "bytes", "blocks", "int", "cis_address", "cis"}
    /\ ioRet \in {"ok", "error", "timeout", "invalid_arg", "invalid_size",
                  "invalid_response", "not_found", "not_supported"}
    /\ ioReq \in [op : IoOps, addr : Nat, size : Nat, fixed : BOOLEAN,
                  aligned : BOOLEAN, limit : Nat]
    /\ left \in 0..ioReq.size /\ at \in 0..RegMod
    /\ moved \in Seq([byte : Nat, reg : 0..RegMod - 1])

CisTypeOK ==
    /\ cis \in Seq(Codes) /\ Len(cis) <= MaxCis /\ out \in Seq(Codes)
    /\ cursor \in Nat /\ cisSize \in Nat

Wanted ==
    [k \in 1..ioReq.size |->
        [byte |-> k - 1, reg |-> ioReq.addr + IF ioReq.fixed THEN 0 ELSE k - 1]]

Moving == ioReq.op \in {"byte", "bytes", "blocks"}

\* However a transfer is split, refused or broken off, what it has moved is a prefix
\* of the caller's bytes, each once and at its own register; ESP_OK means all of them.
\* A call that was refused has moved nothing.
IoMovesInOrder ==
    Moving =>
        /\ IsPrefix(moved, Wanted)
        /\ ioPc = "idle" /\ ioRet = "ok" => moved = Wanted
        /\ ioPc = "idle" /\ ioRet \in {"invalid_arg", "invalid_size"} => moved = <<>>

\* Where the tuple chain of bytes b ends that goes on at each offset, after its
\* CISTPL_CODE_END; 0 if it does not.
ChainEnds(b) ==
    LET end[o \in Nat] ==
          IF o >= Len(b) THEN 0
          ELSE IF b[o + 1] = End THEN o + 1
          ELSE IF o + 1 >= Len(b) THEN 0 ELSE end[o + b[o + 2] + 2]
    IN  end

ChainEnd(b) == ChainEnds(b)[0]

\* Types, and the bytes of a transfer in order.
IoInv == MoveTypeOK /\ IoMovesInOrder

\* Read in chunks, the CIS is what it is read as a whole: its size is reported where
\* the chain of tuples ends, wherever a chunk cuts a tuple, as much of it as fits is
\* in the caller's buffer, and no chunk is read after the one with its end.
CisReadWhole ==
    LET e == ChainEnd(cis)
        fits(n) == out = SubSeq(cis, 1, Min({n, ioReq.size}))
    IN  /\ CisTypeOK
        /\ ioReq.op = "cis" =>
            /\ ioPc = "cis" => e = 0 /\ fits(Len(cis))
            /\ ioPc = "idle" /\ ioRet \in {"ok", "invalid_size"} =>
                  /\ e > Len(cis) - CisPart /\ cisSize = e /\ fits(e)
                  /\ (ioRet = "ok") = (e <= ioReq.size)
            /\ ioPc = "idle" /\ ioRet = "not_found" =>
                  e = 0 /\ Len(cis) >= ioReq.limit /\ ioReq.limit > 0
===============================================================================
