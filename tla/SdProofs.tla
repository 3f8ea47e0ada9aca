-------------------------------- MODULE SdProofs --------------------------------
(***************************************************************************)
(* The transfers of the SD/MMC host, proved for every card, capacity, sector *)
(* size and number of calls: what a call that returned ESP_OK has done, where *)
(* its blocks are, and what a split or an erase leaves behind; and of the     *)
(* slot's IO card, that a transfer moves the caller's bytes in order, and     *)
(* that a CIS read in chunks is the CIS.  At the end, the steps a call has    *)
(* left are counted: a call can last only in a wait, or in a CIS without end. *)
(***************************************************************************)
EXTENDS SdSlot, SequenceTheorems, WellFoundedInduction, TLAPS

-----------------------------------------------------------------------------
(* The inductive invariant of the memory card's transfers *)

InTransfer == pc \in {"cmd", "status", "failed", "poll", "verify"}
InErase    == pc \in {"group_start", "group_end", "erase", "erase_verify"}

\* The command has been sent and was answered.
Sent == pc \in {"status", "poll", "verify"} /\ ~err

\* What is known of the arguments of the running call at each of its steps.
RequestOK ==
    /\ pc # "idle" => calls > 0
    /\ InTransfer => /\ req.op \in {"write", "read"}
                     /\ req.count \in 1..MaxCount /\ i < req.count
                     /\ req.aligned => i = 0
                     /\ pc # "cmd" => First + Chunk <= Capacity
    /\ pc = "verify" => req.op = "write" /\ Spi
    /\ pc = "poll" => ~Spi
    /\ pc \in {"poll", "verify"} => ~err
    /\ InErase => /\ req.op \in {"erase", "full_erase"}
                  /\ req.count > 0 /\ req.start + req.count <= Capacity
    /\ pc = "erase_verify" => Spi
    /\ pc = "sanitize" => \/ req.op = "sanitize"
                          \/ req.op = "full_erase" /\ req.arg = 3
    /\ req.op = "full_erase" =>
          req.start = 0 /\ req.count = Capacity /\ req.arg = FullEraseArg

\* No block of this call is with the card as long as one of an earlier call waits
\* there to be programmed; a card that has failed, or is ready, has none waiting.
CardOK ==
    /\ failed => buffered = {}
    /\ \A s \in Sectors : mem[s].call <= calls
    /\ \A b \in buffered : b.what.call \in 1..calls
    /\ \A b \in buffered : b.what.call # calls =>
          /\ \A s \in Sectors : mem[s].call # calls
          /\ \A c \in buffered : c.what.call # calls
    /\ pc = "status" => status = "unknown"
    /\ pc = "poll" /\ Ready => buffered = {}

\* The k-th block of this call is on the card, or waits there to be programmed.
Written(k) == req.start + k \in Sectors /\ mem[req.start + k] = Source(k)
Pending(k) == [at |-> req.start + k, what |-> Source(k)] \in buffered

\* What the host has been told of the blocks of a write is so.
WriteOK ==
    req.op = "write" /\ ~unseen =>
        /\ InTransfer => \A k \in 0..i - 1 : Written(k)
        /\ Sent => /\ failed => Spi
                   /\ failed \/ \A k \in i..i + Chunk - 1 : Written(k) \/ Pending(k)
        /\ ~req.aligned => \A k \in 0..req.count - 1 : Written(k) \/ Pending(k) =>
              k <= i /\ \A j \in 0..k - 1 : Written(j)
        /\ Was("write") => /\ \A k \in 0..req.count - 1 : Written(k)
                           /\ req.count > 0 => buffered = {}

\* What a read has put into the buffer is what the sectors hold.
ReadOK ==
    req.op = "read" =>
        /\ pc = "cmd" => Len(dst) = i
        /\ Sent => Len(dst) = i + Chunk
        /\ Was("read") => Len(dst) = req.count
        /\ \A k \in 1..Len(dst) : /\ req.start + k - 1 \in Sectors
                                  /\ dst[k] = mem[req.start + k - 1]
        /\ dst # <<>> => buffered = {}

AllErased == \A s \in Sectors : mem[s] = Blank \/ (Discards /\ s \in unmapped)

\* The group that is erased is the range asked for; a full erase leaves nothing but,
\* before sanitize, what was discarded.
EraseOK ==
    /\ InErase /\ pc # "group_start" => buffered = {}
    /\ pc \in {"group_end", "erase"} => group[1] = Argument(req.start)
    /\ pc = "erase" => group[2] = Argument(req.start + (req.count - 1))
    /\ req.op = "full_erase" /\ ~unseen =>
          /\ pc = "erase_verify" => failed \/ AllErased
          /\ pc = "sanitize" => AllErased /\ buffered = {}
          /\ Was("full_erase") /\ (Mmc => card.sanitize) =>
                buffered = {} /\ \A s \in Sectors : mem[s] = Blank

XferIInv ==
    /\ XferInv
    /\ RequestOK /\ CardOK
    /\ WriteOK /\ ReadOK /\ EraseOK

-----------------------------------------------------------------------------
(* Addresses *)

LEMMA ProductOrder ==
    ASSUME NEW a \in Nat, NEW b \in Nat, NEW c \in Nat \ {0}, a < b
    PROVE  a * c \in Nat /\ a * c < b * c
OBVIOUS

LEMMA DivOfProduct ==
    ASSUME NEW a \in Nat, NEW c \in Nat \ {0}
    PROVE  (a * c) \div c = a
OBVIOUS

LEMMA SmallMod ==
    ASSUME NEW m \in Nat, NEW n \in Nat, n < m
    PROVE  n % m = n
OBVIOUS

\* The card takes the argument of a command for the sector it was made from, also
\* where it counts bytes: a byte-addressed card ends below 2^32.
LEMMA Addressing ==
    ASSUME card \in Cards, NEW s \in Sectors
    PROVE  Located(Argument(s)) = s /\ Argument(s) \in 0..WordMod - 1
<1>1. /\ s \in Nat /\ s < Capacity /\ BlockSize \in Nat \ {0}
      /\ Capacity \in Nat \ {0} /\ WordMod \in Nat /\ Capacity < WordMod
  BY XferAssumption DEF Sectors
<1>2. CASE Sdhc BY <1>1, <1>2 DEF Located, Argument
<1>3. CASE ~Sdhc
  <2>1. Capacity * BlockSize <= WordMod BY <1>3, XferAssumption DEF Sdhc
  <2>2. s * BlockSize \in Nat /\ s * BlockSize < Capacity * BlockSize
    BY <1>1, ProductOrder
  <2>3. Capacity * BlockSize \in Nat BY <1>1
  <2>4. (s * BlockSize) % WordMod = s * BlockSize
    BY <1>1, <2>1, <2>2, <2>3, SmallMod
  <2>5. (s * BlockSize) \div BlockSize = s BY <1>1, DivOfProduct
  <2>6. s * BlockSize \in 0..WordMod - 1 BY <1>1, <2>1, <2>2, <2>3
  <2> QED BY <1>3, <2>4, <2>5, <2>6 DEF Located, Argument
<1> QED BY <1>2, <1>3

\* Below 2^32 nothing wraps around, and the check of a range means what it says.
LEMMA FitsMeans ==
    ASSUME NEW s \in Nat, NEW n \in Nat, s + n <= Capacity + MaxCount
    PROVE  Fits(s, n) <=> s + n <= Capacity
BY XferAssumption, SmallMod DEF Fits

\* The running transfer's place in the call.
LEMMA ChunkOK ==
    ASSUME XferIInv, InTransfer
    PROVE  /\ i \in Nat /\ req.start \in Nat /\ req.count \in Nat /\ Capacity \in Nat
           /\ Chunk \in 1..MaxCount /\ i + Chunk <= req.count
           /\ LastBlock <=> i + Chunk = req.count
           /\ ~LastBlock => Chunk = 1
           /\ First = req.start + i /\ First \in Nat
           /\ Fits(First, Chunk) <=> First + Chunk <= Capacity
<1> USE XferAssumption
<1>1. /\ req.start \in 0..Capacity /\ req.count \in 1..MaxCount /\ i \in 0..MaxCount
      /\ i < req.count /\ req.aligned \in BOOLEAN /\ (req.aligned => i = 0)
  BY DEF XferIInv, XferInv, XferTypeOK, Requests, RequestOK
<1>2. CASE req.aligned
  <2>1. Chunk = req.count /\ i = 0 /\ LastBlock BY <1>1, <1>2 DEF Chunk, LastBlock
  <2> QED BY <1>1, <2>1, FitsMeans DEF First
<1>3. CASE ~req.aligned
  <2>1. Chunk = 1 /\ (LastBlock <=> i + 1 = req.count) BY <1>3 DEF Chunk, LastBlock
  <2> QED BY <1>1, <2>1, FitsMeans DEF First
<1> QED BY <1>1, <1>2, <1>3

\* The sectors a command of a transfer goes to, and the blocks it brings.
LEMMA TargetOK ==
    ASSUME XferIInv, InTransfer, First + Chunk <= Capacity, NEW k \in 0..Chunk - 1
    PROVE  /\ Target(k) = req.start + (i + k) /\ Target(k) \in Sectors
           /\ Source(i + k) \in Blocks /\ Source(i + k).call = calls
           /\ Source(i + k).sector = req.start + (i + k)
<1> USE XferAssumption
<1>1. First \in Sectors /\ First + k \in Sectors /\ First + k = req.start + (i + k)
  BY ChunkOK DEF Sectors
<1>2. Target(k) = First + k
  BY <1>1, Addressing DEF Target, XferIInv, XferInv, XferTypeOK
<1>3. calls \in 0..MaxCalls /\ req.start + (i + k) \in 0..Capacity + MaxCount
  BY <1>1 DEF Sectors, XferIInv, XferInv, XferTypeOK
<1>4. Source(i + k) = [call |-> calls, sector |-> req.start + (i + k)]
  BY DEF Source
<1> QED BY <1>1, <1>2, <1>3, <1>4 DEF Blocks

-----------------------------------------------------------------------------
(* The calls, up to their first command *)

\* A call that sends a command: no block of it is with the card yet.
LEMMA BeginOK ==
    ASSUME XferIInv, NEW r \in Requests, NEW p \in {"cmd", "group_start", "sanitize"},
           Begin(r, p),
           p = "cmd" => r.op \in {"read", "write"} /\ r.count \in 1..MaxCount,
           p = "group_start" => /\ r.op \in {"erase", "full_erase"}
                                /\ r.count > 0 /\ r.start + r.count <= Capacity,
           p = "sanitize" => r.op = "sanitize",
           r.op = "full_erase" =>
              r.start = 0 /\ r.count = Capacity /\ r.arg = FullEraseArg
    PROVE  XferIInv'
<1> USE XferAssumption
<1>1. /\ pc = "idle" /\ pc' = p /\ req' = r /\ i' = 0 /\ dst' = <<>> /\ ~unseen'
      /\ unseen' \in BOOLEAN
      /\ calls \in 0..MaxCalls /\ calls' = calls + 1 /\ calls' \in 1..MaxCalls
      /\ UNCHANGED <<err, status, ret, card, mem, unmapped, buffered, failed, group>>
  <2>1. calls \in 0..MaxCalls /\ calls' = calls + 1 /\ calls' \in 1..MaxCalls
    BY DEF Begin, XferIInv, XferInv, XferTypeOK
  <2>2. unseen' = FALSE BY DEF Begin
  <2> QED BY <2>1, <2>2 DEF Begin
<1>2. dst' \in Seq(Blocks) /\ Len(dst') = 0 BY <1>1, EmptySeq
<1>3. XferTypeOK' BY <1>1, <1>2 DEF XferIInv, XferInv, XferTypeOK, Pcs
<1>4. RightPlace' BY <1>1 DEF XferIInv, XferInv, RightPlace
<1>5. RequestOK'
  BY <1>1 DEF RequestOK, InTransfer, InErase, FullEraseArg, Mmc
<1>6. /\ mem \in [Sectors -> Blocks] /\ buffered \subseteq [at : Sectors, what : Blocks]
  BY DEF XferIInv, XferInv, XferTypeOK
<1>7. /\ \A s \in Sectors : mem[s].call \in Nat /\ mem[s].call < calls'
      /\ \A b \in buffered : b.what.call \in 1..calls
  BY <1>1, <1>6 DEF XferIInv, CardOK, Blocks
<1>8. CardOK' BY <1>1, <1>7 DEF XferIInv, CardOK
<1>9. ASSUME NEW k PROVE ~Written(k)' /\ ~Pending(k)'
  <2>1. Source(k)'.call = calls' BY DEF Source
  <2>2. ~Written(k)' BY <1>1, <1>7, <2>1 DEF Written
  <2>3. ~Pending(k)'
    <3>1. SUFFICES ASSUME Pending(k)' PROVE FALSE OBVIOUS
    <3>2. PICK b \in buffered : b.what = Source(k)' BY <1>1, <3>1 DEF Pending
    <3> QED BY <1>1, <1>7, <2>1, <3>2
  <2> QED BY <2>2, <2>3
<1>10. WriteOK' BY <1>1, <1>9 DEF WriteOK, Sent, Was
<1>11. ReadOK' BY <1>1, <1>2 DEF ReadOK, Sent, Was
<1>12. EraseOK' BY <1>1 DEF EraseOK, InErase, Was
<1> QED BY <1>3, <1>4, <1>5, <1>8, <1>10, <1>11, <1>12 DEF XferIInv, XferInv

\* A call that is refused, or has nothing to do.
LEMMA RefuseOK ==
    ASSUME XferIInv, NEW r \in Requests, Refuse(r, ret'),
           ret' \in {"ok", "invalid_size", "not_supported"},
           ret' = "ok" => r.count = 0 /\ r.op # "full_erase",
           r.op = "full_erase" =>
              r.start = 0 /\ r.count = Capacity /\ r.arg = FullEraseArg
    PROVE  XferIInv'
<1> USE XferAssumption
<1>1. /\ pc = "idle" /\ req' = r /\ dst' = <<>>
      /\ calls \in 0..MaxCalls /\ calls' = calls + 1 /\ calls' \in 1..MaxCalls
      /\ UNCHANGED <<pc, i, err, status, card, mem, unmapped, buffered, failed, unseen,
                     group>>
  BY DEF Refuse, cardVars, XferIInv, XferInv, XferTypeOK
<1>2. dst' \in Seq(Blocks) /\ Len(dst') = 0 BY <1>1, EmptySeq
<1>3. XferTypeOK' BY <1>1, <1>2 DEF XferIInv, XferInv, XferTypeOK
<1>4. RightPlace' BY <1>1 DEF XferIInv, XferInv, RightPlace
<1>5. RequestOK'
  BY <1>1 DEF RequestOK, InTransfer, InErase, FullEraseArg, Mmc
<1>6. /\ mem \in [Sectors -> Blocks] /\ buffered \subseteq [at : Sectors, what : Blocks]
  BY DEF XferIInv, XferInv, XferTypeOK
<1>7. /\ \A s \in Sectors : mem[s].call \in Nat /\ mem[s].call < calls'
      /\ \A b \in buffered : b.what.call \in 1..calls
  BY <1>1, <1>6 DEF XferIInv, CardOK, Blocks
<1>8. CardOK' BY <1>1, <1>7 DEF XferIInv, CardOK
<1>9. ASSUME NEW k PROVE ~Written(k)' /\ ~Pending(k)'
  <2>1. Source(k)'.call = calls' BY DEF Source
  <2>2. ~Written(k)' BY <1>1, <1>7, <2>1 DEF Written
  <2>3. ~Pending(k)'
    <3>1. SUFFICES ASSUME Pending(k)' PROVE FALSE OBVIOUS
    <3>2. PICK b \in buffered : b.what = Source(k)' BY <1>1, <3>1 DEF Pending
    <3> QED BY <1>1, <1>7, <2>1, <3>2
  <2> QED BY <2>2, <2>3
<1>10. WriteOK' BY <1>1, <1>9 DEF WriteOK, Sent, Was, InTransfer
<1>11. ReadOK' BY <1>1, <1>2 DEF ReadOK, Sent, Was
<1>12. EraseOK' BY <1>1 DEF EraseOK, InErase, Was
<1> QED BY <1>3, <1>4, <1>5, <1>8, <1>10, <1>11, <1>12 DEF XferIInv, XferInv

LEMMA EraseSectorsOK ==
    ASSUME XferIInv, NEW r \in Requests, EraseSectors(r),
           r.op \in {"erase", "full_erase"}, r.count <= Capacity + MaxCount - r.start,
           r.op = "full_erase" =>
              r.start = 0 /\ r.count = Capacity /\ r.arg = FullEraseArg
    PROVE  XferIInv'
<1> USE XferAssumption
<1>1. r.start \in Nat /\ r.count \in Nat /\ r.start + r.count <= Capacity + MaxCount
  BY DEF Requests
<1>2. CASE r.count = 0
  <2>1. Refuse(r, "ok") BY <1>2 DEF EraseSectors
  <2>2. ret' = "ok" BY <2>1 DEF Refuse
  <2> QED BY <1>2, <2>1, <2>2, RefuseOK
<1>3. CASE r.count # 0 /\ ~Fits(r.start, r.count)
  <2>1. Refuse(r, "invalid_size") BY <1>3 DEF EraseSectors
  <2>2. ret' = "invalid_size" BY <2>1 DEF Refuse
  <2> QED BY <2>1, <2>2, RefuseOK
<1>4. CASE r.count # 0 /\ Fits(r.start, r.count) /\ ~EraseSupported(r.arg)
  <2>1. Refuse(r, "not_supported") BY <1>4 DEF EraseSectors
  <2>2. ret' = "not_supported" BY <2>1 DEF Refuse
  <2> QED BY <2>1, <2>2, RefuseOK
<1>5. CASE r.count # 0 /\ Fits(r.start, r.count) /\ EraseSupported(r.arg)
  <2>1. Begin(r, "group_start") BY <1>5 DEF EraseSectors
  <2>2. r.start + r.count <= Capacity /\ r.count > 0 BY <1>1, <1>5, FitsMeans
  <2> QED BY <2>1, <2>2, BeginOK
<1> QED BY <1>2, <1>3, <1>4, <1>5

\* FatFs, or who else has the card, makes a call.
LEMMA CallXfer == ASSUME XferIInv, Call PROVE XferIInv'
<1> USE XferAssumption
<1>1. ASSUME NEW st \in 0..Capacity, NEW n \in 0..MaxCount,
             NEW o \in {"write", "read"}, NEW a \in BOOLEAN,
             ReadOrWrite([op |-> o, start |-> st, count |-> n, aligned |-> a, arg |-> 0])
      PROVE  XferIInv'
  <2> DEFINE r == [op |-> o, start |-> st, count |-> n, aligned |-> a, arg |-> 0]
  <2>1. r \in Requests /\ r.op = o /\ r.count = n BY DEF Requests, Ops
  <2> HIDE DEF r
  <2>2. CASE n = 0
    <3>1. Refuse(r, "ok") BY <1>1, <2>1, <2>2 DEF ReadOrWrite, r
    <3>2. ret' = "ok" BY <3>1 DEF Refuse
    <3> QED BY <2>1, <2>2, <3>1, <3>2, RefuseOK
  <2>3. CASE n # 0
    <3>1. Begin(r, "cmd") BY <1>1, <2>1, <2>3 DEF ReadOrWrite, r
    <3> QED BY <2>1, <2>3, <3>1, BeginOK
  <2> QED BY <2>2, <2>3
<1>2. ASSUME NEW st \in 0..Capacity, NEW n \in 0..MaxCount, NEW a \in 0..1,
             EraseSectors([op |-> "erase", start |-> st, count |-> n, aligned |-> TRUE,
                           arg |-> a])
      PROVE  XferIInv'
  <2> DEFINE r == [op |-> "erase", start |-> st, count |-> n, aligned |-> TRUE,
                   arg |-> a]
  <2>1. r \in Requests /\ r.op = "erase" /\ r.count <= Capacity + MaxCount - r.start
    BY DEF Requests, Ops
  <2> HIDE DEF r
  <2>2. EraseSectors(r) BY <1>2 DEF r
  <2> QED BY <2>1, <2>2, EraseSectorsOK
<1>3. CASE FullErase
  <2> DEFINE r == [op |-> "full_erase", start |-> 0, count |-> Capacity,
                   aligned |-> TRUE, arg |-> FullEraseArg]
  <2>1. FullEraseArg \in 0..3 BY DEF FullEraseArg
  <2>2. /\ r \in Requests /\ r.op = "full_erase" /\ r.start = 0 /\ r.count = Capacity
        /\ r.arg = FullEraseArg /\ r.count <= Capacity + MaxCount - r.start
    BY <2>1 DEF Requests, Ops
  <2>3. EraseSectors(r) BY <1>3 DEF FullErase
  <2> HIDE DEF r
  <2> QED BY <2>2, <2>3, EraseSectorsOK
<1>4. ASSUME SanitizeCall([op |-> "sanitize", start |-> 0, count |-> 0,
                           aligned |-> TRUE, arg |-> 0])
      PROVE  XferIInv'
  <2> DEFINE r == [op |-> "sanitize", start |-> 0, count |-> 0, aligned |-> TRUE,
                   arg |-> 0]
  <2>1. r \in Requests /\ r.op = "sanitize" BY DEF Requests, Ops
  <2> HIDE DEF r
  <2>2. CASE Begin(r, "sanitize") BY <2>1, <2>2, BeginOK
  <2>3. CASE Refuse(r, "not_supported")
    <3>1. ret' = "not_supported" BY <2>3 DEF Refuse
    <3> QED BY <2>1, <2>3, <3>1, RefuseOK
  <2> QED BY <1>4, <2>2, <2>3 DEF SanitizeCall, r
<1> QED BY <1>1, <1>2, <1>3, <1>4 DEF Call

-----------------------------------------------------------------------------
(* The steps of a transfer *)

Statuses == {"unknown", "busy", "ready", "error"}

\* A call that returns with an error promises nothing, and leaves what it has done.
LEMMA ErrorOK ==
    ASSUME XferIInv, pc # "idle", Return(ret'),
           ret' \in {"error", "timeout", "invalid_size", "not_supported"},
           UNCHANGED <<req, err, dst, calls, card, mem, unmapped, buffered, unseen,
                       group>>,
           status' \in Statuses, failed' \in BOOLEAN, failed' => failed
    PROVE  XferIInv'
<1>1. pc' = "idle" /\ i' = i BY DEF Return
<1>2. XferTypeOK' BY <1>1 DEF XferIInv, XferInv, XferTypeOK, Pcs, Statuses
<1>3. RightPlace' BY DEF XferIInv, XferInv, RightPlace
<1>4. RequestOK'
  BY <1>1 DEF XferIInv, RequestOK, InTransfer, InErase, FullEraseArg, Mmc
<1>5. CardOK' BY <1>1 DEF XferIInv, CardOK
<1>6. WriteOK'
  BY <1>1 DEF XferIInv, WriteOK, InTransfer, Sent, Was, Written, Pending, Source
<1>7. ReadOK' BY <1>1 DEF XferIInv, ReadOK, Sent, Was
<1>8. EraseOK' BY <1>1 DEF EraseOK, InErase, Was
<1> QED BY <1>2, <1>3, <1>4, <1>5, <1>6, <1>7, <1>8 DEF XferIInv, XferInv

\* The card takes the first blocks of a write, or all of them.
LEMMA SendWriteOK == ASSUME XferIInv, SendWrite PROVE XferIInv'
<1> USE XferAssumption
<1>1. /\ pc = "cmd" /\ pc' = "status" /\ status' = "unknown" /\ req.op = "write"
      /\ UNCHANGED <<req, i, ret, dst, calls, card, mem, unmapped, unseen, group>>
  BY DEF SendWrite, Goto
<1>2. PICK n \in 0..Chunk, ok \in BOOLEAN :
         /\ ok => n = Chunk
         /\ n > 0 => Transfers(n)
         /\ buffered' = buffered \cup
              {[at |-> Target(k), what |-> Source(i + k)] : k \in 0..n - 1}
         /\ err' = ~ok
         /\ failed' = (failed /\ n = 0)
  BY DEF SendWrite
<1> DEFINE taken == {[at |-> Target(k), what |-> Source(i + k)] : k \in 0..n - 1}
<1>a. /\ buffered' = buffered \cup taken
      /\ n = 0 => taken = {}
      /\ failed' => failed /\ n = 0
      /\ ~err' => n = Chunk
  <2>1. n = 0 => 0..n - 1 = {} BY <1>2
  <2>2. n = 0 => taken = {} BY <2>1
  <2>3. buffered' = buffered \cup taken BY <1>2
  <2> HIDE DEF taken
  <2>4. failed' => failed /\ n = 0 BY <1>2
  <2>5. ~err' => n = Chunk BY <1>2
  <2> QED BY <2>2, <2>3, <2>4, <2>5
<1> HIDE DEF taken
<1>3. InTransfer BY <1>1 DEF InTransfer
<1>4. /\ First + Chunk <= Capacity /\ Chunk \in 1..MaxCount /\ n \in Nat
      /\ i \in Nat /\ req.start \in Nat /\ req.count \in Nat
      /\ i + Chunk <= req.count /\ (~req.aligned => Chunk = 1)
      /\ calls \in 1..MaxCalls
  <2>1. First + Chunk <= Capacity BY <1>1, <1>3, ChunkOK DEF SendWrite
  <2>2. calls \in 1..MaxCalls
    BY <1>1 DEF XferIInv, XferInv, XferTypeOK, RequestOK
  <2> QED BY <1>3, <2>1, <2>2, ChunkOK DEF Chunk
<1>5. /\ buffered' \subseteq [at : Sectors, what : Blocks]
      /\ \A b \in buffered' \ buffered :
            b.what.call = calls /\ b.at = b.what.sector /\ n > 0
  <2>1. ASSUME NEW k \in 0..n - 1
        PROVE  /\ Target(k) = req.start + (i + k) /\ Target(k) \in Sectors
               /\ Source(i + k) \in Blocks /\ Source(i + k).call = calls
               /\ Source(i + k).sector = req.start + (i + k) /\ n > 0
    <3>1. k \in 0..Chunk - 1 BY <1>4
    <3> QED BY <1>3, <1>4, <3>1, TargetOK
  <2> QED BY <1>2, <2>1 DEF XferIInv, XferInv, XferTypeOK
<1>6. err' \in BOOLEAN /\ failed' \in BOOLEAN BY <1>2
<1>7. XferTypeOK' BY <1>1, <1>5, <1>6 DEF XferIInv, XferInv, XferTypeOK, Pcs
<1>8. RightPlace' BY <1>1, <1>5 DEF XferIInv, XferInv, RightPlace
<1>9. RequestOK'
  <2>1. First' = First /\ Chunk' = Chunk BY <1>1 DEF First, Chunk
  <2> QED
    BY <1>1, <1>3, <1>4, <2>1
       DEF XferIInv, RequestOK, InTransfer, InErase, FullEraseArg, Mmc
<1>10. buffered' = buffered \/ (buffered = {} /\ n > 0)
  <2>1. CASE n = 0 BY <1>a, <2>1
  <2>2. CASE n # 0 BY <1>2, <1>4, <2>2 DEF Transfers
  <2> QED BY <2>1, <2>2
<1>11. CardOK'
  <2>1. failed' => buffered' = {}
    <3>1. CASE n = 0 BY <1>a, <3>1 DEF XferIInv, CardOK
    <3>2. CASE n # 0 BY <1>a, <3>2
    <3> QED BY <3>1, <3>2
  <2>2. CASE buffered' = buffered
    BY <1>1, <2>1, <2>2 DEF XferIInv, CardOK
  <2>3. CASE buffered = {}
    BY <1>1, <1>4, <1>5, <2>1, <2>3 DEF XferIInv, CardOK
  <2> QED BY <1>10, <2>2, <2>3
<1>12. WriteOK'
  <2>1. SUFFICES ASSUME ~unseen
                 PROVE  /\ \A k \in 0..i - 1 : Written(k)'
                        /\ Sent' => /\ ~failed'
                                    /\ \A k \in i..i + Chunk - 1 : Pending(k)'
                        /\ ~req.aligned =>
                              \A k \in 0..req.count - 1 : Written(k)' \/ Pending(k)' =>
                                k <= i /\ \A j \in 0..k - 1 : Written(j)'
    BY <1>1 DEF WriteOK, Was, Chunk
  <2>2. \A k : Written(k)' <=> Written(k) BY <1>1 DEF Written, Source
  <2>3. \A k \in 0..i - 1 : Written(k)
    BY <1>1, <1>3, <2>1 DEF XferIInv, WriteOK
  <2>4. ASSUME Sent' PROVE ~failed' /\ \A k \in i..i + Chunk - 1 : Pending(k)'
    <3>1. n = Chunk /\ n > 0 BY <1>a, <1>4, <2>4 DEF Sent
    <3>2. ASSUME NEW k \in i..i + Chunk - 1 PROVE Pending(k)'
      <4>1. k - i \in 0..Chunk - 1 /\ i + (k - i) = k BY <1>4
      <4>2. Target(k - i) = req.start + k BY <1>3, <1>4, <4>1, TargetOK
      <4>3. [at |-> Target(k - i), what |-> Source(i + (k - i))] \in buffered'
        BY <1>2, <3>1, <4>1
      <4> QED BY <1>1, <4>1, <4>2, <4>3 DEF Pending, Source
    <3> QED BY <1>a, <3>1, <3>2
  <2>5. ASSUME ~req.aligned, NEW k \in 0..req.count - 1, Written(k)' \/ Pending(k)'
        PROVE  k <= i /\ \A j \in 0..k - 1 : Written(j)'
    <3>1. CASE Written(k) \/ Pending(k)
      BY <1>1, <2>1, <2>2, <2>5, <3>1 DEF XferIInv, WriteOK
    <3>2. CASE ~Pending(k) /\ Pending(k)'
      <4>1. PICK m \in 0..n - 1 : /\ Target(m) = req.start + k
                                  /\ Source(i + m) = Source(k)
        BY <1>1, <1>2, <3>2 DEF Pending, Source
      <4>2. m = 0 /\ m \in 0..Chunk - 1 BY <1>4, <2>5, <4>1
      <4>3. Target(m) = req.start + (i + m) BY <1>3, <1>4, <4>2, TargetOK
      <4>4. k = i BY <1>4, <4>1, <4>2, <4>3
      <4> QED BY <1>4, <2>2, <2>3, <4>4
    <3> QED BY <2>2, <2>5, <3>1, <3>2
  <2> QED BY <2>2, <2>3, <2>4, <2>5
<1>13. ReadOK' BY <1>1 DEF ReadOK
<1>14. EraseOK' BY <1>1 DEF EraseOK, InErase, Was
<1> QED BY <1>7, <1>8, <1>9, <1>11, <1>12, <1>13, <1>14 DEF XferIInv, XferInv

\* The card delivers the blocks of a read, when nothing waits to be programmed.
LEMMA SendReadOK == ASSUME XferIInv, SendRead PROVE XferIInv'
<1> USE XferAssumption
<1>1. /\ pc = "cmd" /\ pc' = "status" /\ status' = "unknown" /\ req.op = "read"
      /\ UNCHANGED <<req, i, ret, calls, card, mem, unmapped, buffered, failed, unseen,
                     group>>
  BY DEF SendRead, Goto, cardVars
<1>2. \/ /\ Transfers(Chunk) /\ ~err'
         /\ dst' = dst \o [k \in 1..Chunk |-> mem[Target(k - 1)]]
      \/ err' /\ dst' = dst
  BY DEF SendRead
<1>3. err' \in BOOLEAN BY DEF SendRead
<1>4. InTransfer BY <1>1 DEF InTransfer
<1>5. /\ First + Chunk <= Capacity /\ Chunk \in 1..MaxCount
      /\ i \in Nat /\ req.start \in Nat /\ req.count \in 1..MaxCount
      /\ i + Chunk <= req.count
  <2>1. First + Chunk <= Capacity BY <1>1, <1>4, ChunkOK DEF SendRead
  <2>2. req.count \in 1..MaxCount BY <1>4 DEF XferIInv, RequestOK
  <2> QED BY <1>4, <2>1, <2>2, ChunkOK
<1>6. /\ dst \in Seq(Blocks) /\ Len(dst) = i /\ Len(dst) \in Nat
      /\ \A k \in 1..Len(dst) : /\ req.start + k - 1 \in Sectors
                                /\ dst[k] = mem[req.start + k - 1]
      /\ dst # <<>> => buffered = {}
      /\ mem \in [Sectors -> Blocks]
  BY <1>1, LenProperties DEF XferIInv, XferInv, XferTypeOK, ReadOK
<1>7. /\ dst' \in Seq(Blocks) /\ Len(dst') \in Nat
      /\ Len(dst') = IF err' THEN i ELSE i + Chunk
      /\ \A k \in 1..Len(dst') : /\ req.start + k - 1 \in Sectors
                                 /\ dst'[k] = mem[req.start + k - 1]
      /\ dst' # <<>> => buffered = {}
  <2>1. CASE err' /\ dst' = dst BY <1>6, <2>1
  <2>2. CASE /\ Transfers(Chunk) /\ ~err'
             /\ dst' = dst \o [k \in 1..Chunk |-> mem[Target(k - 1)]]
    <3> DEFINE new == [k \in 1..Chunk |-> mem[Target(k - 1)]]
    <3>1. ASSUME NEW k \in 1..Chunk
          PROVE  /\ Target(k - 1) = req.start + (i + k) - 1
                 /\ Target(k - 1) \in Sectors
      <4>1. k - 1 \in 0..Chunk - 1 BY <1>5
      <4>2. Target(k - 1) = req.start + (i + (k - 1)) /\ Target(k - 1) \in Sectors
        BY <1>4, <1>5, <4>1, TargetOK
      <4> QED BY <1>5, <4>2
    <3>2. new \in Seq(Blocks) /\ Len(new) = Chunk
      <4>1. new \in [1..Chunk -> Blocks] BY <1>6, <3>1
      <4>2. DOMAIN new = 1..Chunk /\ Chunk \in Nat BY <1>5
      <4> HIDE DEF new
      <4>3. new \in Seq(Blocks) BY <4>1, <4>2, SeqDef
      <4>4. Len(new) \in Nat /\ DOMAIN new = 1..Len(new) BY <4>3, LenProperties
      <4> QED BY <4>2, <4>3, <4>4
    <3>3. /\ dst' \in Seq(Blocks) /\ Len(dst') = i + Chunk
          /\ \A k \in 1..i + Chunk : dst'[k] = IF k <= i THEN dst[k] ELSE new[k - i]
      <4> HIDE DEF new
      <4>1. dst' = dst \o new BY <2>2 DEF new
      <4>2. /\ dst \o new \in Seq(Blocks) /\ Len(dst \o new) = Len(dst) + Len(new)
            /\ \A k \in 1..Len(dst) + Len(new) :
                  (dst \o new)[k] = IF k <= Len(dst) THEN dst[k] ELSE new[k - Len(dst)]
        BY <1>6, <3>2, ConcatProperties
      <4> QED BY <1>6, <3>2, <4>1, <4>2
    <3>4. ASSUME NEW k \in 1..i + Chunk
          PROVE  /\ req.start + k - 1 \in Sectors
                 /\ dst'[k] = mem[req.start + k - 1]
      <4> HIDE DEF new
      <4>1. CASE k <= i
        <5>1. k \in 1..Len(dst) BY <1>5, <1>6, <4>1
        <5> QED BY <1>6, <3>3, <4>1, <5>1
      <4>2. CASE k > i
        <5>1. k - i \in 1..Chunk /\ i + (k - i) = k BY <1>5, <4>2
        <5>2. Target((k - i) - 1) = req.start + k - 1 /\ req.start + k - 1 \in Sectors
          BY <3>1, <5>1
        <5>3. new[k - i] = mem[Target((k - i) - 1)] BY <5>1 DEF new
        <5>4. dst'[k] = new[k - i] BY <1>5, <3>3, <4>2
        <5> QED BY <5>2, <5>3, <5>4
      <4> QED BY <1>5, <4>1, <4>2
    <3>5. buffered = {} BY <2>2 DEF Transfers
    <3> HIDE DEF new
    <3>6. Len(dst') \in Nat /\ Len(dst') = IF err' THEN i ELSE i + Chunk
      <4>1. ~err' BY <2>2
      <4> QED BY <1>5, <3>3, <4>1
    <3>7. \A k \in 1..Len(dst') : /\ req.start + k - 1 \in Sectors
                                  /\ dst'[k] = mem[req.start + k - 1]
      BY <3>3, <3>4
    <3> QED BY <3>3, <3>5, <3>6, <3>7
  <2> QED BY <1>2, <2>1, <2>2
<1>8. XferTypeOK'
  <2>1. Len(dst') <= MaxCount BY <1>5, <1>7
  <2> QED BY <1>1, <1>3, <1>7, <2>1 DEF XferIInv, XferInv, XferTypeOK, Pcs
<1>9. RightPlace' BY <1>1 DEF XferIInv, XferInv, RightPlace
<1>10. RequestOK'
  <2>1. First' = First /\ Chunk' = Chunk BY <1>1 DEF First, Chunk
  <2> QED
    BY <1>1, <1>4, <1>5, <2>1
       DEF XferIInv, RequestOK, InTransfer, InErase, FullEraseArg, Mmc
<1>11. CardOK' BY <1>1 DEF XferIInv, CardOK
<1>12. WriteOK' BY <1>1 DEF WriteOK
<1>13. ReadOK' BY <1>1, <1>7 DEF ReadOK, Sent, Was, Chunk
<1>14. EraseOK' BY <1>1 DEF EraseOK, InErase, Was
<1> QED BY <1>8, <1>9, <1>10, <1>11, <1>12, <1>13, <1>14 DEF XferIInv, XferInv

\* A block whose transfer is done: the next one, or the end of the call.
LEMMA NextBlockOK ==
    ASSUME XferIInv, BlockDone, InTransfer, Sent,
           UNCHANGED <<req, err, dst, calls, card, mem, unmapped, buffered, group>>,
           status' \in Statuses, failed' \in BOOLEAN, failed' => failed,
           unseen' \in BOOLEAN, ~unseen' => ~unseen,
           req.op = "write" /\ ~unseen' =>
              buffered = {} /\ \A k \in i..i + Chunk - 1 : Written(k)
    PROVE  XferIInv'
<1> USE XferAssumption
<1>1. /\ i \in Nat /\ req.count \in 1..MaxCount /\ Chunk \in 1..MaxCount
      /\ i + Chunk <= req.count
      /\ LastBlock <=> i + Chunk = req.count
      /\ ~LastBlock => Chunk = 1
      /\ req.op \in {"write", "read"} /\ pc # "idle" /\ calls > 0
      /\ req.aligned => LastBlock
  BY ChunkOK DEF XferIInv, RequestOK, InTransfer, LastBlock
<1>2. \/ LastBlock /\ pc' = "idle" /\ ret' = "ok" /\ i' = i
      \/ ~LastBlock /\ pc' = "cmd" /\ i' = i + 1 /\ ret' = ret
  BY DEF BlockDone, Return
<1>3. ret' \in {ret, "ok"} /\ i' \in 0..MaxCount /\ pc' \in {"idle", "cmd"}
  BY <1>1, <1>2
<1>4. XferTypeOK' BY <1>3 DEF XferIInv, XferInv, XferTypeOK, Pcs, Statuses
<1>5. RightPlace' BY DEF XferIInv, XferInv, RightPlace
<1>6. RequestOK'
  BY <1>1, <1>2 DEF RequestOK, InTransfer, InErase, FullEraseArg, Mmc
<1>7. CardOK' BY <1>3 DEF XferIInv, CardOK
<1>8. WriteOK'
  <2>1. SUFFICES ASSUME req.op = "write", ~unseen'
                 PROVE  /\ pc' = "cmd" => \A k \in 0..i' - 1 : Written(k)
                        /\ ~req.aligned =>
                              \A k \in 0..req.count - 1 : Written(k) \/ Pending(k) =>
                                k <= i' /\ \A j \in 0..k - 1 : Written(j)
                        /\ pc' = "idle" => /\ \A k \in 0..req.count - 1 : Written(k)
                                           /\ buffered = {}
    BY <1>3 DEF WriteOK, InTransfer, Sent, Was, Written, Pending, Source
  <2>2. \A k \in 0..i + Chunk - 1 : Written(k)
    BY <1>1, <2>1 DEF XferIInv, WriteOK
  <2>3. i' >= i BY <1>1, <1>2
  <2>4. ~req.aligned => \A k \in 0..req.count - 1 : Written(k) \/ Pending(k) =>
                           k <= i /\ \A j \in 0..k - 1 : Written(j)
    BY <2>1 DEF XferIInv, WriteOK
  <2> QED BY <1>1, <1>2, <2>1, <2>2, <2>3, <2>4
<1>9. ReadOK' BY <1>1, <1>2, <1>3 DEF XferIInv, ReadOK, Sent, Was
<1>10. EraseOK' BY <1>1, <1>3 DEF EraseOK, InErase
<1> QED BY <1>4, <1>5, <1>6, <1>7, <1>8, <1>9, <1>10 DEF XferIInv, XferInv

\* A transfer that goes on waiting, or gives up its data.
LEMMA WaitOK ==
    ASSUME XferIInv, InTransfer, pc # "cmd", pc' \in {"poll", "verify", "failed"},
           UNCHANGED <<req, i, ret, err, dst, calls, card, mem, unmapped, buffered,
                       group>>,
           status' \in Statuses, failed' \in BOOLEAN, failed' => failed,
           unseen' \in BOOLEAN, ~unseen' => ~unseen,
           ~unseen' /\ Sent /\ failed /\ req.op = "write" => failed',
           pc' \in {"poll", "verify"} => Sent,
           pc' = "verify" => req.op = "write" /\ Spi,
           pc' = "poll" => ~Spi,
           pc' = "poll" /\ status' \in {"ready", "error"} => buffered = {}
    PROVE  XferIInv'
<1>1. XferTypeOK' BY DEF XferIInv, XferInv, XferTypeOK, Pcs, Statuses
<1>2. RightPlace' BY DEF XferIInv, XferInv, RightPlace
<1>3. RequestOK'
  BY DEF XferIInv, RequestOK, InTransfer, InErase, FullEraseArg, Mmc, First, Chunk,
         Spi, Sent
<1>4. CardOK' BY DEF XferIInv, CardOK, Ready
<1>5. Sent' => Sent BY DEF Sent
<1>6. /\ \A k : Written(k)' <=> Written(k)
      /\ \A k : Pending(k)' <=> Pending(k)
      /\ Chunk' = Chunk /\ (Spi' <=> Spi)
  BY DEF Written, Pending, Source, Chunk, Spi
<1>7. WriteOK'
  <2>1. SUFFICES ASSUME req.op = "write", ~unseen', ~unseen
                 PROVE  /\ \A k \in 0..i - 1 : Written(k)
                        /\ Sent => /\ failed' => Spi
                                   /\ failed' \/ \A k \in i..i + Chunk - 1 :
                                                    Written(k) \/ Pending(k)
                        /\ ~req.aligned =>
                              \A k \in 0..req.count - 1 : Written(k) \/ Pending(k) =>
                                k <= i /\ \A j \in 0..k - 1 : Written(j)
    BY <1>5, <1>6 DEF WriteOK, Was
  <2>2. /\ \A k \in 0..i - 1 : Written(k)
        /\ Sent => /\ failed => Spi
                   /\ failed \/ \A k \in i..i + Chunk - 1 : Written(k) \/ Pending(k)
        /\ ~req.aligned =>
              \A k \in 0..req.count - 1 : Written(k) \/ Pending(k) =>
                k <= i /\ \A j \in 0..k - 1 : Written(j)
    BY <2>1 DEF XferIInv, WriteOK
  <2> QED BY <2>1, <2>2
<1>8. ReadOK' BY <1>5, <1>6 DEF XferIInv, ReadOK, Was
<1>9. EraseOK' BY DEF EraseOK, InErase, Was
<1> QED BY <1>1, <1>2, <1>3, <1>4, <1>7, <1>8, <1>9 DEF XferIInv, XferInv

\* What an answered SEND_STATUS says and does.
LEMMA AnsweredOK ==
    ASSUME XferIInv, Answered(status')
    PROVE  /\ UNCHANGED <<card, mem, unmapped, buffered, group>>
           /\ status' \in Statuses /\ failed' \in BOOLEAN
           /\ failed' => failed
           /\ failed /\ ~card.clears => failed'
           /\ status' = "ready" => ~failed /\ buffered = {}
           /\ status' = "error" => buffered = {}
<1>1. UNCHANGED <<card, mem, unmapped, buffered, group>> BY DEF Answered
<1>2. failed' = (failed /\ ~card.clears) /\ status' = CardStatus BY DEF Answered
<1>3. failed' \in BOOLEAN /\ (failed' => failed) /\ (failed /\ ~card.clears => failed')
  BY <1>2
<1>4. status' \in Statuses BY <1>2 DEF CardStatus, Statuses
<1>5. /\ status' = "ready" => ~failed /\ buffered = {}
      /\ status' = "error" => buffered = {}
  BY <1>2 DEF CardStatus, XferIInv, CardOK
<1> QED BY <1>1, <1>3, <1>4, <1>5

\* SEND_STATUS after the command.
LEMMA SendStatusOK == ASSUME XferIInv, SendStatus PROVE XferIInv'
<1>1. /\ pc = "status" /\ UNCHANGED <<req, err, dst, calls>> /\ InTransfer
      /\ AfterStatus
  BY DEF SendStatus, InTransfer
<1>2. /\ UNCHANGED <<card, mem, unmapped, buffered, group>>
      /\ status' \in Statuses /\ failed' \in BOOLEAN /\ unseen' \in BOOLEAN
      /\ failed' => failed
      /\ ~unseen' => ~unseen
      /\ ~unseen' /\ failed => failed'
      /\ status' \in {"ready", "error"} => buffered = {}
  <2>1. CASE Answered(status') /\ unseen' = (unseen \/ (failed /\ card.clears))
    <3>1. /\ unseen' \in BOOLEAN /\ (~unseen' => ~unseen)
          /\ ~unseen' => ~(failed /\ card.clears)
      BY <2>1
    <3> QED BY <2>1, <3>1, AnsweredOK
  <2>2. CASE UNCHANGED <<status, cardVars>>
    <3>1. /\ UNCHANGED <<card, mem, unmapped, buffered, failed, unseen, group>>
          /\ status' = status
      BY <2>2 DEF cardVars
    <3>2. status = "unknown" BY <1>1 DEF XferIInv, CardOK
    <3>3. failed' \in BOOLEAN /\ unseen' \in BOOLEAN
      BY <3>1 DEF XferIInv, XferInv, XferTypeOK
    <3> QED BY <3>1, <3>2, <3>3 DEF Statuses
  <2> QED BY <2>1, <2>2 DEF SendStatus
<1>3. CASE err
  <2>1. Goto("failed") BY <1>1, <1>3 DEF AfterStatus
  <2>2. pc' = "failed" /\ UNCHANGED <<i, ret>> BY <2>1 DEF Goto
  <2> QED BY <1>1, <1>2, <2>2, WaitOK
<1>4. CASE ~err /\ ~Spi
  <2>1. Goto("poll") BY <1>1, <1>4 DEF AfterStatus
  <2>2. pc' = "poll" /\ UNCHANGED <<i, ret>> BY <2>1 DEF Goto
  <2>3. Sent BY <1>1, <1>4 DEF Sent
  <2> QED BY <1>1, <1>2, <1>4, <2>2, <2>3, WaitOK
<1>5. CASE ~err /\ Spi /\ req.op = "write"
  <2>1. Goto("verify") BY <1>1, <1>5 DEF AfterStatus
  <2>2. pc' = "verify" /\ UNCHANGED <<i, ret>> BY <2>1 DEF Goto
  <2>3. Sent BY <1>1, <1>5 DEF Sent
  <2> QED BY <1>1, <1>2, <1>5, <2>2, <2>3, WaitOK
<1>6. CASE ~err /\ Spi /\ req.op # "write"
  <2>1. BlockDone BY <1>1, <1>6 DEF AfterStatus
  <2>2. Sent BY <1>1, <1>6 DEF Sent
  <2> QED BY <1>1, <1>2, <1>6, <2>1, <2>2, NextBlockOK
<1> QED BY <1>3, <1>4, <1>5, <1>6

\* What a write was told of its blocks, once nothing waits to be programmed.
LEMMA ToldIsSo ==
    ASSUME XferIInv, InTransfer, Sent, req.op = "write", ~unseen, buffered = {},
           ~failed
    PROVE  \A k \in i..i + Chunk - 1 : Written(k)
<1>1. \A k : ~Pending(k) BY DEF Pending
<1>2. \A k \in i..i + Chunk - 1 : Written(k) \/ Pending(k) BY DEF XferIInv, WriteOK
<1> QED BY <1>1, <1>2

\* The wait for the card: it is ready, asked once more, or not heard from.
LEMMA PollOK ==
    ASSUME XferIInv, PollReady \/ PollAgain \/ PollLost
    PROVE  XferIInv'
<1>1. /\ pc = "poll" /\ InTransfer /\ Sent /\ ~Spi
      /\ UNCHANGED <<req, err, dst, calls, card, mem, unmapped, buffered, group>>
  <2>1. /\ pc = "poll"
        /\ UNCHANGED <<req, err, dst, calls, card, mem, unmapped, buffered, group>>
    BY DEF PollReady, PollAgain, PollLost, Answered, cardVars
  <2> QED BY <2>1 DEF XferIInv, RequestOK, InTransfer, Sent
<1>2. req.op = "write" /\ ~unseen => ~failed BY <1>1 DEF XferIInv, WriteOK
<1>3. /\ status \in Statuses /\ failed \in BOOLEAN /\ unseen \in BOOLEAN
  BY DEF XferIInv, XferInv, XferTypeOK, Statuses
<1>4. CASE PollReady
  <2>1. /\ BlockDone /\ UNCHANGED <<status, failed, unseen>> /\ buffered = {}
    BY <1>4 DEF PollReady, cardVars, XferIInv, CardOK
  <2>2. req.op = "write" /\ ~unseen' => \A k \in i..i + Chunk - 1 : Written(k)
    BY <1>1, <1>2, <2>1, ToldIsSo
  <2> QED BY <1>1, <1>3, <2>1, <2>2, NextBlockOK
<1>5. CASE PollAgain
  <2>1. Answered(status') /\ UNCHANGED <<pc, i, ret, unseen>> BY <1>5 DEF PollAgain
  <2>2. /\ status' \in Statuses /\ failed' \in BOOLEAN /\ (failed' => failed)
        /\ status' \in {"ready", "error"} => buffered = {}
    BY <2>1, AnsweredOK
  <2> QED BY <1>1, <1>2, <1>3, <2>1, <2>2, WaitOK
<1>6. CASE PollLost
  <2>1. BlockDone /\ unseen' /\ unseen' \in BOOLEAN /\ UNCHANGED <<status, failed>>
    BY <1>6 DEF PollLost
  <2> QED BY <1>1, <1>3, <2>1, NextBlockOK
<1> QED BY <1>4, <1>5, <1>6

\* The second SEND_STATUS of a write on an SPI bus.
LEMMA VerifyOK == ASSUME XferIInv, Verify PROVE XferIInv'
<1>1. /\ pc = "verify" /\ InTransfer /\ Sent /\ req.op = "write"
      /\ UNCHANGED <<req, err, dst, calls>>
  <2>1. pc = "verify" /\ UNCHANGED <<req, err, dst, calls>> BY DEF Verify
  <2> QED BY <2>1 DEF XferIInv, RequestOK, InTransfer, Sent
<1>2. /\ status \in Statuses /\ failed \in BOOLEAN /\ unseen \in BOOLEAN
  BY DEF XferIInv, XferInv, XferTypeOK, Statuses
<1>3. CASE /\ Answered(status') /\ UNCHANGED unseen
           /\ IF status' = "ready" THEN BlockDone ELSE Fail("error")
  <2>1. /\ UNCHANGED <<card, mem, unmapped, buffered, group>>
        /\ status' \in Statuses /\ failed' \in BOOLEAN /\ (failed' => failed)
        /\ status' = "ready" => ~failed /\ buffered = {}
    BY <1>3, AnsweredOK
  <2>2. CASE status' = "ready"
    <3>1. BlockDone /\ unseen' = unseen BY <1>3, <2>2
    <3>2. ~unseen' => \A k \in i..i + Chunk - 1 : Written(k)
      BY <1>1, <2>1, <2>2, <3>1, ToldIsSo
    <3> QED BY <1>1, <1>2, <2>1, <2>2, <3>1, <3>2, NextBlockOK
  <2>3. CASE status' # "ready"
    <3>1. Return("error") /\ unseen' = unseen BY <1>3, <2>3 DEF Fail
    <3>2. ret' = "error" BY <3>1 DEF Return
    <3> QED BY <1>1, <2>1, <3>1, <3>2, ErrorOK
  <2> QED BY <2>2, <2>3
<1>4. CASE UNCHANGED <<status, cardVars>> /\ Fail("error")
  <2>1. /\ UNCHANGED <<status, card, mem, unmapped, buffered, failed, unseen, group>>
        /\ Return("error")
    BY <1>4 DEF cardVars, Fail
  <2>2. ret' = "error" BY <2>1 DEF Return
  <2> QED BY <1>1, <1>2, <2>1, <2>2, ErrorOK
<1> QED BY <1>3, <1>4 DEF Verify

\* A transfer that ends with an error.
LEMMA GivesUpOK ==
    ASSUME XferIInv, OutOfRange \/ Failed \/ PollTimesOut
    PROVE  XferIInv'
<1>1. /\ status \in Statuses /\ failed \in BOOLEAN
  BY DEF XferIInv, XferInv, XferTypeOK, Statuses
<1>2. /\ pc # "idle" /\ Return(ret') /\ ret' \in {"error", "timeout", "invalid_size"}
      /\ UNCHANGED <<req, err, status, dst, calls, card, mem, unmapped, buffered,
                     failed, unseen, group>>
  BY DEF OutOfRange, Failed, PollTimesOut, Fail, Return, cardVars
<1> QED BY <1>1, <1>2, ErrorOK

-----------------------------------------------------------------------------
(* The steps of an erase *)

\* The sectors of the range an erase was asked for.
LEMMA RangeOK ==
    ASSUME XferIInv, InErase
    PROVE  /\ req.start \in Sectors /\ req.start + (req.count - 1) \in Sectors
           /\ req.start \in Nat /\ req.count \in Nat /\ req.count > 0
           /\ req.start + req.count <= Capacity
BY XferAssumption
   DEF XferIInv, XferInv, XferTypeOK, Requests, RequestOK, Sectors

\* ERASE_GROUP_START and ERASE_GROUP_END.
LEMMA GroupOK ==
    ASSUME XferIInv, GroupStart \/ GroupEnd
    PROVE  XferIInv'
<1> USE XferAssumption
<1>1. /\ pc \in {"group_start", "group_end"} /\ InErase
      /\ UNCHANGED <<req, err, status, dst, calls, card, mem, unmapped, buffered,
                     failed, unseen>>
  BY DEF GroupStart, GroupEnd, NameGroup, InErase
<1>2. CASE UNCHANGED group /\ Return("error")
  <2>1. status \in Statuses /\ failed \in BOOLEAN
    BY DEF XferIInv, XferInv, XferTypeOK, Statuses
  <2>2. ret' = "error" BY <1>2 DEF Return
  <2> QED BY <1>1, <1>2, <2>1, <2>2, ErrorOK
<1>3. ASSUME NEW n \in {1, 2}, NEW s \in Sectors, NEW there \in {"group_end", "erase"},
             buffered = {}, group' = [group EXCEPT ![n] = Argument(s)], Goto(there),
             there = "group_end" => n = 1 /\ s = req.start,
             there = "erase" => /\ n = 2 /\ pc = "group_end"
                                /\ s = req.start + (req.count - 1)
      PROVE  XferIInv'
  <2>1. pc' = there /\ UNCHANGED <<i, ret>> BY <1>3 DEF Goto
  <2>2. group \in (0..WordMod - 1) \X (0..WordMod - 1) /\ card \in Cards
    BY DEF XferIInv, XferInv, XferTypeOK
  <2>3. Argument(s) \in 0..WordMod - 1 BY <2>2, Addressing
  <2>4. /\ group' \in (0..WordMod - 1) \X (0..WordMod - 1)
        /\ group'[n] = Argument(s)
        /\ n = 2 => group'[1] = group[1]
    BY <1>3, <2>2, <2>3
  <2>5. XferTypeOK' BY <1>1, <2>1, <2>4 DEF XferIInv, XferInv, XferTypeOK, Pcs
  <2>6. RightPlace' BY <1>1 DEF XferIInv, XferInv, RightPlace
  <2>7. RequestOK'
    BY <1>1, <2>1 DEF XferIInv, RequestOK, InTransfer, InErase, FullEraseArg, Mmc
  <2>8. CardOK' BY <1>1, <2>1 DEF XferIInv, CardOK
  <2>9. req.op \in {"erase", "full_erase"} BY <1>1 DEF XferIInv, RequestOK
  <2>10. WriteOK' /\ ReadOK' BY <1>1, <2>9 DEF WriteOK, ReadOK
  <2>11. pc = "group_end" => group[1] = Argument(req.start) BY DEF XferIInv, EraseOK
  <2>12. \A t : Argument(t)' = Argument(t) BY <1>1 DEF Argument, Sdhc
  <2>13. EraseOK'
    BY <1>1, <1>3, <2>1, <2>4, <2>11, <2>12 DEF EraseOK, InErase, Was
  <2> QED BY <2>5, <2>6, <2>7, <2>8, <2>10, <2>13 DEF XferIInv, XferInv
<1>4. CASE GroupStart
  <2>1. \/ /\ buffered = {} /\ group' = [group EXCEPT ![1] = Argument(req.start)]
           /\ Goto("group_end")
        \/ UNCHANGED group /\ Return("error")
    BY <1>4 DEF GroupStart, NameGroup
  <2> QED BY <1>1, <1>2, <1>3, <2>1, RangeOK
<1>5. CASE GroupEnd
  <2>1. pc = "group_end" BY <1>5 DEF GroupEnd, NameGroup
  <2>2. \/ /\ buffered = {}
           /\ group' = [group EXCEPT ![2] = Argument(req.start + (req.count - 1))]
           /\ Goto("erase")
        \/ UNCHANGED group /\ Return("error")
    BY <1>5 DEF GroupEnd, NameGroup
  <2> QED BY <1>1, <1>2, <1>3, <2>1, <2>2, RangeOK
<1> QED BY <1>4, <1>5

\* The group is the range, so that a full erase reaches every sector.
LEMMA ErasedIsRange ==
    ASSUME XferIInv, pc = "erase"
    PROVE  /\ Erased = req.start..req.start + req.count - 1
           /\ req.op = "full_erase" => Erased = Sectors
<1> USE XferAssumption
<1>1. InErase /\ card \in Cards BY DEF InErase, XferIInv, XferInv, XferTypeOK
<1>2. /\ Located(group[1]) = req.start
      /\ Located(group[2]) = req.start + (req.count - 1)
  BY <1>1, RangeOK, Addressing DEF XferIInv, EraseOK
<1>3. Erased = req.start..req.start + req.count - 1
  BY <1>1, <1>2, RangeOK DEF Erased, Sectors
<1>4. req.op = "full_erase" => req.start = 0 /\ req.count = Capacity
  BY DEF XferIInv, RequestOK
<1> QED BY <1>3, <1>4 DEF Sectors

\* Only an MMC card has a full erase that discards, and sanitizes.
LEMMA FullEraseOnSpi ==
    ASSUME XferIInv, req.op = "full_erase"
    PROVE  /\ Discards => Mmc
           /\ Mmc => ~Spi
           /\ Mmc /\ card.sanitize => req.arg = 3
BY XferAssumption
   DEF XferIInv, XferInv, XferTypeOK, RequestOK, FullEraseArg, Discards, Mmc, Spi

\* What follows the end of an erase.
LEMMA EraseDoneMeans ==
    ASSUME EraseDone
    PROVE  /\ UNCHANGED i
           /\ \/ pc' = "sanitize" /\ ret' = ret /\ req.op = "full_erase" /\ req.arg = 3
              \/ /\ pc' = "idle" /\ ret' = "ok"
                 /\ ~(req.op = "full_erase" /\ req.arg = 3)
BY DEF EraseDone, Goto, Return

\* The parts of the invariant that a step of an erase cannot disturb.
LEMMA EraseStepOK ==
    ASSUME XferIInv, InErase \/ pc = "sanitize", req.op \notin {"write", "read"},
           pc' \in {"idle", "erase_verify", "sanitize"},
           UNCHANGED <<req, i, err, dst, calls, card, buffered, group>>,
           status' \in Statuses,
           ret' \in {ret, "ok"}, buffered = {},
           failed' \in BOOLEAN, unseen' \in BOOLEAN,
           mem' \in [Sectors -> Blocks], unmapped' \subseteq Sectors,
           \A s \in Sectors : mem'[s] \in {mem[s], Blank},
           pc' = "erase_verify" => Spi /\ InErase,
           pc' = "sanitize" => req.op = "full_erase" /\ req.arg = 3,
           EraseOK'
    PROVE  XferIInv'
<1> USE XferAssumption
<1>1. XferTypeOK' BY DEF XferIInv, XferInv, XferTypeOK, Pcs, Statuses
<1>2. RightPlace' BY DEF XferIInv, XferInv, RightPlace
<1>3. RequestOK'
  BY DEF XferIInv, RequestOK, InTransfer, InErase, FullEraseArg, Mmc, Spi
<1>4. Blank.call = 0 /\ calls \in Nat
  BY DEF Blank, XferIInv, XferInv, XferTypeOK
<1>5. CardOK' BY <1>4 DEF XferIInv, CardOK
<1>6. WriteOK' /\ ReadOK' BY DEF WriteOK, ReadOK
<1> QED BY <1>1, <1>2, <1>3, <1>5, <1>6 DEF XferIInv, XferInv

\* The erase itself.
LEMMA EraseStep == ASSUME XferIInv, Erase PROVE XferIInv'
<1> USE XferAssumption
<1>1. /\ pc = "erase" /\ InErase
      /\ req.op \in {"erase", "full_erase"}
      /\ UNCHANGED <<req, err, status, dst, calls, card, buffered, group>>
  <2>1. /\ pc = "erase"
        /\ UNCHANGED <<req, err, status, dst, calls, card, buffered, group>>
    BY DEF Erase
  <2> QED BY <2>1 DEF InErase, XferIInv, RequestOK
<1>2. /\ status \in Statuses /\ failed \in BOOLEAN /\ unseen \in BOOLEAN
      /\ mem \in [Sectors -> Blocks] /\ unmapped \subseteq Sectors
  BY DEF XferIInv, XferInv, XferTypeOK, Statuses
<1>3. CASE Return("error") /\ UNCHANGED <<mem, unmapped, failed, unseen>>
  <2>1. ret' = "error" BY <1>3 DEF Return
  <2> QED BY <1>1, <1>2, <1>3, <2>1, ErrorOK
<1>4. ASSUME buffered = {}, NEW gone \in SUBSET Erased, NEW ok \in BOOLEAN,
             ok /\ ~Discards => gone = Erased,
             mem' = [s \in Sectors |-> IF s \in gone THEN Blank ELSE mem[s]],
             unmapped' = (unmapped \cup (IF Discards THEN Erased ELSE {})) \ gone,
             failed' = ~ok, unseen' = (~ok /\ ~Spi),
             IF Spi THEN Goto("erase_verify") ELSE EraseDone
      PROVE  XferIInv'
  <2>1. Erased \subseteq Sectors /\ Blank \in Blocks
    <3>1. Erased \subseteq Sectors BY DEF Erased
    <3>2. Blank \in Blocks BY DEF Blank, Blocks
    <3> QED BY <3>1, <3>2
  <2>2. /\ mem' \in [Sectors -> Blocks] /\ unmapped' \subseteq Sectors
        /\ \A s \in Sectors : mem'[s] \in {mem[s], Blank}
    BY <1>2, <1>4, <2>1
  <2>3. failed' \in BOOLEAN /\ unseen' \in BOOLEAN BY <1>4
  <2>4. ~unseen' => ok \/ Spi BY <1>4
  <2>5. ok => /\ \A s \in Erased : mem'[s] = Blank \/ (Discards /\ s \in unmapped')
    BY <1>4, <2>1
  <2>6. /\ i' = i /\ ret' \in {ret, "ok"}
        /\ \/ pc' = "erase_verify" /\ Spi
           \/ ~Spi /\ pc' = "sanitize" /\ req.op = "full_erase" /\ req.arg = 3
           \/ ~Spi /\ pc' = "idle" /\ ~(req.op = "full_erase" /\ req.arg = 3)
    <3>1. CASE Spi
      <4>1. Goto("erase_verify") BY <1>4, <3>1
      <4> QED BY <3>1, <4>1 DEF Goto
    <3>2. CASE ~Spi
      <4>1. EraseDone BY <1>4, <3>2
      <4> QED BY <3>2, <4>1, EraseDoneMeans
    <3> QED BY <3>1, <3>2
  <2>7. Discards' <=> Discards BY <1>1 DEF Discards
  <2>8. ok /\ req.op = "full_erase" => AllErased'
    <3>1. SUFFICES ASSUME ok, req.op = "full_erase" PROVE AllErased' OBVIOUS
    <3>2. Erased = Sectors BY <1>1, <3>1, ErasedIsRange
    <3> QED BY <2>5, <2>7, <3>1, <3>2 DEF AllErased
  <2>9. ~ok => failed' BY <1>4
  <2>10. EraseOK'
    <3>1. InErase' => pc' = "erase_verify" BY <2>6 DEF InErase
    <3>2. ASSUME req.op = "full_erase", ~unseen'
          PROVE  /\ pc' = "erase_verify" => failed' \/ AllErased'
                 /\ pc' = "sanitize" => AllErased' /\ buffered = {}
                 /\ pc' = "idle" /\ (Mmc => card.sanitize) =>
                       buffered = {} /\ \A s \in Sectors : mem'[s] = Blank
      <4>1. failed' \/ AllErased' BY <2>8, <2>9, <3>2
      <4>2. pc' # "erase_verify" => ok /\ AllErased' BY <2>4, <2>6, <2>8, <3>2
      <4>3. pc' = "idle" /\ (Mmc => card.sanitize) => ~Discards
        BY <2>6, <3>2, FullEraseOnSpi
      <4> QED BY <1>4, <2>7, <4>1, <4>2, <4>3 DEF AllErased
    <3>3. Mmc' <=> Mmc BY <1>1 DEF Mmc
    <3> QED BY <1>1, <1>4, <2>6, <3>1, <3>2, <3>3 DEF EraseOK, Was
  <2> QED BY <1>1, <1>2, <1>4, <2>2, <2>3, <2>6, <2>10, EraseStepOK
<1>5. CASE /\ buffered = {}
           /\ \E gone \in SUBSET Erased, ok \in BOOLEAN :
                /\ ok /\ ~Discards => gone = Erased
                /\ mem' = [s \in Sectors |-> IF s \in gone THEN Blank ELSE mem[s]]
                /\ unmapped' = (unmapped \cup (IF Discards THEN Erased ELSE {})) \ gone
                /\ failed' = ~ok
                /\ unseen' = (~ok /\ ~Spi)
           /\ IF Spi THEN Goto("erase_verify") ELSE EraseDone
  BY <1>4, <1>5
<1> QED BY <1>3, <1>5 DEF Erase

\* SEND_STATUS after the erase, on an SPI bus.
LEMMA EraseVerifyOK == ASSUME XferIInv, EraseVerify PROVE XferIInv'
<1>1. /\ pc = "erase_verify" /\ InErase /\ Spi
      /\ req.op \in {"erase", "full_erase"}
      /\ UNCHANGED <<req, err, dst, calls>>
  <2>1. pc = "erase_verify" /\ UNCHANGED <<req, err, dst, calls>> BY DEF EraseVerify
  <2> QED BY <2>1 DEF InErase, XferIInv, RequestOK
<1>2. /\ status \in Statuses /\ failed \in BOOLEAN /\ unseen \in BOOLEAN
      /\ mem \in [Sectors -> Blocks] /\ unmapped \subseteq Sectors
  BY DEF XferIInv, XferInv, XferTypeOK, Statuses
<1>3. CASE /\ Answered(status') /\ UNCHANGED unseen
           /\ IF status' = "ready" THEN EraseDone ELSE Return("error")
  <2>1. /\ UNCHANGED <<card, mem, unmapped, buffered, group>>
        /\ status' \in Statuses /\ failed' \in BOOLEAN /\ (failed' => failed)
        /\ status' = "ready" => ~failed /\ buffered = {}
    BY <1>3, AnsweredOK
  <2>2. CASE status' = "ready"
    <3>1. EraseDone /\ unseen' = unseen BY <1>3, <2>2
    <3>2. /\ i' = i /\ ret' \in {ret, "ok"}
          /\ \/ pc' = "sanitize" /\ req.op = "full_erase" /\ req.arg = 3
             \/ pc' = "idle" /\ ~(req.op = "full_erase" /\ req.arg = 3)
      BY <3>1, EraseDoneMeans
    <3>3. req.op = "full_erase" => ~Discards /\ pc' = "idle"
      BY <1>1, <3>2, FullEraseOnSpi DEF Discards
    <3>4. req.op = "full_erase" /\ ~unseen => \A s \in Sectors : mem[s] = Blank
      BY <1>1, <2>1, <2>2, <3>3 DEF XferIInv, EraseOK, AllErased
    <3>5. EraseOK'
      BY <1>1, <2>1, <2>2, <3>1, <3>2, <3>3, <3>4 DEF EraseOK, InErase, Was
    <3> QED BY <1>1, <1>2, <2>1, <2>2, <3>1, <3>2, <3>3, <3>5, EraseStepOK
  <2>3. CASE status' # "ready"
    <3>1. Return("error") /\ unseen' = unseen BY <1>3, <2>3
    <3>2. ret' = "error" BY <3>1 DEF Return
    <3> QED BY <1>1, <2>1, <3>1, <3>2, ErrorOK
  <2> QED BY <2>2, <2>3
<1>4. CASE UNCHANGED <<status, cardVars>> /\ Return("error")
  <2>1. UNCHANGED <<status, card, mem, unmapped, buffered, failed, unseen, group>>
    BY <1>4 DEF cardVars
  <2>2. ret' = "error" BY <1>4 DEF Return
  <2> QED BY <1>1, <1>2, <1>4, <2>1, <2>2, ErrorOK
<1> QED BY <1>3, <1>4 DEF EraseVerify

\* MMC: what was discarded is wiped.
LEMMA SanitizeOK == ASSUME XferIInv, Sanitize PROVE XferIInv'
<1>1. /\ pc = "sanitize" /\ req.op \in {"sanitize", "full_erase"}
      /\ UNCHANGED <<req, err, status, dst, calls, card, buffered, failed, unseen,
                     group>>
  <2>1. /\ pc = "sanitize"
        /\ UNCHANGED <<req, err, status, dst, calls, card, buffered, failed, unseen,
                       group>>
    BY DEF Sanitize
  <2> QED BY <2>1 DEF XferIInv, RequestOK
<1>2. /\ status \in Statuses /\ failed \in BOOLEAN /\ unseen \in BOOLEAN
      /\ mem \in [Sectors -> Blocks] /\ unmapped \subseteq Sectors
  BY DEF XferIInv, XferInv, XferTypeOK, Statuses
<1>3. CASE UNCHANGED <<mem, unmapped>> /\ Return("error")
  <2>1. ret' = "error" BY <1>3 DEF Return
  <2> QED BY <1>1, <1>2, <1>3, <2>1, ErrorOK
<1>4. CASE /\ buffered = {} /\ unmapped' = {} /\ Return("ok")
           /\ mem' = [s \in Sectors |-> IF s \in unmapped THEN Blank ELSE mem[s]]
  <2>1. Blank \in Blocks BY XferAssumption DEF Blank, Blocks
  <2>2. /\ mem' \in [Sectors -> Blocks] /\ unmapped' \subseteq Sectors
        /\ \A s \in Sectors : mem'[s] \in {mem[s], Blank}
    BY <1>2, <1>4, <2>1
  <2>3. pc' = "idle" /\ ret' = "ok" /\ i' = i BY <1>4 DEF Return
  <2>4. req.op = "full_erase" /\ ~unseen => \A s \in Sectors : mem'[s] = Blank
    BY <1>1, <1>4 DEF XferIInv, EraseOK, AllErased
  <2>5. EraseOK' BY <1>1, <1>4, <2>3, <2>4 DEF EraseOK, InErase, Was
  <2> QED BY <1>1, <1>2, <1>4, <2>2, <2>3, <2>5, EraseStepOK
<1> QED BY <1>3, <1>4 DEF Sanitize

-----------------------------------------------------------------------------
(* The card *)

\* A block is programmed.  It is one of the running call's, or no block of that call
\* is on the card: it never covers one that was written later.
LEMMA ProgramOK == ASSUME XferIInv, Program PROVE XferIInv'
<1> USE XferAssumption
<1>1. PICK b \in buffered : /\ mem' = [mem EXCEPT ![b.at] = b.what]
                            /\ unmapped' = unmapped \ {b.at}
                            /\ buffered' = buffered \ {b}
  BY DEF Program
<1>2. UNCHANGED <<pc, req, i, err, status, dst, ret, calls, card, failed, unseen, group>>
  BY DEF Program, hostVars
<1>3. /\ b.at \in Sectors /\ b.what \in Blocks /\ b.at = b.what.sector
      /\ b = [at |-> b.at, what |-> b.what]
      /\ b.what = [call |-> b.what.call, sector |-> b.what.sector]
      /\ mem \in [Sectors -> Blocks] /\ buffered \subseteq [at : Sectors, what : Blocks]
  BY DEF XferIInv, XferInv, XferTypeOK, RightPlace, Blocks
<1>4. /\ b.what.call \in 1..calls
      /\ b.what.call # calls => /\ \A s \in Sectors : mem[s].call # calls
                                /\ \A c \in buffered : c.what.call # calls
      /\ calls \in Nat /\ buffered # {}
  BY DEF XferIInv, XferInv, XferTypeOK, CardOK
<1>5. /\ mem' \in [Sectors -> Blocks] /\ mem'[b.at] = b.what
      /\ \A s \in Sectors : s # b.at => mem'[s] = mem[s]
  BY <1>1, <1>3
<1>6. XferTypeOK' BY <1>1, <1>2, <1>5 DEF XferIInv, XferInv, XferTypeOK
<1>7. RightPlace' BY <1>1, <1>3, <1>5 DEF XferIInv, XferInv, RightPlace
<1>8. RequestOK'
  BY <1>2 DEF XferIInv, RequestOK, InTransfer, InErase, FullEraseArg, Mmc, First, Chunk,
              Spi
<1>9. CardOK'
  <2>1. ~failed' /\ ~(pc' = "poll" /\ Ready') BY <1>2, <1>4 DEF XferIInv, CardOK, Ready
  <2>2. \A s \in Sectors : mem'[s] \in {mem[s], b.what} BY <1>5
  <2>3. \A s \in Sectors : mem'[s].call <= calls
    BY <1>4, <2>2 DEF XferIInv, CardOK
  <2>4. pc' = "status" => status' = "unknown" BY <1>2 DEF XferIInv, CardOK
  <2>5. ASSUME NEW d \in buffered', d.what.call # calls
        PROVE  /\ \A s \in Sectors : mem'[s].call # calls
               /\ \A c \in buffered' : c.what.call # calls
    <3>1. d \in buffered BY <1>1
    <3>2. /\ \A s \in Sectors : mem[s].call # calls
          /\ \A c \in buffered : c.what.call # calls
      BY <2>5, <3>1 DEF XferIInv, CardOK
    <3> QED BY <1>1, <2>2, <3>2
  <2>6. \A d \in buffered' : d.what.call \in 1..calls
    BY <1>1 DEF XferIInv, CardOK
  <2> QED BY <1>2, <2>1, <2>3, <2>4, <2>5, <2>6 DEF CardOK
<1>10. WriteOK'
  <2>1. SUFFICES ASSUME req.op = "write", ~unseen
                 PROVE  WriteOK'
    BY <1>2 DEF WriteOK
  <2>2. \A k : Source(k)' = Source(k) BY <1>2 DEF Source
  <2>3. ASSUME NEW k, Written(k) PROVE Written(k)'
    <3>1. req.start + k \in Sectors /\ mem[req.start + k] = Source(k)
      BY <2>3 DEF Written
    <3>2. CASE b.at # req.start + k
      BY <1>2, <1>5, <2>2, <3>1, <3>2 DEF Written
    <3>3. CASE b.at = req.start + k
      <4>1. mem[req.start + k].call = calls BY <3>1 DEF Source
      <4>2. b.what.call = calls BY <1>4, <3>1, <4>1
      <4>3. b.what = Source(k) BY <1>3, <3>3, <4>2 DEF Source
      <4> QED BY <1>2, <1>5, <2>2, <3>1, <3>3, <4>3 DEF Written
    <3> QED BY <3>2, <3>3
  <2>4. ASSUME NEW k, Pending(k) PROVE Written(k)' \/ Pending(k)'
    <3>1. CASE b = [at |-> req.start + k, what |-> Source(k)]
      <4>1. b.at = req.start + k /\ b.what = Source(k) BY <3>1
      <4> QED BY <1>2, <1>3, <1>5, <2>2, <4>1 DEF Written
    <3>2. CASE b # [at |-> req.start + k, what |-> Source(k)]
      BY <1>1, <1>2, <2>2, <2>4, <3>2 DEF Pending
    <3> QED BY <3>1, <3>2
  <2>5. ASSUME NEW k, Written(k)' \/ Pending(k)' PROVE Written(k) \/ Pending(k)
    <3>1. CASE Pending(k)' BY <1>1, <1>2, <2>2, <3>1 DEF Pending
    <3>2. CASE Written(k)'
      <4>1. req.start + k \in Sectors /\ mem'[req.start + k] = Source(k)
        BY <1>2, <2>2, <3>2 DEF Written
      <4>2. CASE b.at # req.start + k BY <1>5, <4>1, <4>2 DEF Written
      <4>3. CASE b.at = req.start + k
        <5>1. b.what = Source(k) BY <1>5, <4>1, <4>3
        <5> QED BY <1>3, <4>3, <5>1 DEF Pending
      <4> QED BY <4>2, <4>3
    <3> QED BY <2>5, <3>1, <3>2
  <2>6. /\ InTransfer => \A k \in 0..i - 1 : Written(k)
        /\ Sent => /\ failed => Spi
                   /\ failed \/ \A k \in i..i + Chunk - 1 : Written(k) \/ Pending(k)
        /\ ~req.aligned => \A k \in 0..req.count - 1 : Written(k) \/ Pending(k) =>
              k <= i /\ \A j \in 0..k - 1 : Written(j)
        /\ Was("write") => req.count = 0
    <3>1. req.count \in Nat BY DEF XferIInv, XferInv, XferTypeOK, Requests
    <3> QED BY <1>4, <2>1, <3>1 DEF XferIInv, WriteOK
  <2>7. /\ (InTransfer' <=> InTransfer) /\ (Sent' <=> Sent) /\ Chunk' = Chunk
        /\ (Was("write")' <=> Was("write")) /\ (Spi' <=> Spi) /\ i' = i /\ req' = req
        /\ (failed' <=> failed)
    BY <1>2 DEF InTransfer, Sent, Chunk, Was, Spi
  <2>8. \A k \in 0..i - 1 : InTransfer => Written(k)' BY <2>3, <2>6
  <2>9. Sent => /\ failed => Spi
                /\ failed \/ \A k \in i..i + Chunk - 1 : Written(k)' \/ Pending(k)'
    BY <2>3, <2>4, <2>6
  <2>10. ~req.aligned =>
            \A k \in 0..req.count - 1 : Written(k)' \/ Pending(k)' =>
               k <= i /\ \A j \in 0..k - 1 : Written(j)'
    BY <2>3, <2>5, <2>6
  <2> QED BY <2>6, <2>7, <2>8, <2>9, <2>10 DEF WriteOK
<1>11. ReadOK'
  <2>1. SUFFICES ASSUME req.op = "read" PROVE ReadOK' BY <1>2 DEF ReadOK
  <2>2. dst = <<>> BY <1>4, <2>1 DEF XferIInv, ReadOK
  <2>3. Len(dst) = 0 BY <2>2, EmptySeq
  <2> QED BY <1>2, <2>2, <2>3 DEF XferIInv, ReadOK, Sent, Was, Chunk
<1>12. EraseOK'
  BY <1>2, <1>4 DEF XferIInv, EraseOK, InErase, Was, Mmc
<1> QED BY <1>6, <1>7, <1>8, <1>9, <1>10, <1>11, <1>12 DEF XferIInv, XferInv

\* What the card has not programmed is lost.
LEMMA ProgramFailsOK == ASSUME XferIInv, ProgramFails PROVE XferIInv'
<1>1. /\ UNCHANGED <<pc, req, i, err, status, dst, ret, calls, card, mem, unmapped,
                     group>>
      /\ buffered # {} /\ buffered' = {} /\ failed' /\ failed' \in BOOLEAN
  BY DEF ProgramFails, hostVars
<1>2. unseen' \in BOOLEAN /\ (~unseen' => ~unseen /\ Spi)
  BY DEF ProgramFails
<1>3. XferTypeOK' BY <1>1, <1>2 DEF XferIInv, XferInv, XferTypeOK
<1>4. RightPlace' BY <1>1 DEF XferIInv, XferInv, RightPlace
<1>5. RequestOK'
  BY <1>1 DEF XferIInv, RequestOK, InTransfer, InErase, FullEraseArg, Mmc, First, Chunk,
              Spi
<1>6. CardOK' BY <1>1 DEF XferIInv, CardOK
<1>7. WriteOK'
  <2>1. SUFFICES ASSUME req.op = "write", ~unseen, Spi
                 PROVE  WriteOK'
    BY <1>1, <1>2 DEF WriteOK
  <2>2. /\ \A k : Written(k)' <=> Written(k)
        /\ \A k : ~Pending(k)'
        /\ (InTransfer' <=> InTransfer) /\ (Was("write")' <=> Was("write"))
        /\ (Spi' <=> Spi) /\ i' = i /\ req' = req
    BY <1>1 DEF Written, Pending, Source, InTransfer, Was, Spi
  <2>3. /\ InTransfer => \A k \in 0..i - 1 : Written(k)
        /\ ~req.aligned => \A k \in 0..req.count - 1 : Written(k) \/ Pending(k) =>
              k <= i /\ \A j \in 0..k - 1 : Written(j)
        /\ Was("write") => req.count = 0
    <3>1. req.count \in Nat BY DEF XferIInv, XferInv, XferTypeOK, Requests
    <3> QED BY <1>1, <2>1, <3>1 DEF XferIInv, WriteOK
  <2> QED BY <1>1, <2>1, <2>2, <2>3 DEF WriteOK
<1>8. ReadOK' BY <1>1 DEF XferIInv, ReadOK, Sent, Was, Chunk
<1>9. EraseOK'
  BY <1>1, <1>2 DEF XferIInv, EraseOK, InErase, Was, Mmc
<1> QED BY <1>3, <1>4, <1>5, <1>6, <1>7, <1>8, <1>9 DEF XferIInv, XferInv

-----------------------------------------------------------------------------
(* The invariant *)

LEMMA InitIInv == ASSUME XferInit PROVE XferIInv
<1> USE XferAssumption
<1>1. /\ card \in Cards /\ pc = "idle" /\ i = 0 /\ ~err /\ err \in BOOLEAN
      /\ status = "unknown" /\ dst = <<>>
      /\ req = [op |-> "read", start |-> 0, count |-> 0, aligned |-> TRUE, arg |-> 0]
      /\ ret = "ok" /\ calls = 0
      /\ mem = [s \in Sectors |-> Blank] /\ unmapped = {} /\ buffered = {}
      /\ ~failed /\ failed \in BOOLEAN /\ ~unseen /\ unseen \in BOOLEAN
      /\ group = <<0, 0>>
  BY DEF XferInit
<1>2. dst \in Seq(Blocks) /\ Len(dst) = 0 BY <1>1, EmptySeq
<1>3. Blank \in Blocks /\ Blank.call = 0 BY DEF Blank, Blocks
<1>4. req \in Requests /\ req.op = "read" /\ req.count = 0 BY <1>1 DEF Requests, Ops
<1>5. group \in (0..WordMod - 1) \X (0..WordMod - 1) BY <1>1
<1>6. XferTypeOK BY <1>1, <1>2, <1>3, <1>4, <1>5 DEF XferTypeOK, Pcs
<1>7. RightPlace BY <1>1 DEF RightPlace
<1>8. RequestOK BY <1>1, <1>4 DEF RequestOK, InTransfer, InErase
<1>9. CardOK BY <1>1, <1>3 DEF CardOK
<1>10. WriteOK BY <1>4 DEF WriteOK
<1>11. ReadOK BY <1>1, <1>2, <1>4 DEF ReadOK, Sent
<1>12. EraseOK BY <1>1, <1>4 DEF EraseOK, InErase
<1> QED BY <1>6, <1>7, <1>8, <1>9, <1>10, <1>11, <1>12 DEF XferIInv, XferInv

LEMMA StepIInv == ASSUME XferIInv, [XferNext]_xferVars PROVE XferIInv'
<1>1. CASE Call BY <1>1, CallXfer
<1>2. CASE Transfer
  <2>1. CASE OutOfRange \/ Failed BY <2>1, GivesUpOK
  <2>2. CASE SendWrite BY <2>2, SendWriteOK
  <2>3. CASE SendRead BY <2>3, SendReadOK
  <2>4. CASE SendStatus BY <2>4, SendStatusOK
  <2>5. CASE PollReady \/ PollAgain BY <2>5, PollOK
  <2>6. CASE Verify BY <2>6, VerifyOK
  <2>7. CASE GroupStart \/ GroupEnd BY <2>7, GroupOK
  <2>8. CASE Erase BY <2>8, EraseStep
  <2>9. CASE EraseVerify BY <2>9, EraseVerifyOK
  <2>10. CASE Sanitize BY <2>10, SanitizeOK
  <2> QED
    BY <1>2, <2>1, <2>2, <2>3, <2>4, <2>5, <2>6, <2>7, <2>8, <2>9, <2>10 DEF Transfer
<1>3. CASE PollLost BY <1>3, PollOK
<1>4. CASE PollTimesOut BY <1>4, GivesUpOK
<1>5. CASE Program BY <1>5, ProgramOK
<1>6. CASE ProgramFails BY <1>6, ProgramFailsOK
<1>7. CASE UNCHANGED xferVars
  <2>1. UNCHANGED <<pc, req, i, err, status, dst, ret, calls, card, mem, unmapped,
                    buffered, failed, unseen, group>>
    BY <1>7 DEF xferVars, hostVars, cardVars
  <2>2. XferTypeOK' BY <2>1 DEF XferIInv, XferInv, XferTypeOK
  <2>3. RightPlace' BY <2>1 DEF XferIInv, XferInv, RightPlace
  <2>4. RequestOK'
    BY <2>1 DEF XferIInv, RequestOK, InTransfer, InErase, FullEraseArg, Mmc, First,
                Chunk, Spi
  <2>5. CardOK' BY <2>1 DEF XferIInv, CardOK, Ready
  <2>6. WriteOK'
    BY <2>1 DEF XferIInv, WriteOK, InTransfer, Sent, Was, Chunk, Spi, Written, Pending,
                Source
  <2>7. ReadOK' BY <2>1 DEF XferIInv, ReadOK, Sent, Was, Chunk
  <2>8. EraseOK'
    BY <2>1 DEF XferIInv, EraseOK, InErase, Argument, Sdhc, AllErased, Discards, Was, Mmc
  <2> QED BY <2>2, <2>3, <2>4, <2>5, <2>6, <2>7, <2>8 DEF XferIInv, XferInv
<1> QED BY <1>1, <1>2, <1>3, <1>4, <1>5, <1>6, <1>7 DEF XferNext

\* What the invariant says of a call that returned, and of one that was split.
LEMMA Promises == ASSUME XferIInv PROVE XferInv /\ OkMeansDone /\ SplitLeavesPrefix
<1>1. OkMeansWritten
  BY DEF XferIInv, WriteOK, OkMeansWritten, Was, Written
<1>2. OkMeansRead BY DEF XferIInv, ReadOK, OkMeansRead, Was
<1>3. FullEraseErases BY DEF XferIInv, EraseOK, FullEraseErases, Was
<1>4. SplitLeavesPrefix
  <2>1. SUFFICES ASSUME req.op = "write", ~req.aligned, ~unseen,
                        NEW j \in 0..req.count - 1, NEW k \in 0..req.count - 1,
                        j < k, Written(k)
                 PROVE  Written(j)
    BY DEF SplitLeavesPrefix, Written
  <2>2. req.count \in Nat BY DEF XferIInv, XferInv, XferTypeOK, Requests
  <2>3. \A m \in 0..k - 1 : Written(m) BY <2>1 DEF XferIInv, WriteOK
  <2> QED BY <2>1, <2>2, <2>3
<1> QED BY <1>1, <1>2, <1>3, <1>4 DEF OkMeansDone, XferIInv

-----------------------------------------------------------------------------
(* The IO card's transfers *)

\* The arguments of a call.
Request == [op : IoOps, addr : Nat, size : Nat, fixed : BOOLEAN,
            aligned : BOOLEAN, limit : Nat]

\* The register of the k-th byte of the running call.
Register(k) == ioReq.addr + IF ioReq.fixed THEN 0 ELSE k

\* The bytes moved so far: each once, in order, at its own register.
InOrder ==
    /\ Len(moved) <= ioReq.size
    /\ \A k \in 1..Len(moved) : moved[k] = [byte |-> k - 1, reg |-> Register(k - 1)]

\* What is known of the running call at each of its steps: in sdmmc_io_*_bytes, once
\* the whole words are moved, what is left is smaller than a word and passes the
\* checks the words have passed.
IoPlaceOK ==
    /\ Moving => /\ ioReq.addr + ioReq.size <= RegMod /\ ioReq.addr < RegMod
                 /\ InOrder
    /\ ioPc = "byte" => /\ ioReq.op = "byte" /\ moved = <<>>
                        /\ at = Register(0) /\ ioReq.size = 1
    /\ ioPc = "bytes" => /\ ioReq.op = "bytes"
                         /\ Len(moved) = ioReq.size - left /\ at = Register(Len(moved))
                         /\ moved # <<>> => /\ left < IoWord
                                            /\ ioReq.aligned \/ bounce
    /\ ioPc = "blocks" => /\ ioReq.op = "blocks" /\ moved = <<>>
                          /\ at = Register(0) /\ left = ioReq.size
    /\ ioPc \in {"int", "cis_address", "cis"} => ~Moving
    /\ Moving /\ ioPc = "idle" =>
          /\ ioRet = "ok" => Len(moved) = ioReq.size
          /\ ioRet \in {"invalid_arg", "invalid_size"} => moved = <<>>

IoIInv == MoveTypeOK /\ IoPlaceOK

\* The whole words of n bytes: at least one where there is one, and what remains is
\* less than a word.
LEMMA WordsOf ==
    ASSUME NEW n \in Nat, NEW w \in Nat \ {0}
    PROVE  /\ n % w \in 0..w - 1
           /\ n >= w => n % w <= n - w
           /\ n < w => n % w = n
<1>1. /\ n % w \in 0..w - 1 /\ n \div w \in Nat /\ n = w * (n \div w) + (n % w)
  OBVIOUS
<1>2. ASSUME n >= w PROVE n % w <= n - w
  <2>1. n \div w # 0
    BY <1>1, <1>2
  <2>2. w * (n \div w) >= w
    BY <1>1, <2>1
  <2>. QED
    BY <1>1, <1>2, <2>2
<1>3. n < w => n % w = n
  BY SmallMod
<1>. QED
  BY <1>1, <1>2, <1>3

\* The part that is sent next, and what it leaves.
LEMMA PartOK ==
    ASSUME MoveTypeOK, left > 0
    PROVE  /\ Part \in 1..left /\ left - Part \in 0..IoWord - 1
           /\ left < IoWord => Part = left
<1>1. left \in Nat /\ IoWord \in Nat \ {0}
  BY SdIoAssumption DEF MoveTypeOK
<1>2. /\ left % IoWord \in 0..IoWord - 1
      /\ left >= IoWord => left % IoWord <= left - IoWord
  BY <1>1, WordsOf
<1>. QED
  BY <1>1, <1>2 DEF Part

\* A word fits a block.
LEMMA WordFits == IoWord <= IoBlock
<1>1. IoWord \in Nat \ {0} /\ IoBlock \in Nat \ {0} /\ IoBlock % IoWord = 0
  BY SdIoAssumption
<1>. QED
  BY <1>1, WordsOf

\* A function on 1..n is a sequence of length n.
LEMMA FunctionIsSeq ==
    ASSUME NEW S, NEW n \in Nat, NEW f \in [1..n -> S]
    PROVE  f \in Seq(S) /\ Len(f) = n
<1>1. f \in Seq(S)
  BY SeqDef
<1>2. Len(f) \in Nat /\ DOMAIN f = 1..Len(f) /\ DOMAIN f = 1..n
  BY <1>1, LenProperties
<1>. QED
  BY <1>1, <1>2

\* The card moves n more bytes of the call, in their order and at their registers.
LEMMA MovesInOrder ==
    ASSUME MoveTypeOK, Moving, ioReq.addr + ioReq.size <= RegMod,
           ioReq.addr < RegMod, InOrder, at = Register(Len(moved)),
           NEW n \in Nat, Len(moved) + n <= ioReq.size, Moves(n, at),
           UNCHANGED ioReq
    PROVE  /\ InOrder' /\ Len(moved') = Len(moved) + n
           /\ moved' \in Seq([byte : Nat, reg : 0..RegMod - 1])
<1> DEFINE T == [byte : Nat, reg : 0..RegMod - 1]
           m == Len(moved)
           B == Bytes(n, at)
<1>1. /\ moved \in Seq(T) /\ m \in Nat /\ ioReq.addr \in Nat /\ ioReq.size \in Nat
      /\ RegMod \in Nat \ {0} /\ ioReq.fixed \in BOOLEAN
  BY SdIoAssumption DEF MoveTypeOK
<1>2. \A k \in 1..n : B[k] = [byte |-> m + k - 1, reg |-> Register(m + k - 1)]
                        /\ B[k] \in T
  <2>. TAKE k \in 1..n
  <2>1. B[k] = [byte |-> m + k - 1,
                reg |-> (at + IF ioReq.fixed THEN 0 ELSE k - 1) % RegMod]
    BY DEF Bytes
  <2>2. /\ at + (IF ioReq.fixed THEN 0 ELSE k - 1) = Register(m + k - 1)
        /\ Register(m + k - 1) \in Nat /\ Register(m + k - 1) < RegMod
    <3>1. CASE ioReq.fixed
      BY <1>1, <3>1 DEF Register
    <3>2. CASE ~ioReq.fixed
      <4>1. at = ioReq.addr + m /\ Register(m + k - 1) = ioReq.addr + (m + k - 1)
        BY <1>1, <3>2 DEF Register
      <4>2. m + k - 1 \in Nat /\ m + k - 1 < ioReq.size
        BY <1>1
      <4>3. at + (k - 1) = Register(m + k - 1)
        BY <1>1, <4>1
      <4>4. Register(m + k - 1) \in Nat /\ Register(m + k - 1) < RegMod
        BY <1>1, <4>1, <4>2
      <4>. QED
        BY <3>2, <4>3, <4>4
    <3>. QED
      BY <3>1, <3>2
  <2>3. Register(m + k - 1) % RegMod = Register(m + k - 1)
    BY <1>1, <2>2, SmallMod
  <2>4. B[k] = [byte |-> m + k - 1, reg |-> Register(m + k - 1)]
    BY <2>1, <2>2, <2>3
  <2>5. m + k - 1 \in Nat /\ Register(m + k - 1) \in 0..RegMod - 1
    BY <1>1, <2>2
  <2>. QED
    BY <2>4, <2>5
<1>3. B \in Seq(T) /\ Len(B) = n
  <2>1. B = [k \in 1..n |-> B[k]]
    BY DEF Bytes
  <2>2. B \in [1..n -> T]
    BY <1>2, <2>1
  <2>. QED
    BY <2>2, FunctionIsSeq
<1>4. moved' = moved \o B
  BY DEF Moves
<1> HIDE DEF B, T
<1>5. /\ moved' \in Seq(T) /\ Len(moved') = m + n
      /\ \A k \in 1..m + n : moved'[k] = IF k <= m THEN moved[k] ELSE B[k - m]
  BY <1>1, <1>3, <1>4, ConcatProperties
<1>6. ASSUME NEW k \in 1..m + n
      PROVE  moved'[k] = [byte |-> k - 1, reg |-> Register(k - 1)]
  <2>1. CASE k <= m
    <3>1. k \in 1..m /\ moved'[k] = moved[k]
      BY <1>1, <1>5, <2>1
    <3>. QED
      BY <3>1 DEF InOrder
  <2>2. CASE k > m
    <3>1. k - m \in 1..n /\ m + (k - m) - 1 = k - 1
      BY <1>1, <2>2
    <3>2. B[k - m] = [byte |-> m + (k - m) - 1, reg |-> Register(m + (k - m) - 1)]
      BY <1>2, <3>1
    <3>3. moved'[k] = B[k - m]
      BY <1>1, <1>5, <2>2
    <3>. QED
      BY <3>1, <3>2, <3>3
  <2>. QED
    BY <1>1, <2>1, <2>2
<1>7. ASSUME NEW k PROVE Register(k)' = Register(k)
  BY DEF Register
<1>8. Len(moved') <= ioReq'.size
  BY <1>1, <1>5
<1>9. InOrder'
  BY <1>5, <1>6, <1>7, <1>8 DEF InOrder
<1>. QED
  BY <1>5, <1>9 DEF T

\* A new call has moved nothing.
LEMMA IoBeginOK ==
    ASSUME IoIInv, NEW r, NEW p, IoBegin(r, p),
           r \in Request,
           r.addr < RegMod, r.addr + r.size <= RegMod \/ r.op \in {"int", "cis"},
           \/ p = "byte" /\ r.op = "byte" /\ r.size = 1
           \/ p = "bytes" /\ r.op = "bytes"
           \/ p = "blocks" /\ r.op = "blocks"
           \/ p = "int" /\ r.op = "int"
           \/ p = "cis_address" /\ r.op = "cis"
    PROVE  IoIInv'
<1>1. /\ ioReq' = r /\ ioPc' = p /\ left' = r.size /\ at' = r.addr /\ moved' = <<>>
      /\ ioCalls' = ioCalls + 1 /\ ioCalls < MaxIoCalls
      /\ UNCHANGED <<bounce, endless, ioRet>>
  BY DEF IoBegin
<1>0. r.addr \in Nat /\ r.size \in Nat /\ RegMod \in Nat /\ MaxIoCalls \in Nat
  BY SdIoAssumption DEF Request
<1>2. MoveTypeOK'
  BY <1>0, <1>1, EmptySeq DEF IoIInv, MoveTypeOK, Request
<1>3. Len(moved') = 0 /\ InOrder'
  BY <1>0, <1>1 DEF InOrder
<1>4. Register(0)' = r.addr
  BY <1>0, <1>1 DEF Register
<1>5. IoPlaceOK'
  BY <1>0, <1>1, <1>3, <1>4 DEF IoPlaceOK, Moving
<1>. QED
  BY <1>2, <1>5 DEF IoIInv

\* Every call begins so.
LEMMA IoCallOK == ASSUME IoIInv, IoCall PROVE IoIInv'
<1>0. /\ \A a \in IoAddrs : a \in Nat /\ a < RegMod /\ a + 1 <= RegMod
      /\ \A a \in IoAddrs, n \in IoSizes : n \in Nat /\ a + n <= RegMod
      /\ CisSizes \subseteq Nat /\ CisLimits \subseteq Nat /\ 0 < RegMod
  BY SdIoAssumption
<1>1. ASSUME NEW a \in IoAddrs, IoBegin(IoRequest("byte", a, 1), "byte")
      PROVE  IoIInv'
  <2> DEFINE r == IoRequest("byte", a, 1)
  <2>1. r \in Request /\ r.op = "byte" /\ r.addr = a /\ r.size = 1
    BY <1>0 DEF IoRequest, IoOps, Request
  <2>2. IoBegin(r, "byte")
    BY <1>1
  <2>. HIDE DEF r
  <2>. QED
    BY <1>0, <2>1, <2>2, IoBeginOK
<1>2. ASSUME NEW op \in {"bytes", "blocks"}, NEW a \in IoAddrs, NEW n \in IoSizes,
             NEW f \in BOOLEAN, NEW al \in BOOLEAN,
             IoBegin([IoRequest(op, a, n) EXCEPT !.fixed = f, !.aligned = al], op)
      PROVE  IoIInv'
  <2> DEFINE r == [IoRequest(op, a, n) EXCEPT !.fixed = f, !.aligned = al]
  <2>1. /\ r \in Request /\ r.op = op /\ r.addr = a /\ r.size = n
    BY <1>0 DEF IoRequest, IoOps, Request
  <2>2. IoBegin(r, op)
    BY <1>2
  <2>. HIDE DEF r
  <2>. QED
    BY <1>0, <2>1, <2>2, IoBeginOK
<1>3. CASE IoBegin(IoRequest("int", 0, 0), "int")
  <2> DEFINE r == IoRequest("int", 0, 0)
  <2>1. r \in Request /\ r.op = "int" /\ r.addr = 0
    BY DEF IoRequest, IoOps, Request
  <2>2. IoBegin(r, "int")
    BY <1>3
  <2>. HIDE DEF r
  <2>. QED
    BY <1>0, <2>1, <2>2, IoBeginOK
<1>4. ASSUME NEW n \in CisSizes, NEW l \in CisLimits,
             IoBegin([IoRequest("cis", 0, n) EXCEPT !.limit = l], "cis_address")
      PROVE  IoIInv'
  <2> DEFINE r == [IoRequest("cis", 0, n) EXCEPT !.limit = l]
  <2>1. r \in Request /\ r.op = "cis" /\ r.addr = 0
    BY <1>0 DEF IoRequest, IoOps, Request
  <2>2. IoBegin(r, "cis_address")
    BY <1>4
  <2>. HIDE DEF r
  <2>. QED
    BY <1>0, <2>1, <2>2, IoBeginOK
<1>. QED
  BY <1>1, <1>2, <1>3, <1>4 DEF IoCall

\* One byte.
LEMMA DirectOK == ASSUME IoIInv, Direct PROVE IoIInv'
<1>1. /\ MoveTypeOK /\ ioPc = "byte" /\ ioReq.op = "byte" /\ moved = <<>> /\ Moving
      /\ at = Register(Len(moved)) /\ ioReq.size = 1 /\ InOrder
      /\ ioReq.addr + ioReq.size <= RegMod /\ ioReq.addr < RegMod
  BY DEF IoIInv, IoPlaceOK, Direct, Moving
<1>2. UNCHANGED <<bounce, ioReq, ioCalls, left, at, endless>> /\ ioPc' = "idle"
  BY DEF Direct, IoReturn
<1>3. CASE Moves(1, at) /\ ioRet' = "ok"
  <2>0. PICK n \in Nat : Moves(n, at) /\ n = 1 /\ Len(moved) + n <= ioReq.size
    BY <1>1, <1>3
  <2>1. /\ InOrder' /\ Len(moved') = Len(moved) + n
        /\ moved' \in Seq([byte : Nat, reg : 0..RegMod - 1])
    BY <1>1, <1>2, <2>0, MovesInOrder
  <2>. QED
    BY <1>1, <1>2, <1>3, <2>0, <2>1 DEF IoIInv, MoveTypeOK, IoPlaceOK, Moving
<1>4. CASE UNCHANGED moved /\ ioRet' = "error"
  BY <1>1, <1>2, <1>4 DEF IoIInv, MoveTypeOK, IoPlaceOK, Moving, InOrder, Register
<1>. QED
  BY <1>3, <1>4 DEF Direct, IoReturn

\* The call returns e, having moved what it had moved.
LEMMA IoReturnOK ==
    ASSUME IoIInv, NEW e \in {"ok", "error", "timeout", "invalid_arg",
                  "invalid_size", "invalid_response", "not_found",
                  "not_supported"},
           IoReturn(e), UNCHANGED <<bounce, ioReq, ioCalls, moveVars>>,
           Moving /\ e = "ok" => Len(moved) = ioReq.size,
           Moving /\ e \in {"invalid_arg", "invalid_size"} => moved = <<>>
    PROVE  IoIInv'
<1>1. /\ ioPc' = "idle" /\ ioRet' = e
      /\ UNCHANGED <<bounce, ioReq, ioCalls, left, at, moved, endless>>
  BY DEF IoReturn, moveVars
<1>2. MoveTypeOK'
  BY <1>1 DEF IoIInv, MoveTypeOK
<1>3. (Moving' <=> Moving) /\ (InOrder' <=> InOrder)
  BY <1>1 DEF Moving, InOrder, Register
<1>. QED
  BY <1>1, <1>2, <1>3 DEF IoIInv, IoPlaceOK

\* A transfer is refused before anything is moved, or not at all.
LEMMA BytesRefusedOK == ASSUME IoIInv, BytesRefused PROVE IoIInv'
<1>1. /\ MoveTypeOK /\ ioPc = "bytes" /\ ioReq.op = "bytes" /\ left > 0
      /\ moved # <<>> => left < IoWord /\ (ioReq.aligned \/ bounce)
      /\ Refusal(Part) # "none" /\ IoReturn(Refusal(Part))
      /\ UNCHANGED <<bounce, ioReq, ioCalls, moveVars>>
  BY DEF IoIInv, IoPlaceOK, BytesRefused
<1>2. Refusal(Part) \in {"invalid_arg", "invalid_size"}
  BY <1>1 DEF Refusal
<1>3. ASSUME moved # <<>> PROVE FALSE
  <2>1. Part = left /\ left < IoWord /\ left \in Nat /\ IoWord <= IoBlock
        /\ IoWord \in Nat /\ IoBlock \in Nat
    BY <1>1, <1>3, PartOK, WordFits, SdIoAssumption DEF MoveTypeOK
  <2>2. ~(Part > IoBlock) /\ ~BlockMode /\ (ioReq.aligned \/ bounce)
    BY <1>1, <1>3, <2>1 DEF BlockMode
  <2>. QED
    BY <1>1, <2>2 DEF Refusal
<1>. QED
  BY <1>1, <1>2, <1>3, IoReturnOK

\* The part fits what is left, the rest is smaller than a word, and what the check of
\* the buffer has let pass once it lets pass again.
LEMMA BytesPartOK == ASSUME IoIInv, BytesPart PROVE IoIInv'
<1>1. /\ MoveTypeOK /\ ioPc = "bytes" /\ ioReq.op = "bytes" /\ left > 0
      /\ Len(moved) = ioReq.size - left /\ at = Register(Len(moved))
      /\ Refusal(Part) = "none" /\ Moving /\ InOrder
      /\ ioReq.addr + ioReq.size <= RegMod /\ ioReq.addr < RegMod
      /\ UNCHANGED <<bounce, ioReq, ioCalls>>
  BY DEF IoIInv, IoPlaceOK, BytesPart, Moving
<1>2. /\ Part \in 1..left /\ left - Part \in 0..IoWord - 1 /\ left \in Nat
      /\ ioReq.size \in Nat /\ ioReq.addr \in Nat /\ Len(moved) \in Nat
      /\ IoWord \in Nat /\ RegMod \in Nat
  BY <1>1, PartOK, SdIoAssumption DEF MoveTypeOK
<1>3. ioReq.aligned \/ bounce
  BY <1>1, <1>2 DEF Refusal
<1>4. endless' \in BOOLEAN
  BY <1>1 DEF BytesPart, Extended, MoveTypeOK, Endless, BlockMode
<1>5. CASE Extended(Part, TRUE) /\ left' = left - Part /\ at' = NextAt
             /\ UNCHANGED <<ioPc, ioRet>>
  <2>1. Moves(Part, at)
    BY <1>2, <1>5 DEF Extended
  <2>0. Part \in Nat /\ Len(moved) + Part <= ioReq.size
    BY <1>1, <1>2
  <2>2. /\ InOrder' /\ Len(moved') = Len(moved) + Part
        /\ moved' \in Seq([byte : Nat, reg : 0..RegMod - 1])
    BY <1>1, <2>0, <2>1, MovesInOrder
  <2>3. left' = left - Part /\ Len(moved) = ioReq.size - left
    BY <1>1, <1>5
  <2>4. /\ left' \in 0..ioReq.size /\ left' < IoWord
        /\ Len(moved') = ioReq.size - left'
    <3>1. left' \in Nat /\ left' <= left /\ left' < IoWord
      BY <1>2, <2>3
    <3>2. left <= ioReq.size
      BY <1>2, <2>3
    <3>3. Len(moved') = Len(moved) + Part
      BY <2>2
    <3>4. Len(moved') = ioReq.size - left'
      BY <1>2, <2>3, <3>3
    <3>. QED
      BY <1>2, <3>1, <3>2, <3>4
  <2>5. /\ ioReq.addr \in Nat /\ ioReq.size \in Nat /\ RegMod \in Nat
        /\ ioReq.addr + ioReq.size <= RegMod /\ Len(moved') \in Nat
    BY <1>1, <1>2, <2>2
  <2>6. at' = Register(Len(moved))' /\ at' \in 0..RegMod
    <3>1. CASE ioReq.fixed
      BY <1>1, <1>2, <1>5, <3>1 DEF NextAt, Register
    <3>2. CASE ~ioReq.fixed
      <4>1. at = ioReq.addr + Len(moved) /\ at' = at + Part
        BY <1>1, <1>5, <3>2 DEF NextAt, Register
      <4>2. Register(Len(moved))' = ioReq.addr + Len(moved')
        BY <1>1, <3>2 DEF Register
      <4>3. at' = ioReq.addr + Len(moved')
        BY <1>2, <2>2, <4>1
      <4>4. at' \in 0..RegMod
        BY <2>4, <2>5, <4>3
      <4>. QED
        BY <4>2, <4>3, <4>4
    <3>. QED
      BY <3>1, <3>2
  <2>7. MoveTypeOK'
    BY <1>1, <1>4, <1>5, <2>2, <2>4, <2>6 DEF MoveTypeOK
  <2>8. IoPlaceOK'
    BY <1>1, <1>3, <1>5, <2>2, <2>4, <2>6 DEF IoPlaceOK, Moving
  <2>. QED
    BY <2>7, <2>8 DEF IoIInv
<1>6. CASE Extended(Part, FALSE) /\ IoReturn("error") /\ UNCHANGED <<left, at>>
  <2>1. PICK k \in 0..Part : Moves(k, at)
    BY <1>6 DEF Extended
  <2>0. k \in Nat /\ Len(moved) + k <= ioReq.size
    BY <1>1, <1>2
  <2>2. /\ InOrder' /\ Len(moved') = Len(moved) + k
        /\ moved' \in Seq([byte : Nat, reg : 0..RegMod - 1])
    BY <1>1, <2>0, <2>1, MovesInOrder
  <2>. QED
    BY <1>1, <1>2, <1>4, <1>6, <2>2
       DEF IoIInv, MoveTypeOK, IoPlaceOK, Moving, IoReturn
<1>. QED
  BY <1>5, <1>6 DEF BytesPart

\* Blocks, or bytes of one block, in one command.
LEMMA MoveBlocksOK == ASSUME IoIInv, MoveBlocks PROVE IoIInv'
<1>1. /\ MoveTypeOK /\ ioPc = "blocks" /\ ioReq.op = "blocks" /\ moved = <<>>
      /\ at = Register(Len(moved)) /\ left = ioReq.size /\ Moving /\ InOrder
      /\ ioReq.addr + ioReq.size <= RegMod /\ ioReq.addr < RegMod
      /\ UNCHANGED <<bounce, ioReq, ioCalls>>
  BY DEF IoIInv, IoPlaceOK, MoveBlocks, Moving
<1>2. CASE ~ioReq.aligned
  BY <1>1, <1>2, IoReturnOK DEF MoveBlocks
<1>3. CASE ioReq.aligned /\ Refusal(left) # "none"
  <2>1. Refusal(left) \in {"invalid_arg", "invalid_size"}
    BY <1>3 DEF Refusal
  <2>. QED
    BY <1>1, <1>3, <2>1, IoReturnOK DEF MoveBlocks
<1>4. CASE ioReq.aligned /\ Refusal(left) = "none"
  <2>1. PICK ok \in BOOLEAN :
            Extended(left, ok) /\ IoReturn(IF ok THEN "ok" ELSE "error")
    BY <1>4 DEF MoveBlocks
  <2>2. UNCHANGED <<left, at>>
    BY <1>4 DEF MoveBlocks
  <2>3. left \in Nat /\ ioReq.size \in Nat
    BY <1>1 DEF MoveTypeOK
  <2>4. PICK k \in 0..left : Moves(k, at) /\ (ok => k = left)
    BY <2>1 DEF Extended
  <2>0. k \in Nat /\ Len(moved) = 0 /\ Len(moved) + k <= ioReq.size
    BY <1>1, <2>3
  <2>5. /\ InOrder' /\ Len(moved') = Len(moved) + k
        /\ moved' \in Seq([byte : Nat, reg : 0..RegMod - 1])
    BY <1>1, <2>0, <2>4, MovesInOrder
  <2>6. endless' \in BOOLEAN
    BY <1>1, <2>1 DEF Extended, MoveTypeOK, Endless, BlockMode
  <2>7. /\ ioPc' = "idle" /\ ioRet' \in {"ok", "error"}
        /\ ioRet' = "ok" => Len(moved') = ioReq.size
    BY <1>1, <2>1, <2>3, <2>4, <2>5 DEF IoReturn
  <2>. QED
    BY <1>1, <2>2, <2>5, <2>6, <2>7 DEF IoIInv, MoveTypeOK, IoPlaceOK, Moving
<1>. QED
  BY <1>2, <1>3, <1>4

\* The calls that move nothing.
LEMMA QuietOK ==
    ASSUME IoIInv, BytesDone \/ IoInterrupt \/ CisAddress \/ CisFails \/ CisChunk
    PROVE  IoIInv'
<1>1. CASE BytesDone
  <2>1. ioReq.size \in Nat /\ Len(moved) = ioReq.size
    BY <1>1 DEF BytesDone, IoIInv, MoveTypeOK, IoPlaceOK
  <2>. QED
    BY <1>1, <2>1, IoReturnOK DEF BytesDone
<1>2. CASE IoInterrupt
  <2>1. ~Moving
    BY <1>2 DEF IoInterrupt, IoIInv, IoPlaceOK
  <2>. QED
    BY <1>2, <2>1, IoReturnOK DEF IoInterrupt
<1>3. CASE CisAddress \/ CisFails \/ CisChunk
  <2>1. ~Moving /\ UNCHANGED <<bounce, ioReq, ioCalls, moveVars>>
    BY <1>3 DEF CisAddress, CisFails, CisChunk, IoIInv, IoPlaceOK
  <2>2. \/ ioPc' = "idle" /\ ioRet' \in {"error", "invalid_response", "invalid_size",
                                         "ok", "not_found"}
        \/ ioPc' \in {"cis_address", "cis"} /\ UNCHANGED ioRet
    BY <1>3 DEF CisAddress, CisFails, CisChunk, IoReturn
  <2>3. ~Moving'
    BY <2>1 DEF Moving
  <2>. QED
    BY <2>1, <2>2, <2>3 DEF IoIInv, MoveTypeOK, IoPlaceOK, moveVars
<1>. QED
  BY <1>1, <1>2, <1>3

\* Before the first call.
LEMMA InitIoIInv == ASSUME SdIoInit PROVE IoIInv
<1>0. BounceBuffers \subseteq BOOLEAN /\ MaxIoCalls \in Nat /\ RegMod \in Nat
  BY SdIoAssumption
<1>1. /\ ioPc = "idle" /\ ioRet = "ok" /\ ioCalls = 0 /\ left = 0 /\ at = 0
      /\ moved = <<>> /\ endless = FALSE /\ bounce \in BOOLEAN
      /\ ioReq = [op |-> "int", addr |-> 0, size |-> 0, fixed |-> FALSE,
                  aligned |-> TRUE, limit |-> 0]
  BY <1>0 DEF SdIoInit, IoRequest
<1>2. MoveTypeOK
  <2>1. ioReq \in Request /\ ioReq.size = 0
    BY <1>1 DEF Request, IoOps
  <2>2. moved \in Seq([byte : Nat, reg : 0..RegMod - 1])
    BY <1>1, EmptySeq
  <2>3. /\ left \in 0..ioReq.size /\ at \in 0..RegMod /\ ioCalls \in 0..MaxIoCalls
    <3>1. left = 0 /\ at = 0 /\ ioCalls = 0
      BY <1>1
    <3>. QED
      BY <1>0, <2>1, <3>1
  <2>4. endless \in BOOLEAN
    BY <1>1
  <2>. QED
    BY <1>1, <2>1, <2>2, <2>3, <2>4 DEF MoveTypeOK, Request
<1>3. IoPlaceOK
  BY <1>1 DEF IoPlaceOK, Moving
<1>. QED
  BY <1>2, <1>3 DEF IoIInv

\* Every step keeps the invariant.
LEMMA StepIoIInv == ASSUME IoIInv, [SdIoNext]_ioVars PROVE IoIInv'
<1>1. CASE UNCHANGED ioVars
  <2>1. UNCHANGED <<bounce, ioPc, ioReq, ioRet, ioCalls, left, at, moved, endless>>
    BY <1>1 DEF ioVars, moveVars
  <2>2. (MoveTypeOK' <=> MoveTypeOK) /\ (IoPlaceOK' <=> IoPlaceOK)
    BY <2>1 DEF MoveTypeOK, IoPlaceOK, Moving, InOrder, Register
  <2>. QED
    BY <2>2 DEF IoIInv
<1>. QED
  BY <1>1, IoCallOK, DirectOK, BytesRefusedOK, BytesPartOK, MoveBlocksOK, QuietOK
     DEF SdIoNext

\* Byte by byte in order is a prefix of what is wanted.
LEMMA InOrderMeans == ASSUME IoIInv PROVE IoInv
<1>1. SUFFICES ASSUME Moving PROVE
        /\ IsPrefix(moved, Wanted)
        /\ ioPc = "idle" /\ ioRet = "ok" => moved = Wanted
        /\ ioPc = "idle" /\ ioRet \in {"invalid_arg", "invalid_size"} => moved = <<>>
  BY DEF IoIInv, IoInv, IoMovesInOrder
<1> DEFINE T == [byte : Nat, reg : Nat]
<1>0. /\ \A b, r \in Nat : [byte |-> b, reg |-> r] \in T
      /\ [byte : Nat, reg : 0..RegMod - 1] \subseteq T
  BY SdIoAssumption
<1>. HIDE DEF T
<1>2. /\ moved \in Seq([byte : Nat, reg : 0..RegMod - 1]) /\ Len(moved) \in Nat
      /\ ioReq.size \in Nat /\ ioReq.addr \in Nat /\ ioReq.fixed \in BOOLEAN
      /\ Len(moved) <= ioReq.size
      /\ \A k \in 1..Len(moved) : moved[k] = [byte |-> k - 1, reg |-> Register(k - 1)]
  BY <1>1 DEF IoIInv, MoveTypeOK, IoPlaceOK, InOrder
<1>3. /\ Wanted \in Seq(T) /\ Len(Wanted) = ioReq.size
      /\ \A k \in 1..ioReq.size :
             Wanted[k] = [byte |-> k - 1, reg |-> Register(k - 1)]
  <2>1. \A k \in 1..ioReq.size : k - 1 \in Nat /\ Register(k - 1) \in Nat
    BY <1>2 DEF Register
  <2>2. Wanted = [k \in 1..ioReq.size |-> [byte |-> k - 1, reg |-> Register(k - 1)]]
    BY DEF Wanted, Register
  <2>3. Wanted \in [1..ioReq.size -> T]
    BY <1>0, <2>1, <2>2
  <2>4. Wanted \in Seq(T) /\ Len(Wanted) = ioReq.size
    BY <1>2, <2>3, FunctionIsSeq
  <2>5. \A k \in 1..ioReq.size :
            Wanted[k] = [byte |-> k - 1, reg |-> Register(k - 1)]
    BY <2>2
  <2>. QED
    BY <2>4, <2>5
<1>4. moved \in Seq(T)
  BY <1>0, <1>2, SeqMonotonic
<1>5. IsPrefix(moved, Wanted)
  <2>1. \A k \in 1..Len(moved) : Wanted[k] = moved[k] /\ moved[k] \in T
    <3>. TAKE k \in 1..Len(moved)
    <3>1. k \in 1..ioReq.size
      BY <1>2
    <3>2. moved[k] \in T
      BY <1>4, ElementOfSeq
    <3>. QED
      BY <1>2, <1>3, <3>1, <3>2
  <2>2. LET s == SubSeq(Wanted, 1, Len(moved))
        IN  /\ s \in Seq(T) /\ Len(s) = Len(moved)
            /\ \A k \in 1..Len(moved) : s[k] = Wanted[k]
    <3>1. \A k \in 1..Len(moved) : Wanted[k] \in T
      BY <2>1
    <3>2. /\ SubSeq(Wanted, 1, Len(moved)) \in Seq(T)
          /\ Len(SubSeq(Wanted, 1, Len(moved)))
                 = IF 1 <= Len(moved) THEN Len(moved) - 1 + 1 ELSE 0
          /\ \A k \in 1..Len(moved) - 1 + 1 :
                 SubSeq(Wanted, 1, Len(moved))[k] = Wanted[1 + k - 1]
      BY <1>2, <3>1, SubSeqProperties
    <3>3. \A k \in 1..Len(moved) : k \in 1..Len(moved) - 1 + 1 /\ 1 + k - 1 = k
      BY <1>2
    <3>. QED
      BY <1>2, <3>2, <3>3
  <2>3. SubSeq(Wanted, 1, Len(moved)) = moved
    BY <1>2, <1>4, <2>1, <2>2, SeqEqual
  <2>4. SubSeq(moved, 1, Len(moved)) = moved
    BY <1>4, SubSeqFull
  <2>. QED
    BY <1>2, <1>3, <2>3, <2>4 DEF IsPrefix
<1>6. Len(moved) = ioReq.size => moved = Wanted
  <2>. SUFFICES ASSUME Len(moved) = ioReq.size
                PROVE  moved = Wanted
    OBVIOUS
  <2>1. Len(moved) = Len(Wanted) /\ \A k \in 1..Len(moved) : moved[k] = Wanted[k]
    BY <1>2, <1>3
  <2>. QED
    BY <1>3, <1>4, <2>1, SeqEqual
<1>. QED
  BY <1>1, <1>5, <1>6 DEF IoIInv, IoPlaceOK

-----------------------------------------------------------------------------
(* Induction over numbers, and functions that jump *)

\* A set of numbers that is not empty has a least one.
LEMMA LeastNat ==
    ASSUME NEW T, T \subseteq Nat, T # {}
    PROVE  \E x \in T : \A y \in T : x <= y
<1>. DEFINE R == {ss \in Nat \X Nat : ss[1] < ss[2]}
<1>1. IsWellFoundedOn(R, Nat)
  BY NatLessThanWellFounded DEF OpToRel
<1>. HIDE DEF R
<1>2. PICK x \in T : \A y \in T : ~(<<y, x>> \in R)
  BY <1>1, WFMin
<1>3. ASSUME NEW y \in T, y < x PROVE <<y, x>> \in R
  BY <1>3 DEF R
<1>4. ASSUME NEW y \in T PROVE x <= y
  <2>1. x \in Nat /\ y \in Nat
    OBVIOUS
  <2>2. ~(y < x)
    BY <1>2, <1>3
  <2>. QED
    BY <2>1, <2>2
<1>. QED
  BY <1>4

\* Induction from N downwards: what holds from N on, and of a number whenever it holds
\* of all above it, holds of every number.
LEMMA DownInduction ==
    ASSUME NEW S, NEW N \in Nat,
           \A o \in Nat : o >= N => o \in S,
           \A o \in Nat : (\A p \in Nat : p > o => p \in S) => o \in S
    PROVE  Nat \subseteq S
<1>. SUFFICES ASSUME Nat \ S # {} PROVE FALSE
  OBVIOUS
<1>. DEFINE T == {n \in Nat : \E o \in Nat \ S : o + n = N}
<1>1. \A o \in Nat \ S : N - o \in T
  <2>. TAKE o \in Nat \ S
  <2>1. o < N
    OBVIOUS
  <2>2. N - o \in Nat /\ o + (N - o) = N
    BY <2>1
  <2>. QED
    BY <2>2
<1>2. T # {} /\ T \subseteq Nat
  BY <1>1
<1>3. PICK n \in T : \A k \in T : n <= k
  <2>. HIDE DEF T
  <2>. QED
    BY <1>2, LeastNat
<1>4. PICK o \in Nat \ S : o + n = N
  BY <1>3
<1>5. \A p \in Nat : p > o => p \in S
  <2>. SUFFICES ASSUME NEW p \in Nat \ S, p > o PROVE FALSE
    OBVIOUS
  <2>1. n <= N - p /\ n \in Nat
    BY <1>1, <1>2, <1>3
  <2>. QED
    BY <1>4, <2>1
<1>. QED
  BY <1>4, <1>5

\* What is given at the places of stop, which are all from N on, and goes on from any
\* other place at a later one.
Jumps(R, N, stop, base, next) ==
    /\ N \in Nat /\ stop \subseteq Nat
    /\ base \in [Nat -> R] /\ next \in [Nat -> Nat]
    /\ \A o \in Nat : o >= N => o \in stop
    /\ \A o \in Nat \ stop : next[o] > o

\* There is such a function.
LEMMA JumpsEnd ==
    ASSUME NEW R, NEW N, NEW stop, NEW base, NEW next, Jumps(R, N, stop, base, next)
    PROVE  \E h \in [Nat -> R] :
              \A o \in Nat : h[o] = IF o \in stop THEN base[o] ELSE h[next[o]]
<1>. USE DEF Jumps
<1>. DEFINE Step(g, o) == IF o \in stop THEN base[o] ELSE g[next[o]]
            From(g, m) == \A o \in Nat : o >= m => g[o] = Step(g, o)
            S == {m \in Nat : \E g \in [Nat -> R] : From(g, m)}
<1>1. \A m \in Nat : m >= N => m \in S
  <2>. TAKE m \in Nat
  <2>1. m >= N => From(base, m)
    OBVIOUS
  <2>. QED
    BY <2>1
<1>2. ASSUME NEW m \in Nat, \A p \in Nat : p > m => p \in S PROVE m \in S
  <2>0. m + 1 \in S
    BY <1>2
  <2>1. PICK g \in [Nat -> R] : From(g, m + 1)
    BY <2>0
  <2>. DEFINE h == [g EXCEPT ![m] = Step(g, m)]
  <2>2. h \in [Nat -> R] /\ h[m] = Step(g, m) /\ \A o \in Nat \ {m} : h[o] = g[o]
    OBVIOUS
  <2>. HIDE DEF h
  <2>3. ASSUME NEW o \in Nat, o >= m PROVE h[o] = Step(h, o)
    <3>1. o \notin stop => h[next[o]] = g[next[o]]
      BY <2>2, <2>3
    <3>2. Step(h, o) = Step(g, o)
      BY <3>1
    <3>3. CASE o = m
      BY <2>2, <3>2, <3>3
    <3>4. CASE o >= m + 1
      BY <2>1, <2>2, <3>2, <3>4
    <3>. QED
      BY <2>3, <3>3, <3>4
  <2>. QED
    BY <2>2, <2>3
<1>3. 0 \in S
  <2>. HIDE DEF S
  <2>1. Nat \subseteq S
    BY <1>1, <1>2, DownInduction
  <2>. QED
    BY <2>1
<1>4. PICK h \in [Nat -> R] : From(h, 0)
  BY <1>3
<1>. QED
  BY <1>4

-----------------------------------------------------------------------------
(* The CIS, read in chunks *)

\* b begins with what has been read.
Continues(b) == Len(b) >= Len(cis) /\ \A k \in 1..Len(cis) : b[k] = cis[k]

\* Between two chunks: whatever follows, the chain of tuples ends where the one from
\* the cursor does.  The cursor is past what was read, or at its last byte, the code
\* of a tuple whose length was not read yet.
CisBetween ==
    /\ ioReq.limit > 0 => Len(cis) < ioReq.limit
    /\ cursor >= Len(cis) - 1
    /\ cursor = Len(cis) - 1 => cis[Len(cis)] # End
    /\ \A b \in Seq(Codes) :
          Continues(b) => ChainEnds(b)[0] = ChainEnds(b)[cursor]
    /\ out = SubSeq(cis, 1, Min({Len(cis), ioReq.size}))

\* What a call has read when it returned.
CisAtEnd ==
    LET e == ChainEnds(cis)[0]
    IN  /\ ioRet \in {"ok", "invalid_size"} =>
              /\ e > Len(cis) - CisPart /\ cisSize = e
              /\ out = SubSeq(cis, 1, Min({e, ioReq.size}))
              /\ (ioRet = "ok") = (e <= ioReq.size)
        /\ ioRet = "not_found" =>
              e = 0 /\ Len(cis) >= ioReq.limit /\ ioReq.limit > 0

CisPlaceOK ==
    /\ ioPc \in {"cis_address", "cis"} => ioReq.op = "cis"
    /\ ioReq.op = "cis" => ioPc \in {"cis_address", "cis", "idle"}
    /\ ioPc = "cis_address" => cis = <<>> /\ cursor = 0 /\ out = <<>>
    /\ ioPc = "cis" => CisBetween
    /\ ioReq.op = "cis" /\ ioPc = "idle" => CisAtEnd

CisIInv == ioReq \in Request /\ CisTypeOK /\ CisPlaceOK

\* check_tuples_in_buffer from an offset: the end of the chain in the chunk, or the same
\* from the next tuple, or how far it got.
LEMMA WalkOn ==
    ASSUME NEW buf \in [1..CisPart -> Codes], NEW o \in Nat
    PROVE  Walks(buf)[o] =
              IF o < CisPart /\ buf[o + 1] = End
              THEN [found |-> TRUE, offset |-> o + 1]
              ELSE IF o + 1 < CisPart THEN Walks(buf)[o + buf[o + 2] + 2]
              ELSE [found |-> FALSE, offset |-> o]
<1>. DEFINE
       Walked(g) ==
          [p \in Nat |->
              IF p < CisPart /\ buf[p + 1] = End
              THEN [found |-> TRUE, offset |-> p + 1]
              ELSE IF p + 1 < CisPart THEN g[p + buf[p + 2] + 2]
              ELSE [found |-> FALSE, offset |-> p]]
       R == [found : BOOLEAN, offset : Nat]
       stop == {p \in Nat : (p < CisPart /\ buf[p + 1] = End) \/ p + 1 >= CisPart}
       base == [p \in Nat |-> IF p < CisPart /\ buf[p + 1] = End
                              THEN [found |-> TRUE, offset |-> p + 1]
                              ELSE [found |-> FALSE, offset |-> p]]
       next == [p \in Nat |-> IF p + 1 < CisPart THEN p + buf[p + 2] + 2 ELSE 0]
<1>0. CisPart \in Nat /\ Codes \subseteq Nat
  BY SdIoAssumption
<1>1. /\ base \in [Nat -> R] /\ stop \in SUBSET Nat
      /\ \A p \in Nat : p >= CisPart => p \in stop
  BY <1>0
<1>2. ASSUME NEW p \in Nat, p + 1 < CisPart PROVE buf[p + 2] \in Nat
  <2>1. p + 2 \in 1..CisPart
    BY <1>0, <1>2
  <2>. QED
    BY <1>0, <2>1
<1>3. next \in [Nat -> Nat] /\ \A p \in Nat \ stop : next[p] > p
  BY <1>0, <1>2
<1>4. PICK h \in [Nat -> R] :
          \A p \in Nat : h[p] = IF p \in stop THEN base[p] ELSE h[next[p]]
  <2>. HIDE DEF R, stop, base, next
  <2>1. Jumps(R, CisPart, stop, base, next)
    BY <1>0, <1>1, <1>3 DEF Jumps
  <2>. QED
    BY <2>1, JumpsEnd
<1>5. h = Walked(h)
  <2>1. ASSUME NEW p \in Nat PROVE h[p] = Walked(h)[p]
    BY <1>0, <1>4
  <2>2. h = [p \in Nat |-> h[p]]
    BY <1>4
  <2>. QED
    BY <2>1, <2>2
<1>6. Walks(buf) = CHOOSE g : g = Walked(g)
  BY DEF Walks
<1>7. Walks(buf) = Walked(Walks(buf))
  <2>. HIDE DEF Walked
  <2>. QED
    BY <1>5, <1>6
<1>. QED
  BY <1>7

\* The chain of tuples of bytes b, from an offset: its end, or the same from the next
\* tuple.
LEMMA ChainOn ==
    ASSUME NEW b \in Seq(Codes), NEW o \in Nat
    PROVE  ChainEnds(b)[o] =
              IF o >= Len(b) THEN 0
              ELSE IF b[o + 1] = End THEN o + 1
              ELSE IF o + 1 >= Len(b) THEN 0 ELSE ChainEnds(b)[o + b[o + 2] + 2]
<1>. DEFINE
       Ended(g) ==
          [p \in Nat |->
              IF p >= Len(b) THEN 0
              ELSE IF b[p + 1] = End THEN p + 1
              ELSE IF p + 1 >= Len(b) THEN 0 ELSE g[p + b[p + 2] + 2]]
       stop == {p \in Nat : (p < Len(b) /\ b[p + 1] = End) \/ p + 1 >= Len(b)}
       base == [p \in Nat |-> IF p < Len(b) /\ b[p + 1] = End THEN p + 1 ELSE 0]
       next == [p \in Nat |-> IF p + 1 < Len(b) THEN p + b[p + 2] + 2 ELSE 0]
<1>0. Len(b) \in Nat /\ Codes \subseteq Nat /\ \A k \in 1..Len(b) : b[k] \in Codes
  BY SdIoAssumption, ElementOfSeq, LenProperties
<1>1. /\ base \in [Nat -> Nat] /\ stop \in SUBSET Nat
      /\ \A p \in Nat : p >= Len(b) => p \in stop
  BY <1>0
<1>2. ASSUME NEW p \in Nat, p + 1 < Len(b) PROVE b[p + 2] \in Nat
  <2>1. p + 2 \in 1..Len(b)
    BY <1>0, <1>2
  <2>. QED
    BY <1>0, <2>1
<1>3. next \in [Nat -> Nat] /\ \A p \in Nat \ stop : next[p] > p
  BY <1>0, <1>2
<1>4. PICK h \in [Nat -> Nat] :
          \A p \in Nat : h[p] = IF p \in stop THEN base[p] ELSE h[next[p]]
  <2>. HIDE DEF stop, base, next
  <2>1. Jumps(Nat, Len(b), stop, base, next)
    BY <1>0, <1>1, <1>3 DEF Jumps
  <2>. QED
    BY <2>1, JumpsEnd
<1>5. h = Ended(h)
  <2>1. ASSUME NEW p \in Nat PROVE h[p] = Ended(h)[p]
    <3>1. h[p] = IF p \in stop THEN base[p] ELSE h[next[p]]
      BY <1>4
    <3>2. CASE p \in stop
      BY <1>0, <3>1, <3>2
    <3>3. CASE p \notin stop
      <4>1. /\ Len(b) \in Nat /\ ~(p + 1 >= Len(b))
            /\ p < Len(b) => b[p + 1] # End
        BY <1>0, <3>3
      <4>2. p + 1 < Len(b) /\ p < Len(b) /\ ~(p >= Len(b))
        BY <4>1
      <4>3. h[p] = h[p + b[p + 2] + 2] /\ b[p + 1] # End
        BY <3>1, <3>3, <4>1, <4>2
      <4>. QED
        BY <4>1, <4>2, <4>3
    <3>. QED
      BY <3>2, <3>3
  <2>2. h = [p \in Nat |-> h[p]]
    BY <1>4
  <2>. QED
    BY <2>1, <2>2
<1>6. ChainEnds(b) = CHOOSE g : g = Ended(g)
  BY DEF ChainEnds
<1>7. ChainEnds(b) = Ended(ChainEnds(b))
  <2>. HIDE DEF Ended
  <2>. QED
    BY <1>5, <1>6
<1>. QED
  BY <1>7

\* Where a walk of a chunk got to, and what it means for the bytes b it is a part of,
\* from their L-th byte on: they end where the walk found an end; else their chain
\* goes on where the walk stopped, which is past the chunk or at its last byte, the
\* code of a tuple whose length is in the next.
LEMMA WalkIsChain ==
    ASSUME NEW buf \in [1..CisPart -> Codes], NEW b \in Seq(Codes), NEW L \in Nat,
           Len(b) >= L + CisPart, \A k \in 1..CisPart : b[L + k] = buf[k],
           NEW o \in Nat
    PROVE  LET w == Walks(buf)[o]
           IN  /\ w \in [found : BOOLEAN, offset : Nat]
               /\ w.found => /\ w.offset \in 1..CisPart
                             /\ ChainEnds(b)[L + o] = L + w.offset
               /\ ~w.found => /\ w.offset >= CisPart - 1
                              /\ ChainEnds(b)[L + o] = ChainEnds(b)[L + w.offset]
                              /\ w.offset = CisPart - 1 => buf[CisPart] # End
<1>. DEFINE
       Agrees(p, w) ==
           /\ w \in [found : BOOLEAN, offset : Nat]
           /\ w.found => /\ w.offset \in 1..CisPart
                         /\ ChainEnds(b)[L + p] = L + w.offset
           /\ ~w.found => /\ w.offset >= CisPart - 1
                          /\ ChainEnds(b)[L + p] = ChainEnds(b)[L + w.offset]
                          /\ w.offset = CisPart - 1 => buf[CisPart] # End
       S == {p \in Nat : Agrees(p, Walks(buf)[p])}
<1>0. /\ CisPart \in Nat \ {0} /\ Codes \subseteq Nat /\ Len(b) \in Nat
      /\ \A p \in Nat : p < CisPart => L + p < Len(b) /\ b[L + p + 1] = buf[p + 1]
  <2>1. CisPart \in Nat \ {0} /\ Codes \subseteq Nat /\ Len(b) \in Nat
    BY SdIoAssumption, LenProperties
  <2>2. ASSUME NEW p \in Nat, p < CisPart
        PROVE  L + p < Len(b) /\ b[L + p + 1] = buf[p + 1]
    <3>1. p + 1 \in 1..CisPart /\ L + (p + 1) = L + p + 1
      BY <2>1, <2>2
    <3>. QED
      BY <2>1, <2>2, <3>1
  <2>. QED
    BY <2>1, <2>2
\* A chain that has an end in the chunk.
<1>1. ASSUME NEW p \in Nat, p < CisPart, buf[p + 1] = End PROVE p \in S
  <2>1. Walks(buf)[p] = [found |-> TRUE, offset |-> p + 1]
    BY <1>1, WalkOn
  <2>2. L + p \in Nat /\ L + p < Len(b) /\ b[L + p + 1] = End /\ Len(b) \in Nat
    BY <1>0, <1>1
  <2>3. ChainEnds(b)[L + p] = L + (p + 1)
    BY <2>2, ChainOn
  <2>4. p + 1 \in 1..CisPart /\ [found |-> TRUE, offset |-> p + 1].found
    BY <1>0, <1>1
  <2>5. Agrees(p, [found |-> TRUE, offset |-> p + 1])
    BY <2>3, <2>4
  <2>. QED
    BY <2>1, <2>5
\* A walk that has got out of the chunk, or to the length of its last tuple.
<1>2. ASSUME NEW p \in Nat, p + 1 >= CisPart, ~(p < CisPart /\ buf[p + 1] = End)
      PROVE  p \in S
  <2>1. Walks(buf)[p] = [found |-> FALSE, offset |-> p]
    <3>1. ~(p + 1 < CisPart)
      BY <1>0, <1>2
    <3>. QED
      BY <1>2, <3>1, WalkOn
  <2>2. p >= CisPart - 1 /\ (p = CisPart - 1 => buf[CisPart] # End)
    <3>1. p = CisPart - 1 => p < CisPart /\ p + 1 = CisPart
      BY <1>0
    <3>. QED
      BY <1>0, <1>2, <3>1
  <2>3. Agrees(p, [found |-> FALSE, offset |-> p])
    BY <2>2
  <2>. QED
    BY <2>1, <2>3
\* A walk that goes on to the next tuple.
<1>3. ASSUME NEW p \in Nat, p + 1 < CisPart, buf[p + 1] # End,
             \A q \in Nat : q > p => q \in S
      PROVE  p \in S
  <2>. DEFINE q == p + buf[p + 2] + 2
  <2>1. /\ buf[p + 2] \in Nat /\ p + 1 \in Nat
        /\ L + p \in Nat /\ L + p + 1 < Len(b) /\ b[L + p + 1] = buf[p + 1]
        /\ b[L + p + 2] = buf[p + 2]
    <3>1. L + (p + 1) < Len(b) /\ b[L + (p + 1) + 1] = buf[(p + 1) + 1]
      BY <1>0, <1>3
    <3>2. L + (p + 1) + 1 = L + p + 2 /\ (p + 1) + 1 = p + 2 /\ L + (p + 1) = L + p + 1
      OBVIOUS
    <3>3. p + 2 \in 1..CisPart /\ buf[p + 2] \in Nat
      <4>1. p + 2 \in 1..CisPart
        BY <1>0, <1>3
      <4>. QED
        BY <1>0, <4>1
    <3>4. b[L + p + 1] = buf[p + 1]
      <4>1. p < CisPart
        BY <1>0, <1>3
      <4>. QED
        BY <1>0, <4>1
    <3>. QED
      BY <3>1, <3>2, <3>3, <3>4
  <2>2. q \in Nat /\ q > p /\ L + q = (L + p) + b[L + p + 2] + 2
    <3>1. ASSUME NEW n \in Nat
          PROVE  /\ p + n + 2 \in Nat /\ p + n + 2 > p
                 /\ L + (p + n + 2) = (L + p) + n + 2
      OBVIOUS
    <3>2. buf[p + 2] \in Nat /\ b[L + p + 2] = buf[p + 2]
      BY <2>1
    <3>. QED
      BY <3>1, <3>2
  <2>3. Walks(buf)[p] = Walks(buf)[q]
    BY <1>0, <1>3, WalkOn
  <2>4. ChainEnds(b)[L + p] = ChainEnds(b)[L + q]
    <3>1. ~(L + p >= Len(b)) /\ ~(L + p + 1 >= Len(b)) /\ b[L + p + 1] # End
      BY <1>0, <1>3, <2>1
    <3>. QED
      BY <2>1, <2>2, <3>1, ChainOn
  <2>. HIDE DEF q
  <2>5. Agrees(q, Walks(buf)[q])
    BY <1>3, <2>2
  <2>. QED
    BY <2>3, <2>4, <2>5
<1>4. \A p \in Nat : p >= CisPart => p \in S
  BY <1>0, <1>2
<1>5. \A p \in Nat : (\A q \in Nat : q > p => q \in S) => p \in S
  <2>. HIDE DEF S
  <2>. SUFFICES ASSUME NEW p \in Nat, \A q \in Nat : q > p => q \in S PROVE p \in S
    OBVIOUS
  <2>1. \/ p < CisPart /\ buf[p + 1] = End
        \/ p + 1 >= CisPart /\ ~(p < CisPart /\ buf[p + 1] = End)
        \/ p + 1 < CisPart /\ buf[p + 1] # End
    BY <1>0
  <2>. QED
    BY <1>1, <1>2, <1>3, <2>1
<1>6. o \in S
  <2>. HIDE DEF S
  <2>1. Nat \subseteq S
    BY <1>0, <1>4, <1>5, DownInduction
  <2>. QED
    BY <2>1
<1>. QED
  BY <1>6

\* The least of two numbers.
LEMMA LessOf ==
    ASSUME NEW m \in Int, NEW n \in Int
    PROVE  Min({m, n}) = IF m <= n THEN m ELSE n
BY DEF Min

\* The first n of a sequence.
LEMMA FirstOf ==
    ASSUME NEW S, NEW s \in Seq(S), NEW n \in 0..Len(s)
    PROVE  /\ SubSeq(s, 1, n) \in Seq(S) /\ Len(SubSeq(s, 1, n)) = n
           /\ \A k \in 1..n : SubSeq(s, 1, n)[k] = s[k]
<1>1. \A k \in 1..n : s[k] \in S
  BY ElementOfSeq, LenProperties
<1>2. /\ SubSeq(s, 1, n) \in Seq(S)
      /\ Len(SubSeq(s, 1, n)) = IF 1 <= n THEN n - 1 + 1 ELSE 0
      /\ \A k \in 1..n - 1 + 1 : SubSeq(s, 1, n)[k] = s[1 + k - 1]
  BY <1>1, SubSeqProperties
<1>3. n \in Nat /\ n - 1 + 1 = n /\ \A k \in 1..n : 1 + k - 1 = k
  BY LenProperties
<1>. QED
  BY <1>2, <1>3

\* The first n of s are taken and then, of the first t of r, as many as n leaves room
\* for: these are the first n of the two one after the other.
TakesBoth(s, r, n, t) ==
    SubSeq(s, 1, Min({Len(s), n})) \o SubSeq(r, 1, Min({t, n - Len(s)}))
        = SubSeq(s \o r, 1, Min({Len(s) + t, n}))

\* It is so for all of them.
LEMMA FirstOfBoth ==
    ASSUME NEW S, NEW s \in Seq(S), NEW r \in Seq(S), NEW n \in Nat, NEW t \in 0..Len(r)
    PROVE  TakesBoth(s, r, n, t)
<1>1. /\ Len(s) \in Nat /\ Len(r) \in Nat /\ t \in Nat
      /\ s \o r \in Seq(S) /\ Len(s \o r) = Len(s) + Len(r)
      /\ \A k \in 1..Len(s) + Len(r) :
             (s \o r)[k] = IF k <= Len(s) THEN s[k] ELSE r[k - Len(s)]
  BY LenProperties, ConcatProperties
<1>2. CASE n <= Len(s)
  <2>1. /\ Min({Len(s), n}) = n /\ Min({t, n - Len(s)}) <= 0
        /\ Min({t, n - Len(s)}) \in Int
        /\ Min({Len(s) + t, n}) = n
    <3>1. Min({Len(s), n}) = n
      <4>1. Min({Len(s), n}) = IF Len(s) <= n THEN Len(s) ELSE n
        BY <1>1, LessOf
      <4>. QED
        BY <1>1, <1>2, <4>1
    <3>2. Min({t, n - Len(s)}) = IF t <= n - Len(s) THEN t ELSE n - Len(s)
      BY <1>1, LessOf
    <3>3. Min({Len(s) + t, n}) = n
      <4>1. Min({Len(s) + t, n}) = IF Len(s) + t <= n THEN Len(s) + t ELSE n
        BY <1>1, LessOf
      <4>. QED
        BY <1>1, <1>2, <4>1
    <3>. QED
      BY <1>1, <1>2, <3>1, <3>2, <3>3
  <2>2. SubSeq(r, 1, Min({t, n - Len(s)})) = <<>>
    BY <2>1, SubSeqEmpty
  <2>3. /\ SubSeq(s, 1, n) \in Seq(S) /\ Len(SubSeq(s, 1, n)) = n
        /\ \A k \in 1..n : SubSeq(s, 1, n)[k] = s[k]
    BY <1>1, <1>2, FirstOf
  <2>4. /\ SubSeq(s \o r, 1, n) \in Seq(S) /\ Len(SubSeq(s \o r, 1, n)) = n
        /\ \A k \in 1..n : SubSeq(s \o r, 1, n)[k] = (s \o r)[k]
    BY <1>1, <1>2, FirstOf
  <2>5. \A k \in 1..n : (s \o r)[k] = s[k]
    BY <1>1, <1>2
  <2>6. SubSeq(s \o r, 1, n) = SubSeq(s, 1, n)
    BY <2>3, <2>4, <2>5, SeqEqual
  <2>. QED
    BY <2>1, <2>2, <2>3, <2>6, ConcatEmptySeq DEF TakesBoth
<1>3. CASE n > Len(s)
  <2>. DEFINE m == Min({t, n - Len(s)})
  <2>1. /\ Min({Len(s), n}) = Len(s) /\ m \in 0..Len(r)
        /\ Min({Len(s) + t, n}) = Len(s) + m
    <3>1. /\ Min({Len(s), n}) = IF Len(s) <= n THEN Len(s) ELSE n
          /\ Min({t, n - Len(s)}) = IF t <= n - Len(s) THEN t ELSE n - Len(s)
          /\ Min({Len(s) + t, n}) = IF Len(s) + t <= n THEN Len(s) + t ELSE n
      <4>1. Len(s) \in Int /\ n \in Int /\ t \in Int /\ n - Len(s) \in Int
            /\ Len(s) + t \in Int
        BY <1>1
      <4>. QED
        BY <4>1, LessOf
    <3>. QED
      BY <1>1, <1>3, <3>1
  <2>. HIDE DEF m
  <2>2. SubSeq(s, 1, Len(s)) = s
    BY SubSeqFull
  <2>3. /\ SubSeq(r, 1, m) \in Seq(S) /\ Len(SubSeq(r, 1, m)) = m
        /\ \A k \in 1..m : SubSeq(r, 1, m)[k] = r[k]
    BY <2>1, FirstOf
  <2>. DEFINE one == s \o SubSeq(r, 1, m)
              two == SubSeq(s \o r, 1, Len(s) + m)
  <2>4. /\ one \in Seq(S) /\ Len(one) = Len(s) + m
        /\ \A k \in 1..Len(s) + m :
               one[k] = IF k <= Len(s) THEN s[k] ELSE SubSeq(r, 1, m)[k - Len(s)]
    BY <2>3, ConcatProperties
  <2>5. /\ two \in Seq(S) /\ Len(two) = Len(s) + m
        /\ \A k \in 1..Len(s) + m : two[k] = (s \o r)[k]
    BY <1>1, <2>1, FirstOf
  <2>. HIDE DEF one, two
  <2>6. ASSUME NEW k \in 1..Len(s) + m PROVE one[k] = two[k]
    <3>1. k \in 1..Len(s) + Len(r)
      BY <1>1, <2>1
    <3>2. CASE k <= Len(s)
      BY <1>1, <2>4, <2>5, <3>1, <3>2
    <3>3. CASE ~(k <= Len(s))
      <4>1. k - Len(s) \in 1..m
        BY <1>1, <2>1, <3>3
      <4>. QED
        BY <1>1, <2>3, <2>4, <2>5, <3>1, <3>3, <4>1
    <3>. QED
      BY <3>2, <3>3
  <2>7. one = two
    BY <2>4, <2>5, <2>6, SeqEqual
  <2>. QED
    BY <2>1, <2>2, <2>7 DEF TakesBoth, m, one, two
<1>4. n <= Len(s) \/ n > Len(s)
  BY <1>1
<1>. QED
  BY <1>2, <1>3, <1>4

\* A chunk that is read next, and any bytes b that begin with all that has been read
\* then: either the walk of the chunk finds where the chain of b ends, or it ends where
\* the one from the new cursor does.
LEMMA ChunkInChain ==
    ASSUME CisIInv, CisBetween, NEW buf \in [1..CisPart -> Codes],
           NEW b \in Seq(Codes), Continues(b), Len(b) >= Len(cis) + CisPart,
           \A k \in 1..CisPart : b[Len(cis) + k] = buf[k]
    PROVE  LET w == Walk(buf, cursor - Len(cis))
           IN  /\ w \in [found : BOOLEAN, offset : Nat]
               /\ w.found => /\ w.offset \in 1..CisPart
                             /\ ChainEnds(b)[0] = Len(cis) + w.offset
               /\ ~w.found => /\ w.offset >= CisPart - 1
                              /\ ChainEnds(b)[0] = ChainEnds(b)[Len(cis) + w.offset]
                              /\ w.offset = CisPart - 1 => buf[CisPart] # End
<1>. DEFINE o == IF cursor - Len(cis) = -1 THEN buf[1] + 1 ELSE cursor - Len(cis)
<1>0. /\ cis \in Seq(Codes) /\ Len(cis) \in Nat /\ cursor \in Nat /\ Len(b) \in Nat
      /\ cursor >= Len(cis) - 1 /\ CisPart \in Nat \ {0} /\ Codes \subseteq Nat
  BY SdIoAssumption, LenProperties DEF CisIInv, CisTypeOK, CisBetween
<1>1. buf[1] \in Nat /\ o \in Nat
  <2>1. 1 \in 1..CisPart
    BY <1>0
  <2>2. buf[1] \in Nat
    BY <1>0, <2>1
  <2>. QED
    BY <1>0, <2>2
<1>2. ChainEnds(b)[0] = ChainEnds(b)[Len(cis) + o]
  <2>1. ChainEnds(b)[0] = ChainEnds(b)[cursor]
    BY DEF CisBetween
  <2>2. CASE cursor - Len(cis) # -1
    <3>1. Len(cis) + o = cursor
      BY <1>0, <2>2
    <3>. QED
      BY <2>1, <3>1
  <2>3. CASE cursor - Len(cis) = -1
    <3>1. cursor + 1 = Len(cis) /\ Len(cis) \in 1..Len(cis) /\ cursor = Len(cis) - 1
      BY <1>0, <2>3
    <3>2. b[cursor + 1] # End
      BY <3>1 DEF CisBetween, Continues
    <3>3. ~(cursor >= Len(b)) /\ ~(cursor + 1 >= Len(b))
      BY <1>0, <3>1
    <3>4. b[cursor + 2] = buf[1]
      <4>1. 1 \in 1..CisPart /\ cursor + 2 = Len(cis) + 1
        BY <1>0, <3>1
      <4>. QED
        BY <4>1
    <3>5. ChainEnds(b)[cursor] = ChainEnds(b)[cursor + b[cursor + 2] + 2]
      BY <1>0, <3>2, <3>3, ChainOn
    <3>6. cursor + b[cursor + 2] + 2 = Len(cis) + o
      BY <1>0, <1>1, <2>3, <3>1, <3>4
    <3>. QED
      BY <2>1, <3>5, <3>6
  <2>. QED
    BY <2>2, <2>3
<1>3. Walk(buf, cursor - Len(cis)) = Walks(buf)[o]
  BY DEF Walk
<1>. HIDE DEF o
<1>. DEFINE w == Walks(buf)[o]
<1>4. /\ w \in [found : BOOLEAN, offset : Nat]
      /\ w.found => /\ w.offset \in 1..CisPart
                    /\ ChainEnds(b)[Len(cis) + o] = Len(cis) + w.offset
      /\ ~w.found => /\ w.offset >= CisPart - 1
                     /\ ChainEnds(b)[Len(cis) + o] = ChainEnds(b)[Len(cis) + w.offset]
                     /\ w.offset = CisPart - 1 => buf[CisPart] # End
  BY <1>0, <1>1, WalkIsChain
<1>. HIDE DEF w
<1>5. Walk(buf, cursor - Len(cis)) = w
  BY <1>3 DEF w
<1>. QED
  BY <1>2, <1>4, <1>5

\* A chunk is read.
LEMMA CisChunkOK == ASSUME CisIInv, CisChunk PROVE CisIInv'
<1>1. /\ ioPc = "cis" /\ ioReq.op = "cis" /\ CisBetween /\ ioReq \in Request
      /\ UNCHANGED ioReq /\ Len(cis) + CisPart <= MaxCis
  BY DEF CisChunk, CisIInv, CisPlaceOK
<1>2. /\ cis \in Seq(Codes) /\ out \in Seq(Codes) /\ cursor \in Nat /\ cisSize \in Nat
      /\ Len(cis) \in Nat /\ CisPart \in Nat \ {0} /\ Codes \subseteq Nat
      /\ ioReq.size \in Nat /\ ioReq.limit \in Nat /\ MaxCis \in Nat
  BY <1>1, SdIoAssumption, LenProperties DEF CisIInv, CisTypeOK, Request
<1>3. PICK buf \in [1..CisPart -> Codes] :
         LET w == Walk(buf, cursor - Len(cis))
             copy == Min({IF w.found THEN w.offset ELSE CisPart,
                          ioReq.size - Len(cis)})
         IN  /\ cis' = cis \o buf
             /\ cursor' = Len(cis) + w.offset
             /\ out' = out \o SubSeq(buf, 1, copy)
             /\ cisSize' = IF w.found THEN cursor' ELSE cisSize
             /\ IF w.found
                THEN IoReturn(IF cursor' > ioReq.size THEN "invalid_size" ELSE "ok")
                ELSE IF ioReq.limit = 0 \/ Len(cis') < ioReq.limit
                THEN UNCHANGED <<ioPc, ioRet>>
                ELSE IoReturn("not_found")
  BY DEF CisChunk
<1>. DEFINE w == Walk(buf, cursor - Len(cis))
            t == IF w.found THEN w.offset ELSE CisPart
            fits(n) == out' = SubSeq(cis', 1, Min({n, ioReq.size}))
<1>4. buf \in Seq(Codes) /\ Len(buf) = CisPart
  BY <1>2, FunctionIsSeq
<1>5. /\ cis' \in Seq(Codes) /\ Len(cis') = Len(cis) + CisPart
      /\ \A k \in 1..Len(cis) : cis'[k] = cis[k]
      /\ \A k \in 1..CisPart : cis'[Len(cis) + k] = buf[k]
  <2>1. /\ cis \o buf \in Seq(Codes) /\ Len(cis \o buf) = Len(cis) + Len(buf)
        /\ \A k \in 1..Len(cis) + Len(buf) :
               (cis \o buf)[k] = IF k <= Len(cis) THEN cis[k] ELSE buf[k - Len(cis)]
    BY <1>2, <1>4, ConcatProperties
  <2>2. ASSUME NEW k \in 1..Len(cis) PROVE (cis \o buf)[k] = cis[k]
    BY <1>2, <1>4, <2>1
  <2>3. ASSUME NEW k \in 1..CisPart PROVE (cis \o buf)[Len(cis) + k] = buf[k]
    <3>1. /\ Len(cis) + k \in 1..Len(cis) + Len(buf) /\ ~(Len(cis) + k <= Len(cis))
          /\ (Len(cis) + k) - Len(cis) = k
      BY <1>2, <1>4
    <3>. QED
      BY <2>1, <3>1
  <2>. QED
    BY <1>3, <1>4, <2>1, <2>2, <2>3
\* The walk, seen in any bytes that begin with what has been read now.
<1>6. ASSUME NEW b \in Seq(Codes), Len(b) >= Len(cis'),
             \A k \in 1..Len(cis') : b[k] = cis'[k]
      PROVE  /\ w \in [found : BOOLEAN, offset : Nat]
             /\ w.found => /\ w.offset \in 1..CisPart
                           /\ ChainEnds(b)[0] = Len(cis) + w.offset
             /\ ~w.found => /\ w.offset >= CisPart - 1
                            /\ ChainEnds(b)[0] = ChainEnds(b)[Len(cis) + w.offset]
                            /\ w.offset = CisPart - 1 => buf[CisPart] # End
  <2>1. Len(b) \in Nat /\ Len(b) >= Len(cis) + CisPart /\ Len(b) >= Len(cis)
    BY <1>2, <1>5, <1>6, LenProperties
  <2>2. ASSUME NEW k \in 1..Len(cis) PROVE b[k] = cis[k]
    <3>1. k \in 1..Len(cis')
      BY <1>2, <1>5
    <3>. QED
      BY <1>5, <1>6, <3>1
  <2>3. ASSUME NEW k \in 1..CisPart PROVE b[Len(cis) + k] = buf[k]
    <3>1. Len(cis) + k \in 1..Len(cis')
      BY <1>2, <1>5
    <3>. QED
      BY <1>5, <1>6, <3>1
  <2>4. Continues(b)
    BY <2>1, <2>2 DEF Continues
  <2>. HIDE DEF w
  <2>5. w = Walk(buf, cursor - Len(cis))
    BY DEF w
  <2>. QED
    BY <1>1, <2>1, <2>3, <2>4, <2>5, ChunkInChain
<1>. DEFINE e == ChainEnds(cis')[0]
<1>7. /\ w \in [found : BOOLEAN, offset : Nat]
      /\ w.found => w.offset \in 1..CisPart /\ e = Len(cis) + w.offset
      /\ ~w.found => /\ w.offset >= CisPart - 1
                     /\ e = ChainEnds(cis')[Len(cis) + w.offset]
                     /\ w.offset = CisPart - 1 => buf[CisPart] # End
  <2>1. Len(cis') >= Len(cis')
    BY <1>2, <1>5
  <2>. HIDE DEF w
  <2>. QED
    BY <1>5, <1>6, <2>1
\* What is in the caller's buffer.
<1>8. fits(Len(cis) + t)
  <2>1. t \in 0..Len(buf)
    BY <1>2, <1>4, <1>7
  <2>2. out = SubSeq(cis, 1, Min({Len(cis), ioReq.size}))
    BY <1>1 DEF CisBetween
  <2>3. out' = out \o SubSeq(buf, 1, Min({t, ioReq.size - Len(cis)}))
    BY <1>3
  <2>. HIDE DEF t
  <2>4. SubSeq(cis, 1, Min({Len(cis), ioReq.size}))
             \o SubSeq(buf, 1, Min({t, ioReq.size - Len(cis)}))
           = SubSeq(cis \o buf, 1, Min({Len(cis) + t, ioReq.size}))
    <3>1. TakesBoth(cis, buf, ioReq.size, t)
      BY <1>2, <1>4, <2>1, FirstOfBoth
    <3>. QED
      BY <3>1 DEF TakesBoth
  <2>. QED
    BY <1>1, <1>3, <2>2, <2>3, <2>4
<1>9. /\ cursor' = Len(cis) + w.offset
      /\ cisSize' = IF w.found THEN cursor' ELSE cisSize
      /\ \/ /\ w.found /\ ioPc' = "idle"
            /\ ioRet' = IF cursor' > ioReq.size THEN "invalid_size" ELSE "ok"
         \/ /\ ~w.found /\ ioPc' = "cis"
            /\ ioReq.limit = 0 \/ Len(cis') < ioReq.limit
         \/ /\ ~w.found /\ ioPc' = "idle" /\ ioRet' = "not_found"
            /\ ioReq.limit # 0 /\ ~(Len(cis') < ioReq.limit)
  BY <1>1, <1>3 DEF IoReturn
<1>. HIDE DEF w
<1>10. CisTypeOK'
  <2>1. cursor' \in Nat /\ cisSize' \in Nat
    BY <1>2, <1>7, <1>9
  <2>2. out' \in Seq(Codes)
    <3>1. t \in 0..CisPart
      BY <1>2, <1>7
    <3>. DEFINE m == Min({Len(cis) + t, ioReq.size})
    <3>2. m \in 0..Len(cis')
      <4>1. m = IF Len(cis) + t <= ioReq.size THEN Len(cis) + t ELSE ioReq.size
        <5>1. Len(cis) + t \in Int /\ ioReq.size \in Int
          BY <1>2, <3>1
        <5>. HIDE DEF t
        <5>. QED
          BY <5>1, LessOf
      <4>. HIDE DEF t, m
      <4>. QED
        BY <1>2, <1>5, <3>1, <4>1
    <3>. HIDE DEF t, m
    <3>3. SubSeq(cis', 1, m) \in Seq(Codes)
      BY <1>5, <3>2, FirstOf
    <3>. QED
      BY <1>8, <3>3 DEF m
  <2>. QED
    BY <1>1, <1>2, <1>5, <2>1, <2>2 DEF CisTypeOK
<1>11. CASE w.found
  <2>1. /\ e = Len(cis) + w.offset /\ e = cursor' /\ cisSize' = e /\ e \in Nat
        /\ e > Len(cis') - CisPart /\ fits(e)
    <3>1. w.offset \in 1..CisPart /\ e = Len(cis) + w.offset
      BY <1>7, <1>11
    <3>2. cursor' = e /\ cisSize' = cursor' /\ t = w.offset
      BY <1>9, <1>11, <3>1
    <3>3. fits(e)
      BY <1>8, <3>1, <3>2
    <3>. HIDE DEF e, t
    <3>4. e \in Nat /\ e > Len(cis') - CisPart
      BY <1>2, <1>5, <3>1
    <3>. QED
      BY <3>1, <3>2, <3>3, <3>4
  <2>2. ioPc' = "idle" /\ ioRet' = IF e > ioReq.size THEN "invalid_size" ELSE "ok"
    BY <1>9, <1>11, <2>1
  <2>. HIDE DEF e
  <2>3. ioRet' \in {"ok", "invalid_size"} /\ (ioRet' = "ok") = (e <= ioReq.size)
    <3>1. CASE e > ioReq.size
      <4>1. ~(e <= ioReq.size)
        BY <1>2, <2>1, <3>1
      <4>. QED
        BY <2>2, <3>1, <4>1
    <3>2. CASE ~(e > ioReq.size)
      <4>1. e <= ioReq.size
        BY <1>2, <2>1, <3>2
      <4>. QED
        BY <2>2, <3>2, <4>1
    <3>. QED
      BY <3>1, <3>2
  <2>4. CisAtEnd'
    <3>1. ioRet' # "not_found"
      BY <2>3
    <3>. QED
      BY <1>1, <2>1, <2>3, <3>1 DEF CisAtEnd, e
  <2>. QED
    BY <1>1, <1>10, <2>2, <2>4 DEF CisIInv, CisPlaceOK
<1>12. CASE ~w.found
  <2>1. /\ w.offset >= CisPart - 1 /\ w.offset \in Nat
        /\ e = ChainEnds(cis')[cursor'] /\ cursor' = Len(cis) + w.offset
        /\ w.offset = CisPart - 1 => buf[CisPart] # End
    BY <1>7, <1>9, <1>12
  <2>2. cursor' >= Len(cis') - 1 /\ (cursor' = Len(cis') - 1 => w.offset = CisPart - 1)
    BY <1>2, <1>5, <2>1
  <2>3. cursor' = Len(cis') - 1 => cis'[Len(cis')] # End
    <3>1. CisPart \in 1..CisPart
      BY <1>2
    <3>. QED
      BY <1>5, <2>1, <2>2, <3>1
  <2>4. CASE ioPc' = "cis" /\ (ioReq.limit = 0 \/ Len(cis') < ioReq.limit)
    <3>0. ioReq.limit > 0 => Len(cis') < ioReq.limit
      BY <1>2, <2>4
    <3>1. \A b \in Seq(Codes) :
              Continues(b)' => ChainEnds(b)[0] = ChainEnds(b)[cursor']
      <4>. TAKE b \in Seq(Codes)
      <4>. SUFFICES ASSUME Continues(b)' PROVE ChainEnds(b)[0] = ChainEnds(b)[cursor']
        OBVIOUS
      <4>1. Len(b) >= Len(cis') /\ \A k \in 1..Len(cis') : b[k] = cis'[k]
        BY DEF Continues
      <4>. QED
        BY <1>6, <1>12, <2>1, <4>1
    <3>2. fits(Len(cis'))
      BY <1>5, <1>8, <1>12
    <3>3. CisBetween'
      BY <1>1, <2>2, <2>3, <3>0, <3>1, <3>2 DEF CisBetween
    <3>. QED
      BY <1>1, <1>10, <2>4, <3>3 DEF CisIInv, CisPlaceOK
  <2>5. CASE /\ ioPc' = "idle" /\ ioRet' = "not_found"
             /\ ioReq.limit # 0 /\ ~(Len(cis') < ioReq.limit)
    <3>1. e = 0
      <4>1. CASE cursor' >= Len(cis')
        BY <1>5, <1>10, <2>1, <4>1, ChainOn DEF CisTypeOK
      <4>2. CASE ~(cursor' >= Len(cis'))
        <5>1. cursor' = Len(cis') - 1 /\ cursor' + 1 = Len(cis') /\ cursor' \in Nat
          <6>1. cursor' \in Nat /\ Len(cis') \in Nat
            BY <1>2, <1>5, <2>1
          <6>. DEFINE n == Len(cis')
                      c == cursor'
          <6>2. c >= n - 1 /\ ~(c >= n) /\ c \in Nat /\ n \in Nat
            BY <2>2, <4>2, <6>1
          <6>. HIDE DEF n, c
          <6>3. c = n - 1 /\ c + 1 = n /\ c \in Nat
            BY <6>2
          <6>. QED
            BY <6>3 DEF n, c
        <5>2. cis'[cursor' + 1] # End /\ cursor' + 1 >= Len(cis')
          BY <1>2, <1>5, <2>3, <5>1
        <5>. QED
          BY <1>5, <2>1, <4>2, <5>1, <5>2, ChainOn
      <4>. QED
        BY <4>1, <4>2
    <3>2. Len(cis') >= ioReq.limit /\ ioReq.limit > 0
      BY <1>2, <1>5, <2>5
    <3>3. CisAtEnd'
      BY <1>1, <2>5, <3>1, <3>2 DEF CisAtEnd
    <3>. QED
      BY <1>1, <1>10, <2>5, <3>3 DEF CisIInv, CisPlaceOK
  <2>. QED
    BY <1>9, <1>12, <2>4, <2>5
<1>. QED
  BY <1>11, <1>12

\* A call begins.
LEMMA CisBeginOK ==
    ASSUME CisIInv, NEW r \in Request, NEW p, IoBegin(r, p),
           p \in {"byte", "bytes", "blocks", "int", "cis_address"},
           (r.op = "cis") = (p = "cis_address")
    PROVE  CisIInv'
<1>1. /\ ioReq' = r /\ ioPc' = p /\ cis' = <<>> /\ cursor' = 0 /\ out' = <<>>
      /\ cisSize' = r.limit
  BY DEF IoBegin
<1>2. CisTypeOK'
  <2>1. <<>> \in Seq(Codes) /\ Len(<<>>) = 0
    BY EmptySeq
  <2>2. r.limit \in Nat /\ MaxCis \in Nat
    BY SdIoAssumption DEF Request
  <2>. QED
    BY <1>1, <2>1, <2>2 DEF CisTypeOK
<1>3. CisPlaceOK'
  BY <1>1 DEF CisPlaceOK
<1>. QED
  BY <1>1, <1>2, <1>3 DEF CisIInv

\* So it is for every call.
LEMMA CisCallOK == ASSUME CisIInv, IoCall PROVE CisIInv'
<1>. USE DEF IoRequest, Request, IoOps
<1>0. IoAddrs \subseteq Nat /\ IoSizes \subseteq Nat
      /\ CisSizes \subseteq Nat /\ CisLimits \subseteq Nat
  BY SdIoAssumption
<1>1. ASSUME NEW a \in IoAddrs, IoBegin(IoRequest("byte", a, 1), "byte")
      PROVE  CisIInv'
  <2>1. IoRequest("byte", a, 1) \in Request /\ IoRequest("byte", a, 1).op = "byte"
    BY <1>0
  <2>. QED
    BY <1>1, <2>1, CisBeginOK
<1>2. ASSUME NEW op \in {"bytes", "blocks"}, NEW a \in IoAddrs, NEW n \in IoSizes,
             NEW f \in BOOLEAN, NEW al \in BOOLEAN,
             IoBegin([IoRequest(op, a, n) EXCEPT !.fixed = f, !.aligned = al], op)
      PROVE  CisIInv'
  <2>. DEFINE r == [IoRequest(op, a, n) EXCEPT !.fixed = f, !.aligned = al]
  <2>1. r \in Request /\ r.op = op
    BY <1>0
  <2>2. (r.op = "cis") = (op = "cis_address")
    BY <2>1
  <2>. HIDE DEF r
  <2>3. IoBegin(r, op)
    BY <1>2 DEF r
  <2>. QED
    BY <2>1, <2>2, <2>3, CisBeginOK
<1>3. ASSUME IoBegin(IoRequest("int", 0, 0), "int") PROVE CisIInv'
  <2>1. IoRequest("int", 0, 0) \in Request /\ IoRequest("int", 0, 0).op = "int"
    OBVIOUS
  <2>. QED
    BY <1>3, <2>1, CisBeginOK
<1>4. ASSUME NEW n \in CisSizes, NEW l \in CisLimits,
             IoBegin([IoRequest("cis", 0, n) EXCEPT !.limit = l], "cis_address")
      PROVE  CisIInv'
  <2>. DEFINE r == [IoRequest("cis", 0, n) EXCEPT !.limit = l]
  <2>1. r \in Request /\ r.op = "cis"
    BY <1>0
  <2>. HIDE DEF r
  <2>2. IoBegin(r, "cis_address")
    BY <1>4 DEF r
  <2>. QED
    BY <2>1, <2>2, CisBeginOK
<1>. QED
  BY <1>1, <1>2, <1>3, <1>4 DEF IoCall

\* The address of the CIS is read: nothing of the CIS yet.
LEMMA CisAddressOK == ASSUME CisIInv, CisAddress PROVE CisIInv'
<1>1. /\ ioPc = "cis_address" /\ ioReq.op = "cis" /\ ioReq \in Request /\ CisTypeOK
      /\ cis = <<>> /\ cursor = 0 /\ out = <<>>
      /\ UNCHANGED <<ioReq, cis, cursor, out, cisSize>>
  BY DEF CisAddress, CisIInv, CisPlaceOK, cisVars
<1>2. CisTypeOK'
  BY <1>1 DEF CisTypeOK
<1>3. CASE ioPc' = "cis"
  <2>1. CisBetween'
    <3>1. Len(cis) = 0 /\ ioReq.size \in Nat
      BY <1>1 DEF Request
    <3>2. Min({0, ioReq.size}) = 0
      BY <3>1, LessOf
    <3>3. SubSeq(cis, 1, 0) = <<>>
      BY SubSeqEmpty
    <3>. QED
      BY <1>1, <3>1, <3>2, <3>3 DEF CisBetween
  <2>. QED
    BY <1>1, <1>2, <1>3, <2>1 DEF CisIInv, CisPlaceOK
<1>4. CASE ioPc' = "idle" /\ ioRet' \in {"error", "invalid_response"}
  BY <1>1, <1>2, <1>4 DEF CisIInv, CisPlaceOK, CisAtEnd
<1>. QED
  BY <1>3, <1>4 DEF CisAddress, IoReturn

\* A step of another call, or the failure of this one.
LEMMA CisOthersOK ==
    ASSUME CisIInv, UNCHANGED <<ioReq, cisVars>>,
           \/ ioPc \in {"byte", "bytes", "blocks", "int"} /\ ioPc' \in {ioPc, "idle"}
           \/ ioPc = "cis" /\ ioPc' = "idle" /\ ioRet' = "error"
           \/ UNCHANGED <<ioPc, ioRet>>
    PROVE  CisIInv'
<1>1. UNCHANGED <<ioReq, cis, cursor, out, cisSize>> /\ ioReq \in Request /\ CisTypeOK
  BY DEF CisIInv, cisVars
<1>2. CisTypeOK'
  BY <1>1 DEF CisTypeOK
<1>3. CASE ioPc \in {"byte", "bytes", "blocks", "int"} /\ ioPc' \in {ioPc, "idle"}
  <2>1. ioReq'.op # "cis" /\ ioPc' \notin {"cis_address", "cis"}
    BY <1>1, <1>3 DEF CisIInv, CisPlaceOK
  <2>. QED
    BY <1>1, <1>2, <2>1 DEF CisIInv, CisPlaceOK
<1>4. CASE ioPc = "cis" /\ ioPc' = "idle" /\ ioRet' = "error"
  BY <1>1, <1>2, <1>4 DEF CisIInv, CisPlaceOK, CisAtEnd
<1>5. CASE UNCHANGED <<ioPc, ioRet>>
  <2>1. \A b : Continues(b)' <=> Continues(b)
    BY <1>1 DEF Continues
  <2>2. CisPlaceOK' <=> CisPlaceOK
    BY <1>1, <1>5, <2>1 DEF CisPlaceOK, CisBetween, CisAtEnd
  <2>. QED
    BY <1>1, <1>2, <2>2 DEF CisIInv
<1>. QED
  BY <1>3, <1>4, <1>5

\* Before the first call.
LEMMA InitCisIInv == ASSUME SdIoInit PROVE CisIInv
<1>1. ioReq \in Request /\ ioReq.op = "int"
  BY DEF SdIoInit, IoRequest, Request, IoOps
<1>2. CisTypeOK
  <2>1. <<>> \in Seq(Codes) /\ Len(<<>>) = 0 /\ MaxCis \in Nat
    BY SdIoAssumption, EmptySeq
  <2>. QED
    BY <2>1 DEF SdIoInit, CisTypeOK
<1>. QED
  BY <1>1, <1>2 DEF SdIoInit, CisIInv, CisPlaceOK

\* Every step keeps the invariant.
LEMMA StepCisIInv == ASSUME CisIInv, [SdIoNext]_ioVars PROVE CisIInv'
<1>1. CASE IoCall
  BY <1>1, CisCallOK
<1>2. CASE Direct \/ BytesDone \/ BytesRefused \/ BytesPart \/ MoveBlocks \/ IoInterrupt
  <2>1. /\ UNCHANGED <<ioReq, cisVars>>
        /\ ioPc \in {"byte", "bytes", "blocks", "int"} /\ ioPc' \in {ioPc, "idle"}
    <3>1. CASE Direct
      BY <3>1 DEF Direct, IoReturn
    <3>2. CASE BytesDone \/ BytesRefused \/ BytesPart
      BY <3>2 DEF BytesDone, BytesRefused, BytesPart, IoReturn
    <3>3. CASE MoveBlocks
      BY <3>3 DEF MoveBlocks, IoReturn
    <3>4. CASE IoInterrupt
      BY <3>4 DEF IoInterrupt, IoReturn
    <3>. QED
      BY <1>2, <3>1, <3>2, <3>3, <3>4
  <2>. QED
    BY <2>1, CisOthersOK
<1>3. CASE CisAddress
  BY <1>3, CisAddressOK
<1>4. CASE CisFails
  <2>1. /\ UNCHANGED <<ioReq, cisVars>>
        /\ ioPc = "cis" /\ ioPc' = "idle" /\ ioRet' = "error"
    BY <1>4 DEF CisFails, IoReturn
  <2>. QED
    BY <2>1, CisOthersOK
<1>5. CASE CisChunk
  BY <1>5, CisChunkOK
<1>6. CASE UNCHANGED ioVars
  <2>1. UNCHANGED <<ioReq, cisVars>> /\ UNCHANGED <<ioPc, ioRet>>
    BY <1>6 DEF ioVars
  <2>. QED
    BY <2>1, CisOthersOK
<1>. QED
  BY <1>1, <1>2, <1>3, <1>4, <1>5, <1>6 DEF SdIoNext

\* Chunk by chunk is as a whole.
LEMMA WholeMeans == ASSUME CisIInv PROVE CisReadWhole
<1>1. CisTypeOK /\ CisPlaceOK /\ ChainEnd(cis) = ChainEnds(cis)[0]
  BY DEF CisIInv, ChainEnd
<1>2. ASSUME ioReq.op = "cis", ioPc = "cis"
      PROVE  ChainEnds(cis)[0] = 0 /\ out = SubSeq(cis, 1, Min({Len(cis), ioReq.size}))
  <2>1. CisBetween /\ cis \in Seq(Codes) /\ Len(cis) \in Nat /\ cursor \in Nat
    BY <1>1, <1>2, LenProperties DEF CisPlaceOK, CisTypeOK
  <2>2. ChainEnds(cis)[0] = ChainEnds(cis)[cursor]
    BY <2>1 DEF CisBetween, Continues
  <2>3. CASE cursor >= Len(cis)
    BY <2>1, <2>2, <2>3, ChainOn DEF CisBetween
  <2>4. CASE ~(cursor >= Len(cis))
    <3>1. cursor = Len(cis) - 1 /\ cursor + 1 = Len(cis)
      BY <2>1, <2>4 DEF CisBetween
    <3>2. cis[cursor + 1] # End /\ cursor + 1 >= Len(cis)
      BY <2>1, <3>1 DEF CisBetween
    <3>3. ChainEnds(cis)[cursor] = 0
      BY <2>1, <2>4, <3>2, ChainOn
    <3>. QED
      BY <2>1, <2>2, <3>3 DEF CisBetween
  <2>. QED
    BY <2>3, <2>4
<1>3. ioReq.op = "cis" /\ ioPc = "idle" => CisAtEnd
  BY <1>1 DEF CisPlaceOK
<1>. QED
  BY <1>1, <1>2, <1>3 DEF CisReadWhole, CisAtEnd

-----------------------------------------------------------------------------
(* The steps of a call that are left *)

\* How many blocks a split transfer has after the running one.
BlocksAfter == IF req.aligned THEN 0 ELSE req.count - (i + 1)

CallLeft ==
    CASE pc = "idle" -> 0
      [] pc = "cmd" -> 3 * BlocksAfter + 3
      [] pc = "status" -> 3 * BlocksAfter + 2
      [] pc \in {"failed", "poll", "verify"} -> 3 * BlocksAfter + 1
      [] pc = "group_start" -> 5
      [] pc = "group_end" -> 4
      [] pc = "erase" -> 3
      [] pc = "erase_verify" -> 2
      [] pc = "sanitize" -> 1

CallBounded == /\ CallLeft \in 0..3 * MaxCount + 5
               /\ CallLeft = 0 <=> pc = "idle"

\* What may repeat while a call runs: the host asks the card again, or the card
\* programs a block or fails to.
Waits == PollAgain \/ Program \/ ProgramFails

\* What is known of the blocks that are left.
LEMMA BlocksLeft ==
    ASSUME XferIInv
    PROVE  /\ MaxCount \in Nat /\ pc \in Pcs /\ i \in Nat /\ req.count \in Nat
           /\ req.aligned \in BOOLEAN
           /\ InTransfer => /\ BlocksAfter \in 0..MaxCount - 1
                            /\ ~req.aligned => i < req.count
BY XferAssumption
   DEF XferIInv, XferInv, XferTypeOK, Requests, RequestOK, BlocksAfter

LEMMA CallIsBounded == ASSUME XferIInv PROVE CallBounded
<1>1. CASE InTransfer
  <2>1. BlocksAfter \in Nat /\ BlocksAfter <= MaxCount - 1 /\ MaxCount \in Nat
    BY <1>1, BlocksLeft
  <2>2. CallLeft \in {3 * BlocksAfter + 3, 3 * BlocksAfter + 2, 3 * BlocksAfter + 1}
    BY <1>1 DEF InTransfer, CallLeft
  <2>3. pc # "idle"
    BY <1>1 DEF InTransfer
  <2>. QED
    BY <2>1, <2>2, <2>3 DEF CallBounded
<1>2. CASE ~InTransfer
  <2>1. MaxCount \in Nat
    BY XferAssumption
  <2>2. \/ pc = "idle" /\ CallLeft = 0
        \/ pc # "idle" /\ CallLeft \in 1..5
    BY <1>2, BlocksLeft DEF InTransfer, CallLeft, Pcs
  <2>. QED
    BY <2>1, <2>2 DEF CallBounded
<1>. QED
  BY <1>1, <1>2

\* A block is done: the next one, or the call returns.
LEMMA BlockDoneLess ==
    ASSUME XferIInv, pc \in {"status", "poll", "verify"}, BlockDone, UNCHANGED req
    PROVE  CallLeft' < CallLeft
<1>1. InTransfer
  BY DEF InTransfer
<1>2. CASE LastBlock
  BY <1>1, <1>2, BlocksLeft DEF BlockDone, Return, CallLeft
<1>3. CASE ~LastBlock
  <2>1. pc' = "cmd" /\ i' = i + 1 /\ ~req.aligned /\ i + 1 # req.count
    BY <1>3 DEF BlockDone, LastBlock
  <2>2. BlocksAfter' = BlocksAfter - 1 /\ BlocksAfter \in Nat
    BY <1>1, <2>1, BlocksLeft DEF BlocksAfter
  <2>. QED
    BY <2>1, <2>2 DEF CallLeft
<1>. QED
  BY <1>2, <1>3

\* The call returns, or goes on with the same block.
LEMMA GoesOnLess ==
    ASSUME XferIInv, UNCHANGED <<req, i>>,
           \/ pc # "idle" /\ pc' = "idle"
           \/ pc = "cmd" /\ pc' = "status"
           \/ pc = "status" /\ pc' \in {"failed", "poll", "verify"}
           \/ pc = "group_start" /\ pc' = "group_end"
           \/ pc = "group_end" /\ pc' = "erase"
           \/ pc \in {"erase", "erase_verify"} /\ pc' = "sanitize"
           \/ pc = "erase" /\ pc' = "erase_verify"
    PROVE  CallLeft' < CallLeft
<1>1. BlocksAfter' = BlocksAfter
  BY DEF BlocksAfter
<1>2. CASE pc' = "idle"
  <2>1. pc # "idle"
    OBVIOUS
  <2>2. CallLeft \in Nat /\ CallLeft # 0
    BY <2>1, CallIsBounded, XferAssumption DEF CallBounded
  <2>3. CallLeft' = 0
    BY <1>2 DEF CallLeft
  <2>. QED
    BY <2>2, <2>3
<1>3. CASE pc \in {"cmd", "status"}
  BY <1>1, <1>3, BlocksLeft DEF InTransfer, CallLeft
<1>4. CASE pc \in {"group_start", "group_end", "erase", "erase_verify"}
  BY <1>4 DEF CallLeft
<1>. QED
  BY <1>2, <1>3, <1>4

\* A step of a running call leaves fewer, or is a wait.
LEMMA CallStepLess ==
    ASSUME XferIInv, XferNext, pc # "idle"
    PROVE  CallLeft' < CallLeft \/ (CallLeft' = CallLeft /\ Waits)
<1>1. ~Call
  BY DEF Call, ReadOrWrite, FullErase, EraseSectors, SanitizeCall, Begin, Refuse
<1>2. CASE OutOfRange \/ Failed \/ PollTimesOut
  BY <1>2, GoesOnLess DEF OutOfRange, Failed, PollTimesOut, Fail, Return
<1>3. CASE SendWrite \/ SendRead
  BY <1>3, GoesOnLess DEF SendWrite, SendRead, Goto
<1>4. CASE SendStatus
  <2>1. /\ pc = "status" /\ UNCHANGED req
        /\ \/ pc' \in {"failed", "poll", "verify"} /\ UNCHANGED i
           \/ BlockDone
    BY <1>4 DEF SendStatus, AfterStatus, Goto
  <2>. QED
    BY <2>1, GoesOnLess, BlockDoneLess
<1>5. CASE PollReady \/ PollLost
  BY <1>5, BlockDoneLess DEF PollReady, PollLost
<1>6. CASE Verify
  <2>1. /\ pc = "verify" /\ UNCHANGED req
        /\ BlockDone \/ (pc' = "idle" /\ UNCHANGED i)
    BY <1>6 DEF Verify, Fail, Return
  <2>. QED
    BY <2>1, GoesOnLess, BlockDoneLess
<1>7. CASE GroupStart \/ GroupEnd
  BY <1>7, GoesOnLess DEF GroupStart, GroupEnd, NameGroup, Goto, Return
<1>8. CASE Erase \/ EraseVerify
  BY <1>8, GoesOnLess DEF Erase, EraseVerify, EraseDone, Goto, Return
<1>9. CASE Sanitize
  BY <1>9, GoesOnLess DEF Sanitize, Return
<1>10. CASE Waits
  <2>1. UNCHANGED <<pc, req, i>>
    BY <1>10 DEF Waits, PollAgain, Program, ProgramFails, hostVars
  <2>2. CallLeft' = CallLeft
    BY <2>1 DEF CallLeft, BlocksAfter
  <2>. QED
    BY <1>10, <2>2
<1>. QED
  BY <1>1, <1>2, <1>3, <1>4, <1>5, <1>6, <1>7, <1>8, <1>9, <1>10
     DEF XferNext, Transfer, Waits

-----------------------------------------------------------------------------
(* The same of the IO card's calls *)

\* A CIS is read until its end is found, or up to the limit if one is given.
HasLimit == ioReq.op = "cis" => ioReq.limit > 0

IoLeft ==
    CASE ioPc = "idle" -> 0
      [] ioPc = "bytes" -> IF left = 0 THEN 1 ELSE IF left < IoWord THEN 2 ELSE 3
      [] ioPc = "cis_address" -> ioReq.limit + 1
      [] ioPc = "cis" -> ioReq.limit - Len(cis)
      [] OTHER -> 1

IoBounded == HasLimit => /\ IoLeft \in 0..ioReq.limit + 3
                         /\ IoLeft = 0 <=> ioPc = "idle"

LEMMA IoIsBounded == ASSUME IoIInv, CisIInv PROVE IoBounded
<1>1. /\ ioPc \in {"idle", "byte", "bytes", "blocks", "int", "cis_address", "cis"}
      /\ left \in Nat /\ ioReq.limit \in Nat /\ ioReq.size \in Nat /\ IoWord \in Nat
  BY SdIoAssumption DEF IoIInv, MoveTypeOK
<1>2. CASE ioPc \notin {"cis_address", "cis"}
  BY <1>1, <1>2 DEF IoBounded, IoLeft
<1>3. CASE ioPc \in {"cis_address", "cis"}
  <2>1. ioReq.op = "cis" /\ Len(cis) \in Nat
    BY <1>3, LenProperties DEF CisIInv, CisTypeOK, CisPlaceOK
  <2>2. ioPc = "cis" /\ ioReq.limit > 0 => Len(cis) < ioReq.limit
    BY DEF CisIInv, CisPlaceOK, CisBetween
  <2>. QED
    BY <1>1, <1>3, <2>1, <2>2 DEF IoBounded, IoLeft, HasLimit
<1>. QED
  BY <1>2, <1>3

\* A step of a running call leaves fewer: at most two parts of a byte transfer, and
\* chunks up to the limit of a CIS.
LEMMA IoStepLess ==
    ASSUME IoIInv, CisIInv, SdIoNext, ioPc # "idle", HasLimit
    PROVE  IoLeft' < IoLeft
<1>0. ~IoCall /\ UNCHANGED ioReq
  <2>1. ~IoCall
    <3>1. \A r, p : ~IoBegin(r, p)
      BY DEF IoBegin
    <3>. HIDE DEF IoBegin
    <3>. QED
      BY <3>1, Zenon DEF IoCall
  <2>2. Direct \/ MoveBlocks => UNCHANGED ioReq
    BY DEF Direct, MoveBlocks
  <2>3. BytesDone \/ BytesRefused \/ BytesPart \/ IoInterrupt => UNCHANGED ioReq
    BY DEF BytesDone, BytesRefused, BytesPart, IoInterrupt
  <2>4. CisAddress \/ CisFails \/ CisChunk => UNCHANGED ioReq
    BY DEF CisAddress, CisFails, CisChunk
  <2>. QED
    BY <2>1, <2>2, <2>3, <2>4 DEF SdIoNext
<1>1. IoLeft \in Nat /\ IoLeft > 0
  BY IoIsBounded DEF IoBounded
<1>2. CASE ioPc' = "idle"
  BY <1>1, <1>2 DEF IoLeft
<1>3. CASE BytesPart /\ ioPc' # "idle"
  <2>1. ioPc = "bytes" /\ ioPc' = "bytes" /\ left > 0 /\ left' = left - Part
    BY <1>3 DEF BytesPart, IoReturn
  <2>2. /\ MoveTypeOK /\ left \in Nat /\ IoWord \in Nat \ {0}
    BY SdIoAssumption DEF IoIInv, MoveTypeOK
  <2>3. /\ Part \in 1..left /\ left - Part \in 0..IoWord - 1
        /\ left < IoWord => Part = left
    BY <2>1, <2>2, PartOK
  <2>. QED
    BY <2>1, <2>2, <2>3 DEF IoLeft
<1>4. CASE CisAddress /\ ioPc' # "idle"
  <2>1. /\ ioPc = "cis_address" /\ ioPc' = "cis" /\ ioReq.op = "cis" /\ cis' = <<>>
        /\ ioReq.limit \in Nat
    BY <1>4 DEF CisAddress, IoReturn, cisVars, CisIInv, CisPlaceOK, Request
  <2>2. Len(<<>>) = 0
    BY EmptySeq
  <2>. QED
    BY <1>0, <2>1, <2>2 DEF IoLeft
<1>5. CASE CisChunk /\ ioPc' # "idle"
  <2>1. ioPc = "cis" /\ ioPc' = "cis"
    BY <1>5 DEF CisChunk, IoReturn
  <2>2. PICK buf \in [1..CisPart -> Codes] : cis' = cis \o buf
    BY <1>5 DEF CisChunk
  <2>3. CisPart \in Nat \ {0} /\ cis \in Seq(Codes) /\ Len(cis) \in Nat
        /\ ioReq.limit \in Nat
    BY SdIoAssumption, LenProperties DEF CisIInv, CisTypeOK, Request
  <2>4. buf \in Seq(Codes) /\ Len(buf) = CisPart
    BY <2>3, FunctionIsSeq
  <2>5. Len(cis') = Len(cis) + CisPart
    BY <2>2, <2>3, <2>4, ConcatProperties
  <2>. QED
    BY <1>0, <2>1, <2>3, <2>5 DEF IoLeft
<1>6. CASE ioPc' # "idle" /\ ~BytesPart /\ ~CisAddress /\ ~CisChunk
  BY <1>0, <1>6
     DEF SdIoNext, Direct, BytesDone, BytesRefused, MoveBlocks, IoInterrupt, CisFails,
         IoReturn
<1>. QED
  BY <1>2, <1>3, <1>4, <1>5, <1>6

-----------------------------------------------------------------------------
(* The theorems *)

\* The memory card's part of the slot is the transfers of sdmmc_cmd.c.
THEOREM SlotTransfers == SlotSpec => XferSpec
<1>1. SlotInit => XferInit BY DEF SlotInit
<1>2. [SlotNext]_slotVars => [XferNext]_xferVars
  BY DEF SlotNext, MemoryCalls, IoCalls, slotVars
<1> QED BY <1>1, <1>2, PTL DEF SlotSpec, XferSpec

LEMMA TransfersKeepIInv == XferSpec => []XferIInv
<1>1. XferInit => XferIInv BY InitIInv
<1>2. XferIInv /\ [XferNext]_xferVars => XferIInv' BY StepIInv
<1> QED BY <1>1, <1>2, PTL DEF XferSpec

\* sdmmc_write_sectors_dma and the others: every block the card holds or still has to
\* program is in the sector it was meant for, whatever fails.
THEOREM BlocksAreInPlace == SlotSpec => []XferInv
<1>1. XferIInv => XferInv BY Promises
<1> QED BY <1>1, SlotTransfers, TransfersKeepIInv, PTL

\* sdmmc_write_sectors, sdmmc_read_sectors, sdmmc_full_erase: ESP_OK means that it is
\* done, but for the signs of failure the host does not look at.
THEOREM OkCallsAreDone == SlotSpec => []OkMeansDone
<1>1. XferIInv => OkMeansDone BY Promises
<1> QED BY <1>1, SlotTransfers, TransfersKeepIInv, PTL

\* The block by block loop of sdmmc_write_sectors stops at the first failure.
THEOREM SplitWritesStop == SlotSpec => []SplitLeavesPrefix
<1>1. XferIInv => SplitLeavesPrefix BY Promises
<1> QED BY <1>1, SlotTransfers, TransfersKeepIInv, PTL

\* sdmmc_erase_sectors: the erase group is the range asked for.
THEOREM ErasesOnlyTheRange == SlotSpec => EraseKeepsTheRest
<1> DEFINE Keeps == pc = "erase" =>
             \A s \in Sectors \ (req.start..req.start + req.count - 1) : mem'[s] = mem[s]
<1>1. XferIInv /\ [XferNext]_xferVars => [Keeps]_xferVars
  <2>1. SUFFICES ASSUME XferIInv, XferNext, pc = "erase",
                        NEW s \in Sectors \ (req.start..req.start + req.count - 1)
                 PROVE  mem'[s] = mem[s]
    OBVIOUS
  <2>2. buffered = {} BY <2>1 DEF XferIInv, EraseOK, InErase
  <2>3. ~Program /\ ~ProgramFails BY <2>2 DEF Program, ProgramFails
  <2>4. ~Call
    BY <2>1 DEF Call, ReadOrWrite, FullErase, EraseSectors, SanitizeCall, Begin, Refuse
  <2>5. Transfer => Erase
    BY <2>1 DEF Transfer, OutOfRange, SendWrite, SendRead, SendStatus, Failed, PollReady,
                PollAgain, Verify, GroupStart, GroupEnd, NameGroup, EraseVerify, Sanitize
  <2>6. ~PollLost /\ ~PollTimesOut BY <2>1 DEF PollLost, PollTimesOut
  <2>7. s \notin Erased BY <2>1, ErasedIsRange
  <2>8. Erase BY <2>1, <2>3, <2>4, <2>5, <2>6 DEF XferNext
  <2> QED BY <2>1, <2>7, <2>8 DEF Erase
<1> QED
  BY <1>1, SlotTransfers, TransfersKeepIInv, PTL DEF XferSpec, EraseKeepsTheRest

\* The IO card's part of the slot is the calls of sdmmc_io.c.
THEOREM SlotTalksToCard == SlotSpec => SdIoSpec
<1>1. SlotInit => SdIoInit
  BY DEF SlotInit
<1>2. [SlotNext]_slotVars => [SdIoNext]_ioVars
  BY DEF SlotNext, MemoryCalls, IoCalls, slotVars
<1>. QED
  BY <1>1, <1>2, PTL DEF SlotSpec, SdIoSpec

\* sdmmc_io_read_bytes and the others: split, refused or broken off, a transfer moves a
\* prefix of the caller's bytes, each once and at its own register.
THEOREM BytesMoveInOrder == SlotSpec => []IoInv
<1>1. SdIoInit => IoIInv
  BY InitIoIInv
<1>2. IoIInv /\ [SdIoNext]_ioVars => IoIInv'
  BY StepIoIInv
<1>3. IoIInv => IoInv
  BY InOrderMeans
<1>. QED
  BY <1>1, <1>2, <1>3, SlotTalksToCard, PTL DEF SdIoSpec

\* sdmmc_io_get_cis_data: read in chunks, the CIS ends where it does when it is read as
\* a whole, and as much of it as fits is what the caller gets.
THEOREM CisIsReadWhole == SlotSpec => []CisReadWhole
<1>1. SdIoInit => CisIInv
  BY InitCisIInv
<1>2. CisIInv /\ [SdIoNext]_ioVars => CisIInv'
  BY StepCisIInv
<1>3. CisIInv => CisReadWhole
  BY WholeMeans
<1>. QED
  BY <1>1, <1>2, <1>3, SlotTalksToCard, PTL DEF SdIoSpec

\* Every call that moves or erases sectors gets on: of a bounded number of steps each
\* leaves fewer, but for asking the card again whether it is ready, for 5 s at most,
\* and for the card's own programming (sdmmc_write_sectors, sdmmc_erase_sectors, ...).
THEOREM CallsGetOn ==
    SlotSpec => /\ []CallBounded
                /\ [][pc # "idle" => \/ CallLeft' < CallLeft
                                     \/ CallLeft' = CallLeft /\ Waits]_xferVars
<1>1. XferIInv => CallBounded
  BY CallIsBounded
<1>2. XferIInv /\ [XferNext]_xferVars =>
        [pc # "idle" => \/ CallLeft' < CallLeft
                        \/ CallLeft' = CallLeft /\ Waits]_xferVars
  BY CallStepLess
<1>. QED
  BY <1>1, <1>2, SlotTransfers, TransfersKeepIInv, PTL DEF XferSpec

\* Every call to an IO card ends after a bounded number of steps, but for one that
\* reads a CIS without a limit (sdmmc_io_get_cis_data with *inout_cis_size = 0), which
\* reads on until the card ends it.
THEOREM IoCallsEnd ==
    SlotSpec => /\ []IoBounded
                /\ [][ioPc # "idle" /\ HasLimit => IoLeft' < IoLeft]_ioVars
<1>1. SdIoInit => IoIInv /\ CisIInv
  BY InitIoIInv, InitCisIInv
<1>2. (IoIInv /\ CisIInv) /\ [SdIoNext]_ioVars => (IoIInv /\ CisIInv)'
  BY StepIoIInv, StepCisIInv
<1>3. IoIInv /\ CisIInv => IoBounded
  BY IoIsBounded
<1>4. IoIInv /\ CisIInv /\ [SdIoNext]_ioVars
        => [ioPc # "idle" /\ HasLimit => IoLeft' < IoLeft]_ioVars
  BY IoStepLess
<1>. QED
  BY <1>1, <1>2, <1>3, <1>4, SlotTalksToCard, PTL DEF SdIoSpec
================================================================================
