---------------------------- MODULE SdCardInitProofs ----------------------------
(***************************************************************************)
(* The initialisation of a card, proved for every host and every card: which  *)
(* state the card is in at each command, that card and host end up with the   *)
(* same lines, edges and speed, what capacity is used, when the sampling      *)
(* point the tuning chooses is one that worked, and that it all ends.         *)
(***************************************************************************)
EXTENDS SdCardInit, TLAPS

-----------------------------------------------------------------------------
(* The steps of sdmmc_card_init, in the order they are taken *)

Resets   == {"set_voltage", "fix_host_flags", "io_reset", "go_idle", "if_cond",
             "init_io"}
OpConds  == {"spi_crc", "op_cond", "op_cond_try", "op_cond_ready", "op_cond_timeout",
             "op_cond_error"}
Idents   == {"read_ocr", "uhs1", "cid", "rca", "csd"}
Sets     == {"select", "blocklen", "scr", "data_ready", "ext_csd", "card_cap", "hs_mode"}
Switches == {"hs_deselect", "hs_csd", "hs_select"}
Ends     == {"strength", "limit", "ssr", "host_freq", "tuning", "check", "done"}
Steps    == Resets \cup OpConds \cup Idents \cup Sets \cup Switches
              \cup {"bus_width", "host_width"} \cup Ends

\* Steps before the capacity is known, and before edges and speed are.
Unread == Resets \cup OpConds \cup Idents
Unset  == Unread \cup {"select", "blocklen", "scr", "data_ready", "ext_csd"}

-----------------------------------------------------------------------------
(* The inductive invariant *)

\* The host is as it was configured, with the lines that are wired once it was checked.
HostOK ==
    /\ host.freq \in {h.freq : h \in Hosts}
    /\ host.freq <= F52M \/ host.freq \in UhsFreqs
    /\ pc \notin {"set_voltage", "fix_host_flags"} /\ ~is_spi =>
          /\ host.slot = 1 => 4 \notin host.flags /\ 8 \notin host.flags
          /\ host.slot = 4 => 8 \notin host.flags

\* The card's state on an SD bus.
StateOK ==
    /\ pc = "read_ocr" => is_spi
    /\ ~is_spi /\ is_mem =>
        /\ pc \in {"op_cond_ready", "uhs1", "cid"} => bus.state = "ready"
        /\ pc = "rca" => bus.state = "ident"
        /\ pc \in {"csd", "select"} \cup (Switches \ {"hs_deselect"}) =>
              bus.state = "stby"
        /\ pc \in {"bus_width", "host_width", "hs_deselect"} \cup Ends
                  \cup (Sets \ {"select"}) => bus.state = "tran"

\* What card and host know of the width.
WidthOK ==
    /\ pc \in Unread => card.width = 0
    /\ card.width = 2 => 4 \in host.flags
    /\ card.width = 3 => 8 \in host.flags
    /\ ~is_spi => /\ pc = "host_width" => bus.card = Lines(card.width)
                  /\ pc \in Ends => bus.card = bus.host /\ bus.host <= host.slot

\* What they know of the edges.  An MMC on one line is not told.
EdgesOK ==
    /\ pc \in Unset => ~card.ddr
    /\ bus.ddr => card.ddr
    /\ is_sdmem /\ pc \in Sets => ~card.ddr
    /\ ~is_spi => /\ pc \in {"host_width"} \cup Ends =>
                        bus.card_ddr = card.ddr \/ OneLineDdr
                  /\ pc \in {"tuning", "check", "done"} => bus.ddr = card.ddr

\* The speed and the voltage it needs.
SpeedOK ==
    /\ pc \in Unset => card.freq = 0
    /\ is_sdmem /\ pc \in Sets => card.freq = 0
    /\ card.is_mem \/ card.is_sdio => card.freq <= host.freq
    /\ is_sdmem /\ card.freq > F52M => bus.v18
    /\ bus.v18 => is_sdmem /\ card.hc
                  /\ pc \notin Resets \cup OpConds \cup {"read_ocr", "uhs1"}
    /\ pc \in Switches => /\ is_sdmem /\ host.freq > Default
                          /\ host.freq > F52M => bus.v18
                          /\ dev.hs \/ bus.v18

\* The capacity.
CapacityOK ==
    is_mem =>
        /\ pc \in Steps \ (Resets \cup OpConds) => card.hc = dev.hc
        /\ pc \in Steps \ Unread =>
              \/ card.capacity = Limited(dev.capacity)
              \/ dev.hs /\ host.freq > Default /\ card.capacity = dev.capacity

PhaseOK ==
    pc \in {"check", "done"} /\ is_uhs1 =>
        bus.phase \in bus.good \/ bus.good = {} \/ MissedRun

\* What is known of a card that has not failed.
Progress ==
    /\ pc \in Steps /\ (pc = "op_cond_try" => err_cnt > 0)
    /\ HostOK /\ StateOK /\ WidthOK /\ EdgesOK /\ SpeedOK /\ CapacityOK /\ PhaseOK

CardIInv ==
    /\ CardTypeOK /\ ClockNotLeftOn
    /\ host.freq \in {h.freq : h \in Hosts}
    /\ result = "error" \/ Progress

-----------------------------------------------------------------------------
(* Steps *)

CardRec == [is_mem : BOOLEAN, is_sdio : BOOLEAN, is_mmc : BOOLEAN, hc : BOOLEAN,
            s18 : BOOLEAN, rca : {0, 1}, capacity : Nat, width : {0, 2, 3},
            ddr : BOOLEAN, freq : Freqs]
BusRec  == [state : {"idle", "ready", "ident", "stby", "tran"}, card : {1, 4, 8},
            host : {1, 4, 8}, card_ddr : BOOLEAN, ddr : BOOLEAN, always_on : BOOLEAN,
            off_refused : BOOLEAN, v18 : BOOLEAN, phase : 0..PhaseAuto, good : SUBSET Phases]

LEMMA Types ==
    ASSUME CardTypeOK
    PROVE  /\ host \in HostType /\ dev \in Devices /\ dev \in DeviceType
           /\ card \in CardRec /\ bus \in BusRec
BY InitAssumption DEF CardTypeOK, CardRec, BusRec

\* A step that goes on keeps the types if it keeps those of the card and the bus.
LEMMA TypesKept ==
    ASSUME CardTypeOK, UNCHANGED <<host, dev, nretries, err_cnt, hcs>>,
           result = "none", result' = "none", pc' # "done",
           card' \in CardRec, bus' \in BusRec
    PROVE  CardTypeOK'
BY DEF CardTypeOK, CardRec, BusRec, Freqs

\* A step that keeps every part of the invariant.
LEMMA KeepsIInv ==
    ASSUME CardTypeOK', ClockNotLeftOn', pc' \in Steps,
           pc' = "op_cond_try" => err_cnt' > 0,
           HostOK', StateOK', WidthOK', EdgesOK', SpeedOK', CapacityOK', PhaseOK'
    PROVE  CardIInv'
BY DEF CardIInv, Progress, HostOK

\* The names of the steps, and what kind of card it is.
USE DEF Resets, OpConds, Idents, Sets, Switches, Ends, Steps, Unread, Unset,
        is_spi, is_mem, is_sdio, is_mmc, is_sdmem, is_uhs1, OneLineDdr

LEMMA InitIInv == ASSUME CardInit PROVE CardIInv
<1> USE InitAssumption
<1>1. /\ host \in Hosts /\ dev \in Devices /\ card = Unknown
      /\ pc = "set_voltage" /\ result = "none"
      /\ nretries = 0 /\ err_cnt = 0 /\ ~hcs /\ hcs \in BOOLEAN
      /\ bus = [state |-> "idle", card |-> 1, host |-> 1, card_ddr |-> FALSE,
                ddr |-> FALSE, always_on |-> FALSE, off_refused |-> FALSE,
                v18 |-> FALSE, phase |-> 0, good |-> Phases]
  BY DEF CardInit
<1>2. CardTypeOK
  <2>1. host \in HostType /\ 0 \in Freqs BY <1>1 DEF Freqs
  <2>2. card \in [is_mem : BOOLEAN, is_sdio : BOOLEAN, is_mmc : BOOLEAN,
                 hc : BOOLEAN, s18 : BOOLEAN, rca : {0, 1}, capacity : Nat,
                 width : {0, 2, 3}, ddr : BOOLEAN, freq : Freqs]
    BY <1>1, <2>1 DEF Unknown
  <2>3. bus \in [state : {"idle", "ready", "ident", "stby", "tran"},
                card : {1, 4, 8}, host : {1, 4, 8}, card_ddr : BOOLEAN,
                ddr : BOOLEAN, always_on : BOOLEAN, off_refused : BOOLEAN,
                v18 : BOOLEAN, phase : 0..PhaseAuto, good : SUBSET Phases]
    <3>1. Phases \in SUBSET Phases /\ 0 \in 0..PhaseAuto BY DEF PhaseAuto
    <3> HIDE DEF Phases
    <3> QED BY <1>1, <3>1
  <2>4. (result # "none") = (pc = "done") BY <1>1
  <2> QED BY <1>1, <2>1, <2>2, <2>3, <2>4 DEF CardTypeOK
<1>3. ClockNotLeftOn BY <1>1 DEF ClockNotLeftOn
<1>4. host.freq \in {h.freq : h \in Hosts} BY <1>1
<1>5. HostOK BY <1>1, <1>4 DEF HostOK
<1>6. Progress
  BY <1>1, <1>5
     DEF Progress, StateOK, WidthOK, EdgesOK, SpeedOK, CapacityOK, PhaseOK, Unknown
<1> QED BY <1>2, <1>3, <1>4, <1>6 DEF CardIInv

\* The clock is turned back, or the host refused.
LEMMA ClockOffOK ==
    ASSUME bus \in BusRec, ClockOff
    PROVE  /\ bus' \in BusRec
           /\ bus'.always_on => bus'.off_refused
           /\ bus'.state = bus.state /\ bus'.card = bus.card /\ bus'.host = bus.host
           /\ bus'.card_ddr = bus.card_ddr /\ bus'.ddr = bus.ddr /\ bus'.v18 = bus.v18
           /\ bus'.phase = bus.phase /\ bus'.good = bus.good
<1> HIDE DEF Phases
<1>1. CASE bus' = [bus EXCEPT !.always_on = FALSE, !.off_refused = FALSE]
  BY <1>1 DEF BusRec
<1>2. CASE bus' = [bus EXCEPT !.off_refused = TRUE]
  BY <1>2 DEF BusRec
<1> QED BY <1>1, <1>2 DEF ClockOff

\* A step that fails ends the initialisation, with the clock back to normal unless the
\* host refused.
LEMMA FailOK ==
    ASSUME CardIInv, result = "none", pc' = "done", result' = "error",
           bus' = bus \/ ClockOff, bus'.always_on => bus'.off_refused,
           host' \in HostType, host'.freq = host.freq, UNCHANGED <<dev, card>>,
           nretries' \in 0..MaxRetries, err_cnt' \in 0..MaxErrors, hcs' \in BOOLEAN
    PROVE  CardIInv'
<1>1. bus' \in BusRec
  <2>1. bus \in BusRec BY Types DEF CardIInv
  <2> QED BY <2>1, ClockOffOK
<1>2. CardTypeOK' BY <1>1 DEF CardIInv, CardTypeOK, BusRec
<1>3. ClockNotLeftOn' BY DEF ClockNotLeftOn
<1> QED BY <1>2, <1>3 DEF CardIInv

\* A step that only moves on.
LEMMA PassOK ==
    ASSUME CardIInv, result = "none", result' = "none",
           UNCHANGED <<host, dev, card, bus, nretries, err_cnt, hcs>>,
           \/ pc = "set_voltage" /\ pc' = "fix_host_flags"
           \/ pc = "io_reset" /\ pc' = "go_idle"
           \/ pc = "if_cond" /\ pc' = "init_io"
           \/ pc = "spi_crc" /\ pc' = "op_cond"
           \/ pc = "op_cond" /\ pc' = "uhs1" /\ ~is_mem
           \/ pc = "read_ocr" /\ pc' = "uhs1"
           \/ pc = "uhs1" /\ pc' = "cid"
           \/ pc = "cid" /\ pc' = "rca" /\ (is_spi \/ ~is_mem)
           \/ pc = "rca" /\ pc' = "csd" /\ is_spi
           \/ pc = "csd" /\ pc' = "select" /\ ~is_mem
           \/ pc = "select" /\ pc' = "blocklen" /\ is_spi
           \/ pc = "blocklen" /\ pc' = "scr"
           \/ pc = "scr" /\ pc' = "data_ready"
           \/ pc = "data_ready" /\ pc' = "ext_csd"
           \/ pc = "ext_csd" /\ pc' = "card_cap"
           \/ pc = "card_cap" /\ pc' = "hs_mode"
           \/ pc = "hs_mode" /\ pc' = "bus_width"
           \/ pc = "bus_width" /\ pc' = "strength" /\ is_spi
           \/ pc = "strength" /\ pc' = "limit"
           \/ pc = "limit" /\ pc' = "ssr"
           \/ pc = "ssr" /\ pc' = "host_freq"
           \/ pc = "tuning" /\ pc' = "check" /\ ~is_uhs1
    PROVE  CardIInv'
<1>1. CardTypeOK' BY DEF CardIInv, CardTypeOK
<1>2. ClockNotLeftOn' BY DEF CardIInv, ClockNotLeftOn
<1>3. Progress BY DEF CardIInv
<1>4. HostOK' BY <1>3 DEF Progress, HostOK
<1>5. StateOK' BY <1>3 DEF Progress, StateOK
<1>6. WidthOK' BY <1>3 DEF Progress, WidthOK, Lines
<1>7. EdgesOK' BY <1>3 DEF Progress, EdgesOK
<1>8. SpeedOK'
  <2>1. SpeedOK /\ (is_mem' <=> is_mem) /\ (is_sdmem' <=> is_sdmem)
      /\ (is_sdmem => is_mem)
    BY <1>3 DEF Progress
  <2>2. /\ pc' \in Unset => pc \in Unset
        /\ pc' \in Sets => pc \in Sets \/ ~is_mem
        /\ pc' \notin Switches
        /\ pc' \in Resets \cup OpConds \cup {"read_ocr", "uhs1"} =>
              pc \in Resets \cup OpConds \cup {"read_ocr", "uhs1"}
    BY <1>3 DEF Progress, StateOK
  <2> HIDE DEF Resets, OpConds, Idents, Sets, Switches, Ends, Unread, Unset,
               is_mem, is_sdmem
  <2> QED BY <2>1, <2>2 DEF SpeedOK
<1>9. CapacityOK' BY <1>3 DEF Progress, CapacityOK, Limited
<1>10. PhaseOK' BY <1>3 DEF Progress, PhaseOK
<1>11. pc' \in Steps /\ pc' # "op_cond_try" OBVIOUS
<1> QED BY <1>1, <1>2, <1>4, <1>5, <1>6, <1>7, <1>8, <1>9, <1>10, <1>11, KeepsIInv

LEMMA CappedOK ==
    ASSUME CardTypeOK, HostOK, NEW f \in Freqs, f \in Nat
    PROVE  /\ Capped(f) \in Freqs /\ Capped(f) \in Nat /\ Capped(f) <= host.freq
           /\ Capped(f) <= f /\ host.freq \in Nat /\ host.freq \in Freqs
<1>1. host.freq \in Nat BY Types DEF HostType
<1>2. host.freq \in Freqs BY DEF HostOK, Freqs
<1> QED BY <1>1, <1>2 DEF Capped

\* CMD0: the card is idle.
LEMMA GoIdleOK == ASSUME CardIInv, GoIdle PROVE CardIInv'
<1> USE InitAssumption
<1>1. /\ pc = "go_idle" /\ UNCHANGED <<host, dev, nretries, err_cnt, hcs>>
      /\ \/ pc' = "done" /\ result' = "error" /\ UNCHANGED <<card, bus>>
         \/ pc' = "if_cond" /\ result' = result /\ UNCHANGED card
              /\ bus' = [bus EXCEPT !.state = "idle"]
  BY DEF GoIdle, Step, Sends, Passes, Fails, Goto, Finish, loopVars, Moves
<1>2. CardTypeOK /\ ClockNotLeftOn /\ Progress /\ result = "none"
  BY <1>1 DEF CardIInv, CardTypeOK
<1>3. CASE pc' = "done" /\ result' = "error" /\ UNCHANGED <<card, bus>>
  BY <1>1, <1>2, <1>3, FailOK DEF ClockNotLeftOn, CardTypeOK
<1>4. CASE pc' = "if_cond" /\ result' = result /\ UNCHANGED card
              /\ bus' = [bus EXCEPT !.state = "idle"]
  <2>1. CardTypeOK' BY <1>1, <1>2, <1>4 DEF CardTypeOK
  <2>2. ClockNotLeftOn' BY <1>1, <1>2, <1>4 DEF ClockNotLeftOn
  <2>3. HostOK' BY <1>1, <1>2, <1>4 DEF Progress, HostOK
  <2>4. StateOK' BY <1>1, <1>2, <1>4 DEF Progress, StateOK
  <2>5. WidthOK' BY <1>1, <1>2, <1>4 DEF Progress, WidthOK, Lines
  <2>6. EdgesOK' BY <1>1, <1>2, <1>4 DEF Progress, EdgesOK
  <2>7. SpeedOK' BY <1>1, <1>2, <1>4 DEF Progress, SpeedOK
  <2>8. CapacityOK' BY <1>1, <1>2, <1>4 DEF Progress, CapacityOK, Limited
  <2>9. PhaseOK' BY <1>1, <1>2, <1>4 DEF Progress, PhaseOK
  <2>10. pc' \in Steps /\ pc' # "op_cond_try" BY <1>4
  <2> QED
    BY <2>1, <2>2, <2>3, <2>4, <2>5, <2>6, <2>7, <2>8, <2>9, <2>10, KeepsIInv
<1> QED BY <1>1, <1>3, <1>4

\* CMD8.
LEMMA IfCondOK == ASSUME CardIInv, IfCond PROVE CardIInv'
<1> USE InitAssumption
<1>1. /\ pc = "if_cond" /\ UNCHANGED <<host, dev, nretries, err_cnt, hcs>>
      /\ \/ pc' = "done" /\ result' = "error" /\ UNCHANGED <<card, bus>>
         \/ pc' = "init_io" /\ result' = result /\ UNCHANGED <<card, bus>>
         \/ pc' = "init_io" /\ result' = result /\ UNCHANGED bus
              /\ card' = [card EXCEPT !.hc = TRUE]
  BY DEF IfCond, Step, Sends, Passes, Fails, Goto, Finish, loopVars, Learns
<1>2. CardTypeOK /\ ClockNotLeftOn /\ Progress /\ result = "none"
  BY <1>1 DEF CardIInv, CardTypeOK
<1>3. CASE pc' = "done" /\ result' = "error" /\ UNCHANGED <<card, bus>>
  BY <1>1, <1>2, <1>3, FailOK DEF ClockNotLeftOn, CardTypeOK
<1>4. CASE pc' = "init_io" /\ result' = result /\ UNCHANGED <<card, bus>>
  BY <1>1, <1>2, <1>4, PassOK
<1>5. CASE pc' = "init_io" /\ result' = result /\ UNCHANGED bus
              /\ card' = [card EXCEPT !.hc = TRUE]
  <2>1. CardTypeOK'
    <3>1. card \in CardRec /\ bus \in BusRec BY <1>2, Types
    <3>2. card' \in CardRec BY <1>5, <3>1 DEF CardRec
    <3>3. bus' \in BusRec /\ result' = "none" /\ pc' # "done" BY <1>2, <1>5, <3>1
    <3> QED BY <1>1, <1>2, <3>2, <3>3, TypesKept
  <2>2. ClockNotLeftOn' BY <1>1, <1>2, <1>5 DEF ClockNotLeftOn
  <2>3. HostOK' BY <1>1, <1>2, <1>5 DEF Progress, HostOK
  <2>4. StateOK' BY <1>1, <1>2, <1>5 DEF Progress, StateOK
  <2>5. WidthOK' BY <1>1, <1>2, <1>5 DEF Progress, WidthOK, Lines
  <2>6. EdgesOK' BY <1>1, <1>2, <1>5 DEF Progress, EdgesOK
  <2>7. SpeedOK' BY <1>1, <1>2, <1>5 DEF Progress, SpeedOK
  <2>8. CapacityOK' BY <1>1, <1>2, <1>5 DEF Progress, CapacityOK, Limited
  <2>9. PhaseOK' BY <1>1, <1>2, <1>5 DEF Progress, PhaseOK
  <2>10. pc' \in Steps /\ pc' # "op_cond_try" BY <1>5
  <2> QED
    BY <2>1, <2>2, <2>3, <2>4, <2>5, <2>6, <2>7, <2>8, <2>9, <2>10, KeepsIInv
<1> QED BY <1>1, <1>3, <1>4, <1>5

\* CMD5 decides whether the card has memory, functions or both.
LEMMA InitIoOK == ASSUME CardIInv, InitIo PROVE CardIInv'
<1> USE InitAssumption
<1>1. /\ pc = "init_io" /\ UNCHANGED <<host, dev, nretries, err_cnt, hcs>>
      /\ \/ pc' = "done" /\ result' = "error" /\ UNCHANGED <<card, bus>>
         \/ pc' = "spi_crc" /\ result' = result /\ UNCHANGED bus
              /\ card' = [card EXCEPT !.is_mem = TRUE, !.is_sdio = FALSE]
         \/ pc' = "spi_crc" /\ result' = result /\ UNCHANGED bus
              /\ card' = [card EXCEPT !.is_mem = DevHasMem, !.is_sdio = dev.funcs # 0,
                                     !.hc = dev.funcs >= 4]
  BY DEF InitIo, Step, Sends, Passes, Fails, Goto, Finish, loopVars, Learns
<1>2. CardTypeOK /\ ClockNotLeftOn /\ Progress /\ result = "none"
  BY <1>1 DEF CardIInv, CardTypeOK
<1>3. CASE pc' = "done" /\ result' = "error" /\ UNCHANGED <<card, bus>>
  BY <1>1, <1>2, <1>3, FailOK DEF ClockNotLeftOn, CardTypeOK
<1>4. CASE pc' = "spi_crc" /\ result' = result /\ UNCHANGED bus
              /\ card' = [card EXCEPT !.is_mem = TRUE, !.is_sdio = FALSE]
  <2>1. CardTypeOK'
    <3>1. card \in CardRec /\ bus \in BusRec /\ dev \in DeviceType /\ host \in HostType
      BY <1>2, Types
    <3>2. /\ DevHasMem \in BOOLEAN /\ (dev.funcs # 0) \in BOOLEAN
          /\ (dev.funcs >= 4) \in BOOLEAN
      BY DEF DevHasMem
    <3>8. card' \in CardRec BY <1>4, <3>1, <3>2 DEF CardRec
    <3>9. bus' \in BusRec BY <1>4, <3>1 DEF BusRec
    <3> QED BY <1>1, <1>2, <1>4, <3>8, <3>9, TypesKept
  <2>2. ClockNotLeftOn' BY <1>1, <1>2, <1>4 DEF ClockNotLeftOn
  <2>3. HostOK' BY <1>1, <1>2, <1>4 DEF Progress, HostOK
  <2>4. StateOK' BY <1>1, <1>2, <1>4 DEF Progress, StateOK
  <2>5. WidthOK' BY <1>1, <1>2, <1>4 DEF Progress, WidthOK, Lines
  <2>6. EdgesOK' BY <1>1, <1>2, <1>4 DEF Progress, EdgesOK
  <2>7. SpeedOK'
    <3>1. /\ card.freq = 0 /\ ~bus.v18 BY <1>1, <1>2 DEF Progress, SpeedOK
    <3>2. host \in HostType /\ host.freq \in Nat BY <1>2, Types DEF HostType
    <3>3. card'.freq = 0 BY <1>2, <1>4, <3>1, Types DEF CardRec
    <3>4. pc' \in Unset /\ pc' \notin Switches BY <1>4
    <3> QED BY <1>1, <1>4, <3>1, <3>2, <3>3, <3>4 DEF SpeedOK, F52M
  <2>8. CapacityOK' BY <1>1, <1>2, <1>4 DEF Progress, CapacityOK, Limited
  <2>9. PhaseOK' BY <1>1, <1>2, <1>4 DEF Progress, PhaseOK
  <2>10. pc' \in Steps /\ pc' # "op_cond_try" BY <1>4
  <2> QED
    BY <2>1, <2>2, <2>3, <2>4, <2>5, <2>6, <2>7, <2>8, <2>9, <2>10, KeepsIInv
<1>5. CASE pc' = "spi_crc" /\ result' = result /\ UNCHANGED bus
              /\ card' = [card EXCEPT !.is_mem = DevHasMem, !.is_sdio = dev.funcs # 0,
                                     !.hc = dev.funcs >= 4]
  <2>1. CardTypeOK'
    <3>1. card \in CardRec /\ bus \in BusRec /\ dev \in DeviceType /\ host \in HostType
      BY <1>2, Types
    <3>2. /\ DevHasMem \in BOOLEAN /\ (dev.funcs # 0) \in BOOLEAN
          /\ (dev.funcs >= 4) \in BOOLEAN
      BY DEF DevHasMem
    <3>8. card' \in CardRec BY <1>5, <3>1, <3>2 DEF CardRec
    <3>9. bus' \in BusRec BY <1>5, <3>1 DEF BusRec
    <3> QED BY <1>1, <1>2, <1>5, <3>8, <3>9, TypesKept
  <2>2. ClockNotLeftOn' BY <1>1, <1>2, <1>5 DEF ClockNotLeftOn
  <2>3. HostOK' BY <1>1, <1>2, <1>5 DEF Progress, HostOK
  <2>4. StateOK' BY <1>1, <1>2, <1>5 DEF Progress, StateOK
  <2>5. WidthOK' BY <1>1, <1>2, <1>5 DEF Progress, WidthOK, Lines
  <2>6. EdgesOK' BY <1>1, <1>2, <1>5 DEF Progress, EdgesOK
  <2>7. SpeedOK'
    <3>1. /\ card.freq = 0 /\ ~bus.v18 BY <1>1, <1>2 DEF Progress, SpeedOK
    <3>2. host \in HostType /\ host.freq \in Nat BY <1>2, Types DEF HostType
    <3>3. card'.freq = 0 BY <1>2, <1>5, <3>1, Types DEF CardRec
    <3>4. pc' \in Unset /\ pc' \notin Switches BY <1>5
    <3> QED BY <1>1, <1>5, <3>1, <3>2, <3>3, <3>4 DEF SpeedOK, F52M
  <2>8. CapacityOK' BY <1>1, <1>2, <1>5 DEF Progress, CapacityOK, Limited
  <2>9. PhaseOK' BY <1>1, <1>2, <1>5 DEF Progress, PhaseOK
  <2>10. pc' \in Steps /\ pc' # "op_cond_try" BY <1>5
  <2> QED
    BY <2>1, <2>2, <2>3, <2>4, <2>5, <2>6, <2>7, <2>8, <2>9, <2>10, KeepsIInv
<1> QED BY <1>1, <1>3, <1>4, <1>5

\* The switch to 1.8 V.
LEMMA InitUhs1OK == ASSUME CardIInv, InitUhs1 PROVE CardIInv'
<1> USE InitAssumption
<1>1. /\ pc = "uhs1" /\ UNCHANGED <<host, dev, nretries, err_cnt, hcs>>
      /\ \/ pc' = "done" /\ result' = "error" /\ UNCHANGED <<card, bus>>
         \/ pc' = "cid" /\ result' = result /\ UNCHANGED <<card, bus>>
         \/ pc' = "cid" /\ result' = result /\ UNCHANGED card /\ is_uhs1
              /\ bus' = [bus EXCEPT !.v18 = TRUE]
  BY DEF InitUhs1, Step, Sends, Passes, Fails, Goto, Finish, loopVars
<1>2. CardTypeOK /\ ClockNotLeftOn /\ Progress /\ result = "none"
  BY <1>1 DEF CardIInv, CardTypeOK
<1>3. CASE pc' = "done" /\ result' = "error" /\ UNCHANGED <<card, bus>>
  BY <1>1, <1>2, <1>3, FailOK DEF ClockNotLeftOn, CardTypeOK
<1>4. CASE pc' = "cid" /\ result' = result /\ UNCHANGED <<card, bus>>
  BY <1>1, <1>2, <1>4, PassOK
<1>5. CASE pc' = "cid" /\ result' = result /\ UNCHANGED card /\ is_uhs1
              /\ bus' = [bus EXCEPT !.v18 = TRUE]
  <2>1. CardTypeOK' BY <1>1, <1>2, <1>5 DEF CardTypeOK
  <2>2. ClockNotLeftOn' BY <1>1, <1>2, <1>5 DEF ClockNotLeftOn
  <2>3. HostOK' BY <1>1, <1>2, <1>5 DEF Progress, HostOK
  <2>4. StateOK' BY <1>1, <1>2, <1>5 DEF Progress, StateOK
  <2>5. WidthOK' BY <1>1, <1>2, <1>5 DEF Progress, WidthOK, Lines
  <2>6. EdgesOK' BY <1>1, <1>2, <1>5 DEF Progress, EdgesOK
  <2>7. SpeedOK' BY <1>1, <1>2, <1>5 DEF Progress, SpeedOK
  <2>8. CapacityOK' BY <1>1, <1>2, <1>5 DEF Progress, CapacityOK, Limited
  <2>9. PhaseOK' BY <1>1, <1>2, <1>5 DEF Progress, PhaseOK
  <2>10. pc' \in Steps /\ pc' # "op_cond_try" BY <1>5
  <2> QED
    BY <2>1, <2>2, <2>3, <2>4, <2>5, <2>6, <2>7, <2>8, <2>9, <2>10, KeepsIInv
<1> QED BY <1>1, <1>3, <1>4, <1>5

\* CMD2.
LEMMA InitCidOK == ASSUME CardIInv, InitCid PROVE CardIInv'
<1> USE InitAssumption
<1>1. /\ pc = "cid" /\ UNCHANGED <<host, dev, nretries, err_cnt, hcs>>
      /\ \/ pc' = "done" /\ result' = "error" /\ UNCHANGED <<card, bus>>
         \/ /\ pc' = "rca" /\ result' = result /\ UNCHANGED <<card, bus>>
            /\ is_spi \/ ~is_mem
         \/ pc' = "rca" /\ result' = result /\ UNCHANGED card
              /\ bus' = [bus EXCEPT !.state = "ident"]
  BY DEF InitCid, Step, Sends, Passes, Fails, Goto, Finish, loopVars, Moves
<1>2. CardTypeOK /\ ClockNotLeftOn /\ Progress /\ result = "none"
  BY <1>1 DEF CardIInv, CardTypeOK
<1>3. CASE pc' = "done" /\ result' = "error" /\ UNCHANGED <<card, bus>>
  BY <1>1, <1>2, <1>3, FailOK DEF ClockNotLeftOn, CardTypeOK
<1>4. CASE /\ pc' = "rca" /\ result' = result /\ UNCHANGED <<card, bus>>
           /\ is_spi \/ ~is_mem
  BY <1>1, <1>2, <1>4, PassOK
<1>5. CASE pc' = "rca" /\ result' = result /\ UNCHANGED card
              /\ bus' = [bus EXCEPT !.state = "ident"]
  <2>1. CardTypeOK' BY <1>1, <1>2, <1>5 DEF CardTypeOK
  <2>2. ClockNotLeftOn' BY <1>1, <1>2, <1>5 DEF ClockNotLeftOn
  <2>3. HostOK' BY <1>1, <1>2, <1>5 DEF Progress, HostOK
  <2>4. StateOK' BY <1>1, <1>2, <1>5 DEF Progress, StateOK
  <2>5. WidthOK' BY <1>1, <1>2, <1>5 DEF Progress, WidthOK, Lines
  <2>6. EdgesOK' BY <1>1, <1>2, <1>5 DEF Progress, EdgesOK
  <2>7. SpeedOK' BY <1>1, <1>2, <1>5 DEF Progress, SpeedOK
  <2>8. CapacityOK' BY <1>1, <1>2, <1>5 DEF Progress, CapacityOK, Limited
  <2>9. PhaseOK' BY <1>1, <1>2, <1>5 DEF Progress, PhaseOK
  <2>10. pc' \in Steps /\ pc' # "op_cond_try" BY <1>5
  <2> QED
    BY <2>1, <2>2, <2>3, <2>4, <2>5, <2>6, <2>7, <2>8, <2>9, <2>10, KeepsIInv
<1> QED BY <1>1, <1>3, <1>4, <1>5

\* CMD3.
LEMMA InitRcaOK == ASSUME CardIInv, InitRca PROVE CardIInv'
<1> USE InitAssumption
<1>1. /\ pc = "rca" /\ UNCHANGED <<host, dev, nretries, err_cnt, hcs>>
      /\ \/ pc' = "done" /\ result' = "error" /\ UNCHANGED <<card, bus>>
         \/ pc' = "csd" /\ result' = result /\ UNCHANGED <<card, bus>> /\ is_spi
         \/ pc' = "csd" /\ result' = result /\ ~is_spi
              /\ card' = [card EXCEPT !.rca = 1] /\ bus' = [bus EXCEPT !.state = "stby"]
  BY DEF InitRca, Step, Sends, Passes, Fails, Goto, Finish, loopVars
<1>2. CardTypeOK /\ ClockNotLeftOn /\ Progress /\ result = "none"
  BY <1>1 DEF CardIInv, CardTypeOK
<1>3. CASE pc' = "done" /\ result' = "error" /\ UNCHANGED <<card, bus>>
  BY <1>1, <1>2, <1>3, FailOK DEF ClockNotLeftOn, CardTypeOK
<1>4. CASE pc' = "csd" /\ result' = result /\ UNCHANGED <<card, bus>> /\ is_spi
  BY <1>1, <1>2, <1>4, PassOK
<1>5. CASE pc' = "csd" /\ result' = result /\ ~is_spi
              /\ card' = [card EXCEPT !.rca = 1] /\ bus' = [bus EXCEPT !.state = "stby"]
  <2>1. CardTypeOK' BY <1>1, <1>2, <1>5 DEF CardTypeOK
  <2>2. ClockNotLeftOn' BY <1>1, <1>2, <1>5 DEF ClockNotLeftOn
  <2>3. HostOK' BY <1>1, <1>2, <1>5 DEF Progress, HostOK
  <2>4. StateOK' BY <1>1, <1>2, <1>5 DEF Progress, StateOK
  <2>5. WidthOK' BY <1>1, <1>2, <1>5 DEF Progress, WidthOK, Lines
  <2>6. EdgesOK' BY <1>1, <1>2, <1>5 DEF Progress, EdgesOK
  <2>7. SpeedOK' BY <1>1, <1>2, <1>5 DEF Progress, SpeedOK
  <2>8. CapacityOK' BY <1>1, <1>2, <1>5 DEF Progress, CapacityOK, Limited
  <2>9. PhaseOK' BY <1>1, <1>2, <1>5 DEF Progress, PhaseOK
  <2>10. pc' \in Steps /\ pc' # "op_cond_try" BY <1>5
  <2> QED
    BY <2>1, <2>2, <2>3, <2>4, <2>5, <2>6, <2>7, <2>8, <2>9, <2>10, KeepsIInv
<1> QED BY <1>1, <1>3, <1>4, <1>5

\* CMD9: the capacity, as far as it can be addressed.
LEMMA InitCsdOK == ASSUME CardIInv, InitCsd PROVE CardIInv'
<1> USE InitAssumption
<1>1. /\ pc = "csd" /\ UNCHANGED <<host, dev, nretries, err_cnt, hcs>>
      /\ \/ pc' = "done" /\ result' = "error" /\ UNCHANGED <<card, bus>>
         \/ pc' = "select" /\ result' = result /\ UNCHANGED <<card, bus>> /\ ~is_mem
         \/ pc' = "select" /\ result' = result /\ UNCHANGED bus
              /\ card' = [card EXCEPT !.capacity = Limited(dev.capacity)]
  BY DEF InitCsd, Step, Sends, Passes, Fails, Goto, Finish, loopVars, Learns
<1>2. CardTypeOK /\ ClockNotLeftOn /\ Progress /\ result = "none"
  BY <1>1 DEF CardIInv, CardTypeOK
<1>3. CASE pc' = "done" /\ result' = "error" /\ UNCHANGED <<card, bus>>
  BY <1>1, <1>2, <1>3, FailOK DEF ClockNotLeftOn, CardTypeOK
<1>4. CASE pc' = "select" /\ result' = result /\ UNCHANGED <<card, bus>> /\ ~is_mem
  BY <1>1, <1>2, <1>4, PassOK
<1>5. CASE pc' = "select" /\ result' = result /\ UNCHANGED bus
              /\ card' = [card EXCEPT !.capacity = Limited(dev.capacity)]
  <2>1. CardTypeOK'
    <3>1. card \in CardRec /\ bus \in BusRec /\ dev \in DeviceType /\ host \in HostType
      BY <1>2, Types
    <3>2. Limited(dev.capacity) \in Nat BY <3>1 DEF Limited, DeviceType
    <3>8. card' \in CardRec BY <1>5, <3>1, <3>2 DEF CardRec
    <3>9. bus' \in BusRec BY <1>5, <3>1 DEF BusRec
    <3> QED BY <1>1, <1>2, <1>5, <3>8, <3>9, TypesKept
  <2>2. ClockNotLeftOn' BY <1>1, <1>2, <1>5 DEF ClockNotLeftOn
  <2>3. HostOK' BY <1>1, <1>2, <1>5 DEF Progress, HostOK
  <2>4. StateOK' BY <1>1, <1>2, <1>5 DEF Progress, StateOK
  <2>5. WidthOK' BY <1>1, <1>2, <1>5 DEF Progress, WidthOK, Lines
  <2>6. EdgesOK' BY <1>1, <1>2, <1>5 DEF Progress, EdgesOK
  <2>7. SpeedOK' BY <1>1, <1>2, <1>5 DEF Progress, SpeedOK
  <2>8. CapacityOK' BY <1>1, <1>2, <1>5 DEF Progress, CapacityOK, Limited
  <2>9. PhaseOK' BY <1>1, <1>2, <1>5 DEF Progress, PhaseOK
  <2>10. pc' \in Steps /\ pc' # "op_cond_try" BY <1>5
  <2> QED
    BY <2>1, <2>2, <2>3, <2>4, <2>5, <2>6, <2>7, <2>8, <2>9, <2>10, KeepsIInv
<1> QED BY <1>1, <1>3, <1>4, <1>5

\* CMD7.
LEMMA SelectCardOK == ASSUME CardIInv, SelectCard PROVE CardIInv'
<1> USE InitAssumption
<1>1. /\ pc = "select" /\ UNCHANGED <<host, dev, nretries, err_cnt, hcs>>
      /\ \/ pc' = "done" /\ result' = "error" /\ UNCHANGED <<card, bus>>
         \/ pc' = "blocklen" /\ result' = result /\ UNCHANGED <<card, bus>> /\ is_spi
         \/ pc' = "blocklen" /\ result' = result /\ UNCHANGED card
              /\ bus' = [bus EXCEPT !.state = "tran"]
  BY DEF SelectCard, Step, Sends, Passes, Fails, Goto, Finish, loopVars, Moves
<1>2. CardTypeOK /\ ClockNotLeftOn /\ Progress /\ result = "none"
  BY <1>1 DEF CardIInv, CardTypeOK
<1>3. CASE pc' = "done" /\ result' = "error" /\ UNCHANGED <<card, bus>>
  BY <1>1, <1>2, <1>3, FailOK DEF ClockNotLeftOn, CardTypeOK
<1>4. CASE pc' = "blocklen" /\ result' = result /\ UNCHANGED <<card, bus>> /\ is_spi
  BY <1>1, <1>2, <1>4, PassOK
<1>5. CASE pc' = "blocklen" /\ result' = result /\ UNCHANGED card
              /\ bus' = [bus EXCEPT !.state = "tran"]
  <2>1. CardTypeOK' BY <1>1, <1>2, <1>5 DEF CardTypeOK
  <2>2. ClockNotLeftOn' BY <1>1, <1>2, <1>5 DEF ClockNotLeftOn
  <2>3. HostOK' BY <1>1, <1>2, <1>5 DEF Progress, HostOK
  <2>4. StateOK' BY <1>1, <1>2, <1>5 DEF Progress, StateOK
  <2>5. WidthOK' BY <1>1, <1>2, <1>5 DEF Progress, WidthOK, Lines
  <2>6. EdgesOK' BY <1>1, <1>2, <1>5 DEF Progress, EdgesOK
  <2>7. SpeedOK' BY <1>1, <1>2, <1>5 DEF Progress, SpeedOK
  <2>8. CapacityOK' BY <1>1, <1>2, <1>5 DEF Progress, CapacityOK, Limited
  <2>9. PhaseOK' BY <1>1, <1>2, <1>5 DEF Progress, PhaseOK
  <2>10. pc' \in Steps /\ pc' # "op_cond_try" BY <1>5
  <2> QED
    BY <2>1, <2>2, <2>3, <2>4, <2>5, <2>6, <2>7, <2>8, <2>9, <2>10, KeepsIInv
<1> QED BY <1>1, <1>3, <1>4, <1>5

\* ACMD51: the lines of an SD card.
LEMMA SdScrOK == ASSUME CardIInv, SdScr PROVE CardIInv'
<1> USE InitAssumption
<1>1. /\ pc = "scr" /\ UNCHANGED <<host, dev, nretries, err_cnt, hcs>>
      /\ \/ pc' = "done" /\ result' = "error" /\ UNCHANGED <<card, bus>>
         \/ pc' = "data_ready" /\ result' = result /\ UNCHANGED <<card, bus>>
         \/ pc' = "data_ready" /\ result' = result /\ UNCHANGED bus /\ is_sdmem
              /\ card' = [card EXCEPT !.width = IF dev.wide /\ 4 \in host.flags
                                                THEN 2 ELSE 0]
  BY DEF SdScr, Step, Sends, Passes, Fails, Goto, Finish, loopVars, Learns
<1>2. CardTypeOK /\ ClockNotLeftOn /\ Progress /\ result = "none"
  BY <1>1 DEF CardIInv, CardTypeOK
<1>3. CASE pc' = "done" /\ result' = "error" /\ UNCHANGED <<card, bus>>
  BY <1>1, <1>2, <1>3, FailOK DEF ClockNotLeftOn, CardTypeOK
<1>4. CASE pc' = "data_ready" /\ result' = result /\ UNCHANGED <<card, bus>>
  BY <1>1, <1>2, <1>4, PassOK
<1>5. CASE pc' = "data_ready" /\ result' = result /\ UNCHANGED bus /\ is_sdmem
              /\ card' = [card EXCEPT !.width = IF dev.wide /\ 4 \in host.flags
                                                THEN 2 ELSE 0]
  <2>1. CardTypeOK' BY <1>1, <1>2, <1>5 DEF CardTypeOK
  <2>2. ClockNotLeftOn' BY <1>1, <1>2, <1>5 DEF ClockNotLeftOn
  <2>3. HostOK' BY <1>1, <1>2, <1>5 DEF Progress, HostOK
  <2>4. StateOK' BY <1>1, <1>2, <1>5 DEF Progress, StateOK
  <2>5. WidthOK' BY <1>1, <1>2, <1>5 DEF Progress, WidthOK, Lines
  <2>6. EdgesOK' BY <1>1, <1>2, <1>5 DEF Progress, EdgesOK
  <2>7. SpeedOK' BY <1>1, <1>2, <1>5 DEF Progress, SpeedOK
  <2>8. CapacityOK' BY <1>1, <1>2, <1>5 DEF Progress, CapacityOK, Limited
  <2>9. PhaseOK' BY <1>1, <1>2, <1>5 DEF Progress, PhaseOK
  <2>10. pc' \in Steps /\ pc' # "op_cond_try" BY <1>5
  <2> QED
    BY <2>1, <2>2, <2>3, <2>4, <2>5, <2>6, <2>7, <2>8, <2>9, <2>10, KeepsIInv
<1> QED BY <1>1, <1>3, <1>4, <1>5

\* EXT_CSD of an MMC card: lines, edges, speed and capacity.
LEMMA ExtCsdRead ==
    ASSUME CardIInv, pc = "ext_csd", result = "none", is_mmc,
           UNCHANGED <<host, dev, nretries, err_cnt, hcs, bus, result>>,
           pc' = "card_cap",
           NEW d \in BOOLEAN, NEW f \in Freqs, NEW w \in {0, 2, 3},
           card' = [card EXCEPT !.ddr = d, !.freq = f, !.width = w,
                      !.capacity = IF dev.hc THEN dev.capacity ELSE card.capacity],
           f \in Nat, f <= host.freq,
           w = 2 => 4 \in host.flags, w = 3 => 8 \in host.flags
    PROVE  CardIInv'
<1> USE InitAssumption
<1>0. CardTypeOK /\ ClockNotLeftOn /\ Progress BY DEF CardIInv
<1>a. /\ card \in CardRec /\ bus \in BusRec /\ dev \in DeviceType /\ host \in HostType
      /\ card'.freq = f /\ card'.width = w /\ card'.ddr = d
  BY <1>0, Types DEF CardRec
<1>1. CardTypeOK'
  <2>1. card' \in CardRec BY <1>a DEF CardRec, DeviceType
  <2> QED BY <1>0, <1>a, <2>1, TypesKept
<1>2. ClockNotLeftOn' BY <1>0, <1>a DEF ClockNotLeftOn
<1>3. HostOK' BY <1>0, <1>a DEF Progress, HostOK
<1>4. StateOK' BY <1>0, <1>a DEF Progress, StateOK
<1>5. WidthOK' BY <1>0, <1>a DEF Progress, WidthOK, Lines
<1>6. EdgesOK' BY <1>0, <1>a DEF Progress, EdgesOK
<1>7. SpeedOK'
  <2>1. SpeedOK BY <1>0 DEF Progress
  <2>2. ~is_sdmem' /\ pc' \notin Switches /\ pc' \notin Unset BY <1>a DEF CardRec
  <2>3. ~bus.v18 BY <2>1 DEF SpeedOK
  <2> QED BY <1>a, <2>2, <2>3 DEF SpeedOK
<1>8. CapacityOK' BY <1>0, <1>a DEF Progress, CapacityOK, Limited
<1>9. PhaseOK' BY <1>0, <1>a DEF Progress, PhaseOK
<1>10. pc' \in Steps /\ pc' # "op_cond_try" OBVIOUS
<1> QED
  BY <1>1, <1>2, <1>3, <1>4, <1>5, <1>6, <1>7, <1>8, <1>9, <1>10, KeepsIInv

LEMMA MmcReadExtCsdOK == ASSUME CardIInv, MmcReadExtCsd PROVE CardIInv'
<1> USE InitAssumption
<1> DEFINE d == dev.ddr /\ host.ddr /\ host.freq >= F26M /\ host.slot = 4
           w == IF 8 \in host.flags THEN 3 ELSE IF 4 \in host.flags THEN 2 ELSE 0
<1>1. /\ pc = "ext_csd" /\ UNCHANGED <<host, dev, nretries, err_cnt, hcs>>
      /\ \/ pc' = "done" /\ result' = "error" /\ UNCHANGED <<card, bus>>
         \/ pc' = "card_cap" /\ result' = result /\ UNCHANGED <<card, bus>>
         \/ /\ pc' = "card_cap" /\ result' = result /\ UNCHANGED bus /\ is_mmc
            /\ \E f \in MmcFreqs : card' =
                 [card EXCEPT !.ddr = d, !.freq = Capped(f), !.width = w,
                          !.capacity = IF dev.hc THEN dev.capacity ELSE card.capacity]
  BY DEF MmcReadExtCsd, Step, Sends, Passes, Fails, Learns, Goto, Finish, loopVars
<1>2. CardTypeOK /\ ClockNotLeftOn /\ Progress /\ result = "none"
  BY <1>1 DEF CardIInv, CardTypeOK
<1>3. CASE pc' = "done" /\ result' = "error" /\ UNCHANGED <<card, bus>>
  BY <1>1, <1>2, <1>3, FailOK DEF ClockNotLeftOn, CardTypeOK
<1>4. CASE pc' = "card_cap" /\ result' = result /\ UNCHANGED <<card, bus>>
  BY <1>1, <1>2, <1>4, PassOK
<1>5. CASE /\ pc' = "card_cap" /\ result' = result /\ UNCHANGED bus /\ is_mmc
           /\ \E f \in MmcFreqs : card' =
                [card EXCEPT !.ddr = d, !.freq = Capped(f), !.width = w,
                         !.capacity = IF dev.hc THEN dev.capacity ELSE card.capacity]
  <2>0. PICK f \in MmcFreqs : card' =
                [card EXCEPT !.ddr = d, !.freq = Capped(f), !.width = w,
                         !.capacity = IF dev.hc THEN dev.capacity ELSE card.capacity]
    BY <1>5
  <2>1. f \in Freqs /\ f \in Nat BY DEF MmcFreqs, Freqs, F26M, F52M
  <2>2. Capped(f) \in Freqs /\ Capped(f) \in Nat /\ Capped(f) <= host.freq
    BY <1>2, <2>1, CappedOK DEF Progress
  <2>3. d \in BOOLEAN BY <1>2, Types DEF DeviceType
  <2>4. w \in {0, 2, 3} /\ (w = 2 => 4 \in host.flags) /\ (w = 3 => 8 \in host.flags)
    OBVIOUS
  <2> HIDE DEF d, w
  <2> QED BY <1>1, <1>2, <1>5, <2>0, <2>2, <2>3, <2>4, ExtCsdRead
<1> QED BY <1>1, <1>3, <1>4, <1>5

\* CMD7, so that CSD can be read again.
LEMMA HsDeselectOK == ASSUME CardIInv, HsDeselect PROVE CardIInv'
<1> USE InitAssumption
<1>1. /\ pc = "hs_deselect" /\ UNCHANGED <<host, dev, nretries, err_cnt, hcs>>
      /\ \/ pc' = "done" /\ result' = "error" /\ UNCHANGED <<card, bus>>
         \/ pc' = "hs_csd" /\ result' = result /\ UNCHANGED card
              /\ bus' = [bus EXCEPT !.state = "stby"]
  BY DEF HsDeselect, Step, Sends, Passes, Fails, Goto, Finish, loopVars, Moves
<1>2. CardTypeOK /\ ClockNotLeftOn /\ Progress /\ result = "none"
  BY <1>1 DEF CardIInv, CardTypeOK
<1>3. CASE pc' = "done" /\ result' = "error" /\ UNCHANGED <<card, bus>>
  BY <1>1, <1>2, <1>3, FailOK DEF ClockNotLeftOn, CardTypeOK
<1>4. CASE pc' = "hs_csd" /\ result' = result /\ UNCHANGED card
              /\ bus' = [bus EXCEPT !.state = "stby"]
  <2>1. CardTypeOK' BY <1>1, <1>2, <1>4 DEF CardTypeOK
  <2>2. ClockNotLeftOn' BY <1>1, <1>2, <1>4 DEF ClockNotLeftOn
  <2>3. HostOK' BY <1>1, <1>2, <1>4 DEF Progress, HostOK
  <2>4. StateOK' BY <1>1, <1>2, <1>4 DEF Progress, StateOK
  <2>5. WidthOK' BY <1>1, <1>2, <1>4 DEF Progress, WidthOK, Lines
  <2>6. EdgesOK' BY <1>1, <1>2, <1>4 DEF Progress, EdgesOK
  <2>7. SpeedOK' BY <1>1, <1>2, <1>4 DEF Progress, SpeedOK
  <2>8. CapacityOK' BY <1>1, <1>2, <1>4 DEF Progress, CapacityOK, Limited
  <2>9. PhaseOK' BY <1>1, <1>2, <1>4 DEF Progress, PhaseOK
  <2>10. pc' \in Steps /\ pc' # "op_cond_try" BY <1>4
  <2> QED
    BY <2>1, <2>2, <2>3, <2>4, <2>5, <2>6, <2>7, <2>8, <2>9, <2>10, KeepsIInv
<1> QED BY <1>1, <1>3, <1>4

\* CSD is read again: the capacity is no longer limited.
LEMMA HsCsdOK == ASSUME CardIInv, HsCsd PROVE CardIInv'
<1> USE InitAssumption
<1>1. /\ pc = "hs_csd" /\ UNCHANGED <<host, dev, nretries, err_cnt, hcs>>
      /\ \/ pc' = "done" /\ result' = "error" /\ UNCHANGED <<card, bus>>
         \/ pc' = "bus_width" /\ result' = result /\ UNCHANGED bus /\ is_spi
              /\ card' = [card EXCEPT !.capacity = dev.capacity, !.freq = Capped(SDR104)]
         \/ pc' = "hs_select" /\ result' = result /\ UNCHANGED bus /\ ~is_spi
              /\ card' = [card EXCEPT !.capacity = dev.capacity]
  BY DEF HsCsd, Step, Sends, Passes, Fails, Goto, Finish, loopVars, Learns
<1>2. CardTypeOK /\ ClockNotLeftOn /\ Progress /\ result = "none"
  BY <1>1 DEF CardIInv, CardTypeOK
<1>3. CASE pc' = "done" /\ result' = "error" /\ UNCHANGED <<card, bus>>
  BY <1>1, <1>2, <1>3, FailOK DEF ClockNotLeftOn, CardTypeOK
<1>4. CASE pc' = "bus_width" /\ result' = result /\ UNCHANGED bus /\ is_spi
              /\ card' = [card EXCEPT !.capacity = dev.capacity, !.freq = Capped(SDR104)]
  <2>1. CardTypeOK'
    <3>1. card \in CardRec /\ bus \in BusRec /\ dev \in DeviceType /\ host \in HostType
      BY <1>2, Types
    <3>2. Capped(SDR104) \in Freqs
      BY <1>2, CappedOK DEF Freqs, SDR104, Progress
    <3>3. dev.capacity \in Nat BY <3>1 DEF DeviceType
    <3>8. card' \in CardRec BY <1>4, <3>1, <3>2, <3>3 DEF CardRec
    <3>9. bus' \in BusRec BY <1>4, <3>1 DEF BusRec
    <3> QED BY <1>1, <1>2, <1>4, <3>8, <3>9, TypesKept
  <2>2. ClockNotLeftOn' BY <1>1, <1>2, <1>4 DEF ClockNotLeftOn
  <2>3. HostOK' BY <1>1, <1>2, <1>4 DEF Progress, HostOK
  <2>4. StateOK' BY <1>1, <1>2, <1>4 DEF Progress, StateOK
  <2>5. WidthOK' BY <1>1, <1>2, <1>4 DEF Progress, WidthOK, Lines
  <2>6. EdgesOK' BY <1>1, <1>2, <1>4 DEF Progress, EdgesOK
  <2>7. SpeedOK'
    <3>1. /\ Capped(SDR104) \in Nat /\ Capped(SDR104) <= host.freq /\ host.freq \in Nat
          /\ Capped(SDR104) <= SDR104
      BY <1>2, CappedOK DEF Freqs, SDR104, Progress
    <3>2. card'.freq \in {Capped(SDR104), card.freq} BY <1>4, <1>2, Types DEF CardRec
    <3>3. SpeedOK BY <1>2 DEF Progress
    <3> QED BY <1>1, <1>4, <3>1, <3>2, <3>3 DEF SpeedOK, F52M
  <2>8. CapacityOK'
    <3>1. /\ card.hc = dev.hc /\ ((dev.hs /\ host.freq > Default) \/ card.hc)
      BY <1>1, <1>2 DEF Progress, CapacityOK, SpeedOK
    <3>2. card'.hc = card.hc /\ card'.capacity = dev.capacity
      BY <1>4, <1>2, Types DEF CardRec
    <3> QED BY <1>1, <1>4, <3>1, <3>2 DEF CapacityOK, Limited
  <2>9. PhaseOK' BY <1>1, <1>2, <1>4 DEF Progress, PhaseOK
  <2>10. pc' \in Steps /\ pc' # "op_cond_try" BY <1>4
  <2> QED
    BY <2>1, <2>2, <2>3, <2>4, <2>5, <2>6, <2>7, <2>8, <2>9, <2>10, KeepsIInv
<1>5. CASE pc' = "hs_select" /\ result' = result /\ UNCHANGED bus /\ ~is_spi
              /\ card' = [card EXCEPT !.capacity = dev.capacity]
  <2>1. CardTypeOK'
    <3>1. card \in CardRec /\ bus \in BusRec /\ dev \in DeviceType /\ host \in HostType
      BY <1>2, Types
    <3>2. Capped(SDR104) \in Freqs
      BY <1>2, CappedOK DEF Freqs, SDR104, Progress
    <3>3. dev.capacity \in Nat BY <3>1 DEF DeviceType
    <3>8. card' \in CardRec BY <1>5, <3>1, <3>2, <3>3 DEF CardRec
    <3>9. bus' \in BusRec BY <1>5, <3>1 DEF BusRec
    <3> QED BY <1>1, <1>2, <1>5, <3>8, <3>9, TypesKept
  <2>2. ClockNotLeftOn' BY <1>1, <1>2, <1>5 DEF ClockNotLeftOn
  <2>3. HostOK' BY <1>1, <1>2, <1>5 DEF Progress, HostOK
  <2>4. StateOK' BY <1>1, <1>2, <1>5 DEF Progress, StateOK
  <2>5. WidthOK' BY <1>1, <1>2, <1>5 DEF Progress, WidthOK, Lines
  <2>6. EdgesOK' BY <1>1, <1>2, <1>5 DEF Progress, EdgesOK
  <2>7. SpeedOK'
    <3>1. /\ Capped(SDR104) \in Nat /\ Capped(SDR104) <= host.freq /\ host.freq \in Nat
          /\ Capped(SDR104) <= SDR104
      BY <1>2, CappedOK DEF Freqs, SDR104, Progress
    <3>2. card'.freq \in {Capped(SDR104), card.freq} BY <1>5, <1>2, Types DEF CardRec
    <3>3. SpeedOK BY <1>2 DEF Progress
    <3> QED BY <1>1, <1>5, <3>1, <3>2, <3>3 DEF SpeedOK, F52M
  <2>8. CapacityOK'
    <3>1. /\ card.hc = dev.hc /\ ((dev.hs /\ host.freq > Default) \/ card.hc)
      BY <1>1, <1>2 DEF Progress, CapacityOK, SpeedOK
    <3>2. card'.hc = card.hc /\ card'.capacity = dev.capacity
      BY <1>5, <1>2, Types DEF CardRec
    <3> QED BY <1>1, <1>5, <3>1, <3>2 DEF CapacityOK, Limited
  <2>9. PhaseOK' BY <1>1, <1>2, <1>5 DEF Progress, PhaseOK
  <2>10. pc' \in Steps /\ pc' # "op_cond_try" BY <1>5
  <2> QED
    BY <2>1, <2>2, <2>3, <2>4, <2>5, <2>6, <2>7, <2>8, <2>9, <2>10, KeepsIInv
<1> QED BY <1>1, <1>3, <1>4, <1>5

\* CMD7, at the higher speed.
LEMMA HsSelectOK == ASSUME CardIInv, HsSelect PROVE CardIInv'
<1> USE InitAssumption
<1>1. /\ pc = "hs_select" /\ UNCHANGED <<host, dev, nretries, err_cnt, hcs>>
      /\ \/ pc' = "done" /\ result' = "error" /\ UNCHANGED <<card, bus>>
         \/ /\ pc' = "bus_width" /\ result' = result
            /\ card' = [card EXCEPT !.freq = Capped(SDR104)]
            /\ bus' = [bus EXCEPT !.state = "tran"]
  BY DEF HsSelect, Step, Sends, Passes, Fails, Goto, Finish, loopVars
<1>2. CardTypeOK /\ ClockNotLeftOn /\ Progress /\ result = "none"
  BY <1>1 DEF CardIInv, CardTypeOK
<1>3. CASE pc' = "done" /\ result' = "error" /\ UNCHANGED <<card, bus>>
  BY <1>1, <1>2, <1>3, FailOK DEF ClockNotLeftOn, CardTypeOK
<1>4. CASE /\ pc' = "bus_width" /\ result' = result
           /\ card' = [card EXCEPT !.freq = Capped(SDR104)]
           /\ bus' = [bus EXCEPT !.state = "tran"]
  <2>1. CardTypeOK'
    <3>1. card \in CardRec /\ bus \in BusRec /\ dev \in DeviceType /\ host \in HostType
      BY <1>2, Types
    <3>2. Capped(SDR104) \in Freqs
      BY <1>2, CappedOK DEF Freqs, SDR104, Progress
    <3>8. card' \in CardRec BY <1>4, <3>1, <3>2 DEF CardRec
    <3>9. bus' \in BusRec BY <1>4, <3>1 DEF BusRec
    <3> QED BY <1>1, <1>2, <1>4, <3>8, <3>9, TypesKept
  <2>2. ClockNotLeftOn' BY <1>1, <1>2, <1>4 DEF ClockNotLeftOn
  <2>3. HostOK' BY <1>1, <1>2, <1>4 DEF Progress, HostOK
  <2>4. StateOK' BY <1>1, <1>2, <1>4 DEF Progress, StateOK
  <2>5. WidthOK' BY <1>1, <1>2, <1>4 DEF Progress, WidthOK, Lines
  <2>6. EdgesOK' BY <1>1, <1>2, <1>4 DEF Progress, EdgesOK
  <2>7. SpeedOK'
    <3>1. /\ Capped(SDR104) \in Nat /\ Capped(SDR104) <= host.freq /\ host.freq \in Nat
          /\ Capped(SDR104) <= SDR104
      BY <1>2, CappedOK DEF Freqs, SDR104, Progress
    <3>2. card'.freq = Capped(SDR104) BY <1>4, <1>2, Types DEF CardRec
    <3>3. SpeedOK BY <1>2 DEF Progress
    <3> QED BY <1>1, <1>4, <3>1, <3>2, <3>3 DEF SpeedOK, F52M
  <2>8. CapacityOK' BY <1>1, <1>2, <1>4 DEF Progress, CapacityOK, Limited
  <2>9. PhaseOK' BY <1>1, <1>2, <1>4 DEF Progress, PhaseOK
  <2>10. pc' \in Steps /\ pc' # "op_cond_try" BY <1>4
  <2> QED
    BY <2>1, <2>2, <2>3, <2>4, <2>5, <2>6, <2>7, <2>8, <2>9, <2>10, KeepsIInv
<1> QED BY <1>1, <1>3, <1>4

\* High-speed mode is not used, or needs nothing but the clock.
LEMMA KeepsMode ==
    ASSUME CardIInv, pc = "hs_mode", result = "none",
           UNCHANGED <<host, dev, nretries, err_cnt, hcs, bus, result>>,
           pc' = "bus_width",
           NEW f \in Freqs, card' = [card EXCEPT !.freq = f], f \in Nat,
           card.is_mem \/ card.is_sdio => f <= host.freq,
           is_sdmem => f <= F52M
    PROVE  CardIInv'
<1> USE InitAssumption
<1>0. CardTypeOK /\ ClockNotLeftOn /\ Progress BY DEF CardIInv
<1>a. card \in CardRec /\ bus \in BusRec /\ dev \in DeviceType /\ host \in HostType
  BY <1>0, Types
<1>1. CardTypeOK'
  <2>1. card' \in CardRec /\ bus' \in BusRec BY <1>a DEF CardRec, BusRec
  <2> QED BY <1>0, <1>a, <2>1, TypesKept
<1>2. ClockNotLeftOn' BY <1>0, <1>a DEF ClockNotLeftOn
<1>3. HostOK' BY <1>0, <1>a DEF Progress, HostOK
<1>4. StateOK' BY <1>0, <1>a DEF Progress, StateOK
<1>5. WidthOK' BY <1>0, <1>a DEF Progress, WidthOK, Lines
<1>6. EdgesOK' BY <1>0, <1>a DEF Progress, EdgesOK
<1>7. SpeedOK'
  <2>1. SpeedOK BY <1>0 DEF Progress
  <2>2. card'.freq = f /\ pc' \notin Unset \cup Sets \cup Switches BY <1>a DEF CardRec
  <2>3. is_sdmem => ~(f > F52M) BY DEF F52M
  <2> QED BY <1>a, <2>1, <2>2, <2>3 DEF SpeedOK
<1>8. CapacityOK' BY <1>0, <1>a DEF Progress, CapacityOK, Limited
<1>9. PhaseOK' BY <1>0, <1>a DEF Progress, PhaseOK
<1>10. pc' \in Steps /\ pc' # "op_cond_try" OBVIOUS
<1> QED
  BY <1>1, <1>2, <1>3, <1>4, <1>5, <1>6, <1>7, <1>8, <1>9, <1>10, KeepsIInv

\* The card has been switched to a higher speed.
LEMMA SwitchesMode ==
    ASSUME CardIInv, pc = "hs_mode", result = "none",
           UNCHANGED <<host, dev, nretries, err_cnt, hcs, result>>,
           pc' = IF is_spi THEN "hs_csd" ELSE "hs_deselect",
           NEW d \in BOOLEAN,
           card' = [card EXCEPT !.freq = Default, !.ddr = d],
           bus' = [bus EXCEPT !.card_ddr = d, !.ddr = d],
           is_sdmem, host.freq > Default, host.freq > F52M => bus.v18, dev.hs \/ bus.v18
    PROVE  CardIInv'
<1> USE InitAssumption
<1>0. CardTypeOK /\ ClockNotLeftOn /\ Progress BY DEF CardIInv
<1>a. card \in CardRec /\ bus \in BusRec /\ dev \in DeviceType /\ host \in HostType
  BY <1>0, Types
<1>1. CardTypeOK'
  <2>1. Default \in Freqs BY DEF Freqs
  <2>2. card' \in CardRec BY <1>a, <2>1 DEF CardRec
  <2>3. bus' \in BusRec BY <1>a DEF BusRec
  <2> QED BY <1>0, <1>a, <2>2, <2>3, TypesKept
<1>2. ClockNotLeftOn' BY <1>0, <1>a DEF ClockNotLeftOn
<1>3. HostOK' BY <1>0, <1>a DEF Progress, HostOK
<1>4. StateOK' BY <1>0, <1>a DEF Progress, StateOK
<1>5. WidthOK' BY <1>0, <1>a DEF Progress, WidthOK, Lines
<1>6. EdgesOK' BY <1>0, <1>a DEF Progress, EdgesOK
<1>7. SpeedOK'
  <2>1. SpeedOK BY <1>0 DEF Progress
  <2>2. /\ card'.freq = Default /\ pc' \notin Unset \cup Sets
        /\ pc' \notin Resets \cup OpConds \cup {"read_ocr", "uhs1"}
        /\ is_sdmem' /\ card'.hc = card.hc /\ bus'.v18 = bus.v18
    BY <1>a DEF CardRec, BusRec
  <2>3. ~(Default > F52M) /\ host.freq \in Nat /\ Default <= host.freq
    BY <1>a DEF F52M, Default, HostType
  <2> QED BY <1>a, <2>1, <2>2, <2>3 DEF SpeedOK
<1>8. CapacityOK' BY <1>0, <1>a DEF Progress, CapacityOK, Limited
<1>9. PhaseOK' BY <1>0, <1>a DEF Progress, PhaseOK
<1>10. pc' \in Steps /\ pc' # "op_cond_try" BY DEF Steps
<1> QED
  BY <1>1, <1>2, <1>3, <1>4, <1>5, <1>6, <1>7, <1>8, <1>9, <1>10, KeepsIInv

LEMMA CardHsModeOK == ASSUME CardIInv, CardHsMode PROVE CardIInv'
<1> USE InitAssumption
<1>1. /\ pc = "hs_mode" /\ UNCHANGED <<host, dev, nretries, err_cnt, hcs>>
      /\ CASE is_sdmem -> SdHsMode
           [] ~is_sdmem /\ card.is_sdio -> IoHsMode
           [] ~is_sdmem /\ ~card.is_sdio /\ card.is_mmc -> MmcHsMode
           [] OTHER -> AtDefault
  BY DEF CardHsMode, Step, loopVars
<1>2. CardTypeOK /\ ClockNotLeftOn /\ Progress /\ result = "none"
  BY <1>1 DEF CardIInv, CardTypeOK
<1>3. /\ host.freq \in Nat /\ host.freq \in Freqs /\ host \in HostType
      /\ Default \in Freqs /\ HighSpeed \in Freqs
      /\ card \in CardRec /\ bus \in BusRec
  <2>1. host.freq \in Freqs BY <1>2 DEF Progress, HostOK, Freqs
  <2> QED BY <1>2, <2>1, Types DEF HostType, Freqs
<1>4. CASE Fails
  <2>1. pc' = "done" /\ result' = "error" /\ UNCHANGED <<card, bus>>
    BY <1>4 DEF Fails, Finish
  <2> QED BY <1>1, <1>2, <2>1, FailOK DEF ClockNotLeftOn, CardTypeOK
<1>5. ASSUME NEW f \in Freqs, f \in Nat, At(f), is_sdmem => f <= F52M,
             card.is_mem \/ card.is_sdio => f <= host.freq
      PROVE  CardIInv'
  <2>1. /\ pc' = "bus_width" /\ UNCHANGED <<bus, result>>
        /\ card' = [card EXCEPT !.freq = f]
    BY <1>5 DEF At, Learns, Goto
  <2> QED BY <1>1, <1>2, <1>5, <2>1, KeepsMode
<1>6. AtDefault => At(Default) BY DEF AtDefault, At
<1>7. CASE is_sdmem
  <2>1. SdHsMode BY <1>1, <1>7
  <2>2. CASE host.freq <= Default
    <3>1. At(host.freq) BY <2>1, <2>2 DEF SdHsMode
    <3> QED BY <1>3, <1>5, <2>2, <3>1 DEF Default, F52M
  <2>3. CASE ~(host.freq <= Default)
    <3>1. PICK offered \in Offers :
             Sends(IF offered
                   THEN /\ Goto(IF is_spi THEN "hs_csd" ELSE "hs_deselect")
                        /\ card' = [card EXCEPT !.freq = Default,
                                                !.ddr = (AccessMode = "ddr50")]
                        /\ bus' = [bus EXCEPT !.card_ddr = (AccessMode = "ddr50"),
                                              !.ddr = (AccessMode = "ddr50")]
                   ELSE AtDefault)
      BY <2>1, <2>3 DEF SdHsMode
    <3>2. CASE ~offered /\ AtDefault
      <4>1. Default <= host.freq /\ Default <= F52M BY <1>3, <2>3 DEF Default, F52M
      <4> QED BY <1>3, <1>5, <1>6, <3>2, <4>1 DEF Default
    <3>3. CASE /\ offered
               /\ Goto(IF is_spi THEN "hs_csd" ELSE "hs_deselect")
               /\ card' = [card EXCEPT !.freq = Default, !.ddr = (AccessMode = "ddr50")]
               /\ bus' = [bus EXCEPT !.card_ddr = (AccessMode = "ddr50"),
                                     !.ddr = (AccessMode = "ddr50")]
      <4> DEFINE d == (AccessMode = "ddr50")
      <4>1. /\ pc' = IF is_spi THEN "hs_csd" ELSE "hs_deselect"
            /\ result' = result
            /\ card' = [card EXCEPT !.freq = Default, !.ddr = d]
            /\ bus' = [bus EXCEPT !.card_ddr = d, !.ddr = d]
        BY <3>3 DEF Goto
      <4>2. d \in BOOLEAN OBVIOUS
      <4>3. AccessMode = "sdr25" => dev.hs BY <3>1, <3>3 DEF Offers
      <4>4. AccessMode # "sdr25" => bus.v18 BY <3>1, <3>3 DEF Offers
      <4>5. host.freq > F52M => AccessMode # "sdr25"
        <5>1. host.freq > F52M => host.freq \in {SDR50, SDR104}
          BY <1>2, <1>3 DEF Progress, HostOK, UhsFreqs, DDR50, F52M
        <5> QED BY <5>1 DEF AccessMode
      <4>6. host.freq > Default BY <1>3, <2>3 DEF Default
      <4> HIDE DEF d
      <4> QED BY <1>1, <1>2, <1>7, <4>1, <4>2, <4>3, <4>4, <4>5, <4>6, SwitchesMode
    <3> QED BY <1>4, <3>1, <3>2, <3>3 DEF Sends
  <2> QED BY <2>2, <2>3
<1>8. CASE ~is_sdmem /\ card.is_sdio
  <2>1. IoHsMode BY <1>1, <1>8
  <2>2. CASE host.freq < Default
    <3>1. ~(host.freq >= Default) BY <1>3, <2>2 DEF Default
    <3>2. At(host.freq) BY <2>1, <2>2, <3>1 DEF IoHsMode
    <3> QED BY <1>3, <1>5, <1>8, <3>2
  <2>3. CASE host.freq >= Default /\ host.freq < HighSpeed
    <3>1. At(Default) BY <2>1, <2>3, <1>3 DEF IoHsMode, Default
    <3> QED BY <1>3, <1>5, <1>8, <2>3, <3>1 DEF Default
  <2>4. CASE ~(host.freq < Default) /\ ~(host.freq >= Default /\ host.freq < HighSpeed)
    <3>1. Sends(IF dev.hs THEN At(HighSpeed) ELSE AtDefault) BY <2>1, <2>4 DEF IoHsMode
    <3>2. HighSpeed <= host.freq /\ Default <= host.freq
      BY <1>3, <2>4 DEF Default, HighSpeed
    <3> QED BY <1>3, <1>4, <1>5, <1>6, <1>8, <3>1, <3>2 DEF Sends, Default, HighSpeed
  <2> QED BY <2>2, <2>3, <2>4
<1>9. CASE ~is_sdmem /\ ~card.is_sdio /\ card.is_mmc
  <2>1. MmcHsMode BY <1>1, <1>9
  <2>2. Passes("bus_width") \/ Fails BY <2>1 DEF MmcHsMode, Sends
  <2>3. CASE Passes("bus_width")
    <3>1. pc' = "bus_width" /\ result' = result /\ UNCHANGED <<card, bus>>
      BY <2>3 DEF Passes, Goto
    <3> QED BY <1>1, <1>2, <3>1, PassOK
  <2> QED BY <1>4, <2>2, <2>3
<1>10. CASE ~is_sdmem /\ ~card.is_sdio /\ ~card.is_mmc
  <2>1. AtDefault BY <1>1, <1>10
  <2>2. ~card.is_mem BY <1>10
  <2> QED BY <1>3, <1>5, <1>6, <1>10, <2>1, <2>2 DEF Default
<1> QED BY <1>7, <1>8, <1>9, <1>10

\* The card is told how many lines to use.
LEMMA CardWidened ==
    ASSUME CardIInv, pc = "bus_width", result = "none", ~is_spi,
           UNCHANGED <<host, dev, nretries, err_cnt, hcs, result>>,
           pc' = "host_width",
           NEW w \in {0, 2, 3}, w = 2 => 4 \in host.flags, w = 3 => 8 \in host.flags,
           is_mem => w = card.width,
           NEW e \in BOOLEAN, e = card.ddr \/ (is_mmc /\ card.ddr /\ w = 0),
           card' = [card EXCEPT !.width = w],
           bus' = [bus EXCEPT !.card = Lines(w), !.card_ddr = e]
    PROVE  CardIInv'
<1> USE InitAssumption
<1>0. CardTypeOK /\ ClockNotLeftOn /\ Progress BY DEF CardIInv
<1>a. /\ card \in CardRec /\ bus \in BusRec /\ dev \in DeviceType /\ host \in HostType
      /\ card'.width = w /\ Lines(w) \in {1, 4, 8} /\ bus'.card = Lines(w)
      /\ bus'.card_ddr = e /\ bus'.ddr = bus.ddr /\ card'.ddr = card.ddr
  BY <1>0, Types DEF CardRec, BusRec, Lines
<1>1. CardTypeOK'
  <2>1. card' \in CardRec BY <1>a DEF CardRec
  <2>2. bus' \in BusRec
    <3> HIDE DEF Lines
    <3> QED BY <1>a DEF CardRec, BusRec
  <2> QED BY <1>0, <2>1, <2>2, TypesKept
<1>2. ClockNotLeftOn' BY <1>0, <1>a DEF ClockNotLeftOn
<1>3. HostOK' BY <1>0, <1>a DEF Progress, HostOK
<1>4. StateOK' BY <1>0, <1>a DEF Progress, StateOK
<1>5. WidthOK'
  <2>1. pc' \notin Unread /\ pc' \notin Ends OBVIOUS
  <2> HIDE DEF Lines
  <2> QED BY <1>a, <2>1 DEF WidthOK
<1>6. EdgesOK'
  <2>1. EdgesOK BY <1>0 DEF Progress
  <2>2. ~card.ddr => ~bus.ddr BY <2>1 DEF EdgesOK
  <2>3. card'.is_mem = card.is_mem /\ card'.is_mmc = card.is_mmc BY <1>a DEF CardRec
  <2>4. bus'.card_ddr = card'.ddr \/ OneLineDdr' BY <1>a, <2>3
  <2>5. pc' \notin Unset /\ pc' \notin Sets /\ pc' \notin {"tuning", "check", "done"}
    OBVIOUS
  <2> HIDE DEF OneLineDdr
  <2> QED BY <1>a, <2>2, <2>4, <2>5 DEF EdgesOK
<1>7. SpeedOK' BY <1>0, <1>a DEF Progress, SpeedOK
<1>8. CapacityOK' BY <1>0, <1>a DEF Progress, CapacityOK, Limited
<1>9. PhaseOK' BY <1>0, <1>a DEF Progress, PhaseOK
<1>10. pc' \in Steps /\ pc' # "op_cond_try" BY <1>0, <1>a
<1> QED
  BY <1>1, <1>2, <1>3, <1>4, <1>5, <1>6, <1>7, <1>8, <1>9, <1>10, KeepsIInv

LEMMA CardBusWidthOK == ASSUME CardIInv, CardBusWidth PROVE CardIInv'
<1> USE InitAssumption
<1> DEFINE w == IF is_sdio THEN IoWidth ELSE card.width
           e == card.ddr /\ (is_mmc => w > 0)
<1>1. /\ pc = "bus_width" /\ UNCHANGED <<host, dev, nretries, err_cnt, hcs>>
      /\ \/ pc' = "done" /\ result' = "error" /\ UNCHANGED <<card, bus>>
         \/ pc' = "strength" /\ result' = result /\ UNCHANGED <<card, bus>> /\ is_spi
         \/ /\ pc' = "host_width" /\ result' = result /\ ~is_spi
            /\ card' = [card EXCEPT !.width = w]
            /\ bus' = [bus EXCEPT !.card = Lines(w), !.card_ddr = e]
  BY DEF CardBusWidth, Step, Sends, Passes, Fails, Goto, Finish, loopVars
<1>2. CardTypeOK /\ ClockNotLeftOn /\ Progress /\ result = "none"
  BY <1>1 DEF CardIInv, CardTypeOK
<1>3. CASE pc' = "done" /\ result' = "error" /\ UNCHANGED <<card, bus>>
  BY <1>1, <1>2, <1>3, FailOK DEF ClockNotLeftOn, CardTypeOK
<1>4. CASE pc' = "strength" /\ result' = result /\ UNCHANGED <<card, bus>> /\ is_spi
  BY <1>1, <1>2, <1>4, PassOK
<1>5. CASE /\ pc' = "host_width" /\ result' = result /\ ~is_spi
           /\ card' = [card EXCEPT !.width = w]
           /\ bus' = [bus EXCEPT !.card = Lines(w), !.card_ddr = e]
  <2>1. card \in CardRec BY <1>2, Types
  <2>2. /\ w \in {0, 2, 3} /\ (w = 2 => 4 \in host.flags) /\ (w = 3 => 8 \in host.flags)
        /\ is_mem => w = card.width
    BY <1>2, <2>1 DEF Progress, WidthOK, IoWidth, CardRec
  <2>3. e = card.ddr \/ (is_mmc /\ card.ddr /\ w = 0)
    <3>1. card.ddr \in BOOLEAN BY <2>1 DEF CardRec
    <3>2. CASE card.ddr /\ ~(is_mmc => w > 0)
      <4>1. w = 0 BY <2>2, <3>2
      <4> QED BY <3>2, <4>1
    <3>3. CASE card.ddr /\ (is_mmc => w > 0)
      BY <3>1, <3>3
    <3>4. CASE ~card.ddr
      BY <3>1, <3>4
    <3> QED BY <3>2, <3>3, <3>4
  <2>4. e \in BOOLEAN OBVIOUS
  <2> HIDE DEF w, e
  <2> QED BY <1>1, <1>2, <1>5, <2>2, <2>3, <2>4, CardWidened
<1> QED BY <1>1, <1>3, <1>4, <1>5

\* The host follows the card.
LEMMA HostBusWidthOK == ASSUME CardIInv, HostBusWidth PROVE CardIInv'
<1> USE InitAssumption
<1>1. /\ pc = "host_width" /\ UNCHANGED <<host, dev, nretries, err_cnt, hcs>>
      /\ \/ pc' = "done" /\ result' = "error" /\ UNCHANGED <<card, bus>>
         \/ /\ pc' = "strength" /\ result' = result /\ UNCHANGED card
            /\ bus' = [bus EXCEPT !.host = HostWidth]
  BY DEF HostBusWidth, Step, Sends, Passes, Fails, Goto, Finish, loopVars
<1>2. CardTypeOK /\ ClockNotLeftOn /\ Progress /\ result = "none"
  BY <1>1 DEF CardIInv, CardTypeOK
<1>3. CASE pc' = "done" /\ result' = "error" /\ UNCHANGED <<card, bus>>
  BY <1>1, <1>2, <1>3, FailOK DEF ClockNotLeftOn, CardTypeOK
<1>4. CASE /\ pc' = "strength" /\ result' = result /\ UNCHANGED card
           /\ bus' = [bus EXCEPT !.host = HostWidth]
  <2>1. CardTypeOK'
    <3>1. card \in CardRec /\ bus \in BusRec /\ dev \in DeviceType /\ host \in HostType
      BY <1>2, Types
    <3>2. HostWidth \in {1, 4, 8} BY DEF HostWidth
    <3>8. card' \in CardRec BY <1>1, <1>2, <1>4, <3>1, <3>2 DEF CardRec
    <3>9. bus' \in BusRec BY <1>1, <1>2, <1>4, <3>1, <3>2 DEF BusRec
    <3> QED BY <1>1, <1>2, <1>4, <3>8, <3>9, TypesKept
  <2>2. ClockNotLeftOn' BY <1>1, <1>2, <1>4 DEF ClockNotLeftOn
  <2>3. HostOK' BY <1>1, <1>2, <1>4 DEF Progress, HostOK
  <2>4. StateOK' BY <1>1, <1>2, <1>4 DEF Progress, StateOK
  <2>5. WidthOK'
    <3>1. card \in CardRec /\ bus \in BusRec /\ host \in HostType BY <1>2, Types
    <3>2. bus'.host = HostWidth /\ bus'.card = bus.card BY <1>4, <3>1 DEF BusRec
    <3>3. WidthOK /\ HostOK BY <1>2 DEF Progress
    <3>4. ~is_spi => bus.card = Lines(card.width) BY <1>1, <3>3 DEF WidthOK
    <3>5. HostWidth = Lines(card.width)
      BY <3>1, <3>3 DEF WidthOK, HostWidth, Lines, CardRec
    <3>6. ~is_spi => HostWidth <= host.slot
      BY <1>1, <3>1, <3>3 DEF HostOK, HostWidth, HostType
    <3> QED BY <1>1, <1>4, <3>2, <3>3, <3>4, <3>5, <3>6 DEF WidthOK
  <2>6. EdgesOK' BY <1>1, <1>2, <1>4 DEF Progress, EdgesOK
  <2>7. SpeedOK' BY <1>1, <1>2, <1>4 DEF Progress, SpeedOK
  <2>8. CapacityOK' BY <1>1, <1>2, <1>4 DEF Progress, CapacityOK, Limited
  <2>9. PhaseOK' BY <1>1, <1>2, <1>4 DEF Progress, PhaseOK
  <2>10. pc' \in Steps /\ pc' # "op_cond_try" BY <1>1, <1>2, <1>4
  <2> QED
    BY <2>1, <2>2, <2>3, <2>4, <2>5, <2>6, <2>7, <2>8, <2>9, <2>10, KeepsIInv
<1> QED BY <1>1, <1>3, <1>4

\* The host's clock, edges and sampling point.
LEMMA HostClocked ==
    ASSUME CardIInv, pc = "host_freq", result = "none",
           UNCHANGED <<host, dev, card, nretries, err_cnt, hcs, result>>,
           pc' = "tuning",
           bus' = [bus EXCEPT !.ddr = card.ddr, !.phase = host.delay]
    PROVE  CardIInv'
<1> USE InitAssumption
<1>0. CardTypeOK /\ ClockNotLeftOn /\ Progress BY DEF CardIInv
<1>a. card \in CardRec /\ bus \in BusRec /\ dev \in DeviceType /\ host \in HostType
  BY <1>0, Types
<1>1. CardTypeOK'
  <2>1. host.delay \in 0..PhaseAuto /\ card.ddr \in BOOLEAN
    BY <1>a DEF HostType, CardRec
  <2>2. bus' \in BusRec BY <1>a, <2>1 DEF BusRec
  <2> QED BY <1>0, <1>a, <2>2, TypesKept
<1>2. ClockNotLeftOn' BY <1>0, <1>a DEF ClockNotLeftOn
<1>3. HostOK' BY <1>0, <1>a DEF Progress, HostOK
<1>4. StateOK' BY <1>0, <1>a DEF Progress, StateOK
<1>5. WidthOK' BY <1>0, <1>a DEF Progress, WidthOK, Lines
<1>6. EdgesOK'
  <2>1. EdgesOK BY <1>0 DEF Progress
  <2>2. bus'.ddr = card.ddr /\ bus'.card_ddr = bus.card_ddr BY <1>a DEF BusRec
  <2> QED BY <2>1, <2>2 DEF EdgesOK
<1>7. SpeedOK' BY <1>0, <1>a DEF Progress, SpeedOK
<1>8. CapacityOK' BY <1>0, <1>a DEF Progress, CapacityOK, Limited
<1>9. PhaseOK' BY <1>0, <1>a DEF Progress, PhaseOK
<1>10. pc' \in Steps /\ pc' # "op_cond_try" BY <1>0, <1>a
<1> QED
  BY <1>1, <1>2, <1>3, <1>4, <1>5, <1>6, <1>7, <1>8, <1>9, <1>10, KeepsIInv

LEMMA HostFrequencyOK == ASSUME CardIInv, HostFrequency PROVE CardIInv'
<1> USE InitAssumption
<1>1. /\ pc = "host_freq" /\ UNCHANGED <<host, dev, nretries, err_cnt, hcs>>
      /\ \/ pc' = "done" /\ result' = "error" /\ UNCHANGED <<card, bus>>
         \/ /\ pc' = "tuning" /\ result' = result /\ UNCHANGED card
            /\ bus' = [bus EXCEPT !.ddr = bus.ddr \/ card.ddr, !.phase = host.delay]
  BY DEF HostFrequency, Step, Sends, Passes, Fails, Goto, Finish, loopVars
<1>2. CardTypeOK /\ ClockNotLeftOn /\ Progress /\ result = "none"
  BY <1>1 DEF CardIInv, CardTypeOK
<1>3. CASE pc' = "done" /\ result' = "error" /\ UNCHANGED <<card, bus>>
  BY <1>1, <1>2, <1>3, FailOK DEF ClockNotLeftOn, CardTypeOK
<1>4. CASE /\ pc' = "tuning" /\ result' = result /\ UNCHANGED card
           /\ bus' = [bus EXCEPT !.ddr = bus.ddr \/ card.ddr, !.phase = host.delay]
  <2>1. card.ddr \in BOOLEAN BY <1>2, Types DEF CardRec
  <2>2. bus.ddr \/ card.ddr <=> card.ddr BY <1>2 DEF Progress, EdgesOK
  <2>3. (bus.ddr \/ card.ddr) = card.ddr BY <2>1, <2>2
  <2> QED BY <1>1, <1>2, <1>4, <2>3, HostClocked
<1> QED BY <1>1, <1>3, <1>4

\* What was read before is read again.
LEMMA CheckOK == ASSUME CardIInv, Check PROVE CardIInv'
<1> USE InitAssumption
<1>1. /\ pc = "check" /\ UNCHANGED <<host, dev, card, bus, nretries, err_cnt, hcs>>
      /\ pc' = "done" /\ result' \in {"ok", "error"}
  BY DEF Check, Step, Sends, Passes, Fails, Goto, Finish, loopVars
<1>2. CardTypeOK /\ ClockNotLeftOn /\ Progress /\ result = "none"
  BY <1>1 DEF CardIInv, CardTypeOK
<1>3. CardIInv'
  <2>1. CardTypeOK' BY <1>1, <1>2 DEF CardTypeOK
  <2>2. ClockNotLeftOn' BY <1>1, <1>2 DEF ClockNotLeftOn
  <2>3. HostOK' BY <1>1, <1>2 DEF Progress, HostOK
  <2>4. StateOK' BY <1>1, <1>2 DEF Progress, StateOK
  <2>5. WidthOK' BY <1>1, <1>2 DEF Progress, WidthOK, Lines
  <2>6. EdgesOK' BY <1>1, <1>2 DEF Progress, EdgesOK
  <2>7. SpeedOK' BY <1>1, <1>2 DEF Progress, SpeedOK
  <2>8. CapacityOK' BY <1>1, <1>2 DEF Progress, CapacityOK, Limited
  <2>9. PhaseOK'
    <3>1. MissedRun' <=> MissedRun BY <1>1 DEF MissedRun
    <3> QED BY <1>1, <1>2, <3>1 DEF Progress, PhaseOK
  <2>10. pc' \in Steps /\ pc' # "op_cond_try" BY <1>1, <1>2
  <2> QED
    BY <2>1, <2>2, <2>3, <2>4, <2>5, <2>6, <2>7, <2>8, <2>9, <2>10, KeepsIInv
<1> QED BY <1>3

\* The largest and the smallest of a few numbers.
LEMMA LargestOf ==
    ASSUME NEW S \in SUBSET (0..PhaseAuto), S # {}
    PROVE  Max(S) \in S /\ \A y \in S : Max(S) >= y
<1>1. S \subseteq {0, 1, 2, 3, 4} BY DEF PhaseAuto
<1>2. \E x \in S : \A y \in S : x >= y
  <2>1. CASE 4 \in S BY <1>1, <2>1
  <2>2. CASE 4 \notin S /\ 3 \in S BY <1>1, <2>2
  <2>3. CASE 4 \notin S /\ 3 \notin S /\ 2 \in S BY <1>1, <2>3
  <2>4. CASE 4 \notin S /\ 3 \notin S /\ 2 \notin S /\ 1 \in S BY <1>1, <2>4
  <2>5. CASE 4 \notin S /\ 3 \notin S /\ 2 \notin S /\ 1 \notin S
    <3>1. S = {0} BY <1>1, <2>5
    <3> QED BY <3>1
  <2> QED BY <2>1, <2>2, <2>3, <2>4, <2>5
<1> QED BY <1>2 DEF Max

LEMMA SmallestOf ==
    ASSUME NEW S \in SUBSET (0..PhaseAuto), S # {}
    PROVE  Min(S) \in S /\ \A y \in S : Min(S) <= y
<1>1. S \subseteq {0, 1, 2, 3, 4} BY DEF PhaseAuto
<1>2. \E x \in S : \A y \in S : x <= y
  <2>1. CASE 0 \in S BY <1>1, <2>1
  <2>2. CASE 0 \notin S /\ 1 \in S BY <1>1, <2>2
  <2>3. CASE 0 \notin S /\ 1 \notin S /\ 2 \in S BY <1>1, <2>3
  <2>4. CASE 0 \notin S /\ 1 \notin S /\ 2 \notin S /\ 3 \in S BY <1>1, <2>4
  <2>5. CASE 0 \notin S /\ 1 \notin S /\ 2 \notin S /\ 3 \notin S
    <3>1. S = {4} BY <1>1, <2>5
    <3> QED BY <3>1
  <2> QED BY <2>1, <2>2, <2>3, <2>4, <2>5
<1> QED BY <1>2 DEF Min

\* match_num after a point is the length of the run that reaches it.
LEMMA RunIs ==
    ASSUME NEW good \in SUBSET Phases, NEW i \in Phases
    PROVE  /\ RunAt(good, i) \in 0..i + 1
           /\ (i - RunAt(good, i) + 1)..i \subseteq good
           /\ \A n \in 0..i + 1 : (i - n + 1)..i \subseteq good => n <= RunAt(good, i)
<1> DEFINE R == {n \in 0..i + 1 : (i - n + 1)..i \subseteq good}
<1>1. R \in SUBSET (0..PhaseAuto) BY DEF Phases, PhaseAuto
<1>2. 0 \in R BY DEF Phases, PhaseAuto
<1>3. Max(R) \in R /\ \A y \in R : Max(R) >= y BY <1>1, <1>2, LargestOf
<1>4. RunAt(good, i) = Max(R) BY DEF RunAt
<1> QED BY <1>3, <1>4 DEF Phases, PhaseAuto

\* The search finds a point that worked, or misses a run at the end of the table.
LEMMA ProperPhaseWorks ==
    ASSUME NEW good \in SUBSET Phases
    PROVE  /\ ProperPhase(good) \in 0..PhaseAuto
           /\ \/ ProperPhase(good) \in good \/ good = {}
              \/ \E n \in Phases :
                    /\ n..PhaseAuto - 1 \subseteq good
                    /\ \A i \in EndedRuns(good) : RunAt(good, i) < PhaseAuto - n
<1> DEFINE ended == EndedRuns(good)
           best == {i \in ended : \A j \in ended : RunAt(good, j) <= RunAt(good, i)}
           Runs == {RunAt(good, i) : i \in Phases}
<1>1. \A i \in Phases : RunAt(good, i) \in 0..PhaseAuto
  BY RunIs DEF Phases, PhaseAuto
<1>2. ended \subseteq {0, 1, 2} /\ ended \subseteq good
  BY DEF EndedRuns, Phases, PhaseAuto
<1>3. PICK j \in Phases : Longest(good) = RunAt(good, j)
                          /\ \A i \in Phases : RunAt(good, i) <= RunAt(good, j)
  <2>1. Runs \in SUBSET (0..PhaseAuto) BY <1>1
  <2>2. RunAt(good, 0) \in Runs BY DEF Phases, PhaseAuto
  <2>3. Max(Runs) \in Runs /\ \A y \in Runs : Max(Runs) >= y
    BY <2>1, <2>2, LargestOf
  <2> QED BY <1>1, <2>1, <2>3 DEF Longest, PhaseAuto
<1> DEFINE r == RunAt(good, j)
<1>4. r \in 0..j + 1 /\ (j - r + 1)..j \subseteq good BY RunIs
<1>5. good # {} => r >= 1
  <2>1. ASSUME NEW k \in good PROVE r >= 1
    <3>1. (k - 1 + 1)..k \subseteq good /\ k \in Phases /\ 1 \in 0..k + 1
      BY DEF Phases, PhaseAuto
    <3>2. RunAt(good, k) >= 1 BY <3>1, RunIs, <1>1 DEF PhaseAuto
    <3> QED BY <1>1, <1>3, <3>1, <3>2 DEF PhaseAuto
  <2> QED BY <2>1
\* The longest run is ended by a failure or by the end of the table.
<1>6. r >= 1 => j \in ended \/ j = PhaseAuto - 1
  <2>1. SUFFICES ASSUME r >= 1, j # PhaseAuto - 1, j + 1 \in good PROVE FALSE
    BY <1>4 DEF EndedRuns, Phases, PhaseAuto
  <2>2. j + 1 \in Phases /\ r + 1 \in 0..j + 2 BY <1>4, <2>1 DEF Phases, PhaseAuto
  <2>3. (j + 1 - (r + 1) + 1)..j + 1 \subseteq good
    BY <1>4, <2>1 DEF Phases, PhaseAuto
  <2>4. RunAt(good, j + 1) >= r + 1
    BY <2>2, <2>3, RunIs, <1>1 DEF Phases, PhaseAuto
  <2> QED BY <1>1, <1>3, <2>2, <2>4 DEF PhaseAuto
\* When it is the end of the table, the search misses it.
<1>7. ASSUME r >= 1, j = PhaseAuto - 1, \A i \in ended : RunAt(good, i) < r
      PROVE  \E n \in Phases :
                /\ n..PhaseAuto - 1 \subseteq good
                /\ \A i \in EndedRuns(good) : RunAt(good, i) < PhaseAuto - n
  <2>1. PhaseAuto - r \in Phases /\ PhaseAuto - (PhaseAuto - r) = r
    BY <1>4, <1>7 DEF Phases, PhaseAuto
  <2>2. (PhaseAuto - r)..PhaseAuto - 1 \subseteq good
    BY <1>4, <1>7 DEF PhaseAuto, Phases
  <2> QED BY <1>7, <2>1, <2>2
<1>8. CASE good = Phases
  <2>1. EndIndex(good) = PhaseAuto BY <1>8 DEF EndIndex
  <2>2. r = PhaseAuto
    <3>1. RunAt(good, 3) >= 4
      <4>1. 4 \in 0..3 + 1 /\ (3 - 4 + 1)..3 \subseteq good /\ 3 \in Phases
        BY <1>8 DEF Phases, PhaseAuto
      <4> QED BY <4>1, RunIs, <1>1 DEF PhaseAuto
    <3> QED BY <1>1, <1>3, <1>4, <3>1 DEF Phases, PhaseAuto
  <2>3. ProperPhase(good) = 2 BY <1>3, <2>1, <2>2 DEF ProperPhase, PhaseAuto
  <2> QED BY <1>8, <2>3 DEF Phases, PhaseAuto
<1>9. CASE good # Phases /\ ended = {}
  <2>1. EndIndex(good) = 0 BY <1>9 DEF EndIndex
  <2>2. ProperPhase(good) = 0 BY <2>1 DEF ProperPhase
  <2> QED BY <1>4, <1>5, <1>6, <1>7, <1>9, <2>2 DEF PhaseAuto
<1>10. CASE good # Phases /\ ended # {}
  <2> DEFINE e == Min(best)
  <2>1. best # {}
    <3> DEFINE S == {RunAt(good, i) : i \in ended}
    <3>1. S \in SUBSET (0..PhaseAuto) /\ S # {} BY <1>1, <1>2, <1>10 DEF EndedRuns
    <3>2. Max(S) \in S /\ \A y \in S : Max(S) >= y BY <3>1, LargestOf
    <3>3. PICK i \in ended : Max(S) = RunAt(good, i) BY <3>2
    <3>4. \A k \in ended : RunAt(good, k) <= RunAt(good, i)
      BY <3>1, <3>2, <3>3 DEF PhaseAuto
    <3> QED BY <3>4
  <2>2. best \in SUBSET (0..PhaseAuto) BY <1>2 DEF PhaseAuto
  <2>3. e \in best BY <2>1, <2>2, SmallestOf
  <2>4. /\ e \in {0, 1, 2} /\ e \in good /\ e \in Phases
        /\ \A i \in ended : RunAt(good, i) <= RunAt(good, e)
    BY <1>2, <2>3
  <2>5. EndIndex(good) = e BY <1>10 DEF EndIndex
  <2>6. CASE Longest(good) = 1
    <3>1. ProperPhase(good) = e BY <2>5, <2>6 DEF ProperPhase
    <3> QED BY <2>4, <3>1 DEF PhaseAuto
  <2>7. CASE Longest(good) # 1
    <3> HIDE DEF e
    <3>1. ProperPhase(good) = e \div 2 BY <2>5, <2>7 DEF ProperPhase
    <3>2. ProperPhase(good) = IF e = 2 THEN 1 ELSE 0 BY <2>4, <3>1
    <3>3. r >= 2 BY <1>3, <1>4, <1>5, <2>4, <2>7 DEF Phases, PhaseAuto
    <3>4. CASE RunAt(good, e) = r
      <4>1. r <= e + 1 /\ (e - r + 1)..e \subseteq good
        <5>1. /\ RunAt(good, e) \in 0..e + 1
              /\ (e - RunAt(good, e) + 1)..e \subseteq good
          BY <2>4, RunIs
        <5> HIDE DEF r
        <5> QED BY <2>4, <3>4, <5>1
      <4>2. e - 1 \in good BY <2>4, <3>3, <4>1, <1>4 DEF Phases, PhaseAuto
      <4>3. e = 1 \/ e = 2
        <5> HIDE DEF r
        <5> QED BY <1>4, <2>4, <3>3, <4>1 DEF Phases, PhaseAuto
      <4> QED BY <3>2, <4>2, <4>3 DEF PhaseAuto
    <3>5. CASE RunAt(good, e) # r
      <4>1. \A i \in ended : RunAt(good, i) < r
        <5>1. RunAt(good, e) < r BY <1>1, <1>3, <2>4, <3>5 DEF PhaseAuto
        <5>2. ended \subseteq Phases BY DEF EndedRuns
        <5>3. RunAt(good, e) \in Int /\ r \in Int
          BY <1>1, <2>4 DEF PhaseAuto
        <5>4. \A i \in ended : RunAt(good, i) \in Int BY <1>1, <5>2 DEF PhaseAuto
        <5> HIDE DEF r, ended, best
        <5> QED BY <2>4, <5>1, <5>3, <5>4
      <4>2. j \notin ended BY <4>1, <1>4
      <4>3. j = PhaseAuto - 1 BY <1>6, <3>3, <4>2, <1>4
      <4> QED BY <1>4, <1>7, <3>2, <3>3, <4>1, <4>3 DEF PhaseAuto
    <3> QED BY <3>4, <3>5
  <2> QED BY <2>6, <2>7
<1> QED BY <1>8, <1>9, <1>10

\* The search sets the host to a point that works.
LEMMA Tuned ==
    ASSUME CardIInv, pc = "tuning", result = "none",
           UNCHANGED <<host, dev, card, nretries, err_cnt, hcs, result>>,
           pc' = "check", NEW good \in SUBSET Phases,
           bus' = [bus EXCEPT !.phase = ProperPhase(good), !.good = good]
    PROVE  CardIInv'
<1> USE InitAssumption
<1>0. CardTypeOK /\ ClockNotLeftOn /\ Progress BY DEF CardIInv
<1>a. /\ card \in CardRec /\ bus \in BusRec /\ dev \in DeviceType /\ host \in HostType
      /\ ProperPhase(good) \in 0..PhaseAuto
  BY <1>0, Types, ProperPhaseWorks
<1>1. CardTypeOK'
  <2>1. bus' \in BusRec
    <3> HIDE DEF Phases
    <3> QED BY <1>a DEF BusRec
  <2> QED BY <1>0, <1>a, <2>1, TypesKept
<1>2. ClockNotLeftOn' BY <1>0, <1>a DEF ClockNotLeftOn
<1>3. HostOK' BY <1>0, <1>a DEF Progress, HostOK
<1>4. StateOK' BY <1>0, <1>a DEF Progress, StateOK
<1>5. WidthOK' BY <1>0, <1>a DEF Progress, WidthOK, Lines
<1>6. EdgesOK' BY <1>0, <1>a DEF Progress, EdgesOK
<1>7. SpeedOK' BY <1>0, <1>a DEF Progress, SpeedOK
<1>8. CapacityOK' BY <1>0, <1>a DEF Progress, CapacityOK, Limited
<1>9. PhaseOK'
  <2>1. bus'.phase = ProperPhase(good) /\ bus'.good = good BY <1>a DEF BusRec
  <2>2. bus'.phase \in bus'.good \/ bus'.good = {} \/ MissedRun'
    BY <2>1, ProperPhaseWorks DEF MissedRun
  <2> QED BY <2>2 DEF PhaseOK
<1>10. pc' \in Steps /\ pc' # "op_cond_try" BY <1>0, <1>a
<1> QED
  BY <1>1, <1>2, <1>3, <1>4, <1>5, <1>6, <1>7, <1>8, <1>9, <1>10, KeepsIInv

LEMMA TimingTuningOK == ASSUME CardIInv, TimingTuning PROVE CardIInv'
<1> USE InitAssumption
<1>1. /\ pc = "tuning" /\ UNCHANGED <<host, dev, nretries, err_cnt, hcs>>
      /\ \/ pc' = "done" /\ result' = "error" /\ UNCHANGED <<card, bus>>
         \/ pc' = "check" /\ result' = result /\ UNCHANGED <<card, bus>> /\ ~is_uhs1
         \/ /\ pc' = "check" /\ result' = result /\ UNCHANGED card
            /\ \E good \in SUBSET Phases :
                  bus' = [bus EXCEPT !.phase = ProperPhase(good), !.good = good]
  BY DEF TimingTuning, Step, Sends, Passes, Fails, Goto, Finish, loopVars
<1>2. CardTypeOK /\ ClockNotLeftOn /\ Progress /\ result = "none"
  BY <1>1 DEF CardIInv, CardTypeOK
<1>3. CASE pc' = "done" /\ result' = "error" /\ UNCHANGED <<card, bus>>
  BY <1>1, <1>2, <1>3, FailOK DEF ClockNotLeftOn, CardTypeOK
<1>4. CASE pc' = "check" /\ result' = result /\ UNCHANGED <<card, bus>> /\ ~is_uhs1
  BY <1>1, <1>2, <1>4, PassOK
<1>5. CASE /\ pc' = "check" /\ result' = result /\ UNCHANGED card
           /\ \E good \in SUBSET Phases :
                 bus' = [bus EXCEPT !.phase = ProperPhase(good), !.good = good]
  <2>1. PICK good \in SUBSET Phases :
           bus' = [bus EXCEPT !.phase = ProperPhase(good), !.good = good]
    BY <1>5
  <2> QED BY <1>1, <1>2, <1>5, <2>1, Tuned
<1> QED BY <1>1, <1>3, <1>4, <1>5

\* The host's flags come down to the lines that are wired.
LEMMA FixHostFlagsOK == ASSUME CardIInv, FixHostFlags PROVE CardIInv'
<1> USE InitAssumption
<1>1. /\ pc = "fix_host_flags" /\ UNCHANGED <<dev, card, bus, nretries, err_cnt, hcs>>
      /\ \/ pc' = "done" /\ result' = "error"
            /\ host' \in {host, [host EXCEPT !.flags = FixedFlags]}
         \/ pc' = "io_reset" /\ result' = result /\ UNCHANGED host /\ is_spi
         \/ /\ pc' = "io_reset" /\ result' = result /\ ~is_spi
            /\ host' = [host EXCEPT !.flags = FixedFlags]
  BY DEF FixHostFlags, Goto, Finish, loopVars
<1>2. CardTypeOK /\ ClockNotLeftOn /\ Progress /\ result = "none"
  BY <1>1 DEF CardIInv, CardTypeOK
<1>3. /\ card \in CardRec /\ bus \in BusRec /\ dev \in DeviceType /\ host \in HostType
      /\ host.freq \in {h.freq : h \in Hosts}
  BY <1>2, Types DEF Progress, HostOK
<1>4. /\ FixedFlags \in SUBSET {1, 4, 8}
      /\ host.slot = 1 => 4 \notin FixedFlags /\ 8 \notin FixedFlags
      /\ host.slot = 4 => 8 \notin FixedFlags
  <2>1. host.flags \in SUBSET {1, 4, 8} /\ host.slot \in {1, 4, 8} BY <1>3 DEF HostType
  <2>2. CASE host.slot = 1 /\ host.flags \cap {4, 8} # {}
    BY <2>1, <2>2 DEF FixedFlags
  <2>3. CASE host.slot = 4 /\ 8 \in host.flags BY <2>1, <2>3 DEF FixedFlags
  <2>4. CASE /\ ~(host.slot = 1 /\ host.flags \cap {4, 8} # {})
             /\ ~(host.slot = 4 /\ 8 \in host.flags)
    <3>1. FixedFlags = host.flags BY <2>4 DEF FixedFlags
    <3> QED BY <2>1, <2>4, <3>1
  <2> QED BY <2>2, <2>3, <2>4
<1>5. /\ host' \in HostType /\ host'.freq = host.freq /\ host'.spi = host.spi
      /\ host'.slot = host.slot /\ host'.ddr = host.ddr
      /\ host'.flags \in {host.flags, FixedFlags}
  <2>1. CASE host' = host BY <1>3, <2>1
  <2>2. CASE host' = [host EXCEPT !.flags = FixedFlags]
    BY <1>3, <1>4, <2>2 DEF HostType
  <2> QED BY <1>1, <2>1, <2>2
<1>6. CASE pc' = "done" /\ result' = "error"
            /\ host' \in {host, [host EXCEPT !.flags = FixedFlags]}
  BY <1>1, <1>2, <1>5, <1>6, FailOK DEF ClockNotLeftOn, CardTypeOK
<1>7. CASE \/ pc' = "io_reset" /\ result' = result /\ UNCHANGED host /\ is_spi
           \/ /\ pc' = "io_reset" /\ result' = result /\ ~is_spi
              /\ host' = [host EXCEPT !.flags = FixedFlags]
  <2>a. ~is_spi => host'.flags = FixedFlags BY <1>3, <1>7 DEF HostType
  <2>1. CardTypeOK' BY <1>1, <1>2, <1>5, <1>7 DEF CardTypeOK
  <2>2. ClockNotLeftOn' BY <1>1, <1>2, <1>5, <1>7 DEF ClockNotLeftOn
  <2>3. HostOK'
    <3>1. HostOK BY <1>2 DEF Progress
    <3> QED BY <1>1, <1>3, <1>4, <1>5, <1>7, <2>a, <3>1 DEF HostOK, HostType
  <2>4. StateOK' BY <1>1, <1>2, <1>5, <1>7 DEF Progress, StateOK
  <2>5. WidthOK' BY <1>1, <1>2, <1>5, <1>7 DEF Progress, WidthOK, Lines
  <2>6. EdgesOK' BY <1>1, <1>2, <1>5, <1>7 DEF Progress, EdgesOK
  <2>7. SpeedOK' BY <1>1, <1>2, <1>5, <1>7 DEF Progress, SpeedOK
  <2>8. CapacityOK' BY <1>1, <1>2, <1>5, <1>7 DEF Progress, CapacityOK, Limited
  <2>9. PhaseOK' BY <1>1, <1>2, <1>5, <1>7 DEF Progress, PhaseOK
  <2>10. pc' \in Steps /\ pc' # "op_cond_try" BY <1>1, <1>2, <1>5, <1>7
  <2> QED
    BY <2>1, <2>2, <2>3, <2>4, <2>5, <2>6, <2>7, <2>8, <2>9, <2>10, KeepsIInv
<1> QED BY <1>1, <1>6, <1>7

\* The clock is kept on while the operating conditions are asked for.
LEMMA OpCondOK == ASSUME CardIInv, OpCond PROVE CardIInv'
<1> USE InitAssumption
<1>1. /\ pc = "op_cond" /\ UNCHANGED <<host, dev, card>>
      /\ \/ /\ ~is_mem /\ pc' = "uhs1" /\ result' = result
            /\ UNCHANGED <<bus, nretries, err_cnt, hcs>>
         \/ /\ is_mem /\ pc' = "op_cond_try" /\ result' = result
            /\ nretries' = MaxRetries /\ err_cnt' = MaxErrors /\ hcs' = card.hc
            /\ bus' = [bus EXCEPT !.always_on = host.cclk]
         \/ /\ is_mem /\ pc' = "done" /\ result' = "error" /\ UNCHANGED bus
            /\ nretries' = MaxRetries /\ err_cnt' = MaxErrors /\ hcs' = card.hc
  BY DEF OpCond, Goto, Finish, loopVars
<1>2. CardTypeOK /\ ClockNotLeftOn /\ Progress /\ result = "none"
  BY <1>1 DEF CardIInv, CardTypeOK
<1>3. /\ card \in CardRec /\ bus \in BusRec /\ dev \in DeviceType /\ host \in HostType
      /\ card.hc \in BOOLEAN /\ host.cclk \in BOOLEAN
  BY <1>2, Types DEF CardRec, HostType
<1>4. CASE /\ ~is_mem /\ pc' = "uhs1" /\ result' = result
           /\ UNCHANGED <<bus, nretries, err_cnt, hcs>>
  BY <1>1, <1>2, <1>4, PassOK
<1>5. CASE /\ is_mem /\ pc' = "done" /\ result' = "error" /\ UNCHANGED bus
           /\ nretries' = MaxRetries /\ err_cnt' = MaxErrors /\ hcs' = card.hc
  <2>1. bus'.always_on => bus'.off_refused BY <1>1, <1>2, <1>5 DEF ClockNotLeftOn
  <2>2. host' \in HostType /\ host'.freq = host.freq BY <1>1, <1>3
  <2> QED BY <1>1, <1>2, <1>3, <1>5, <2>1, <2>2, FailOK
<1>6. CASE /\ is_mem /\ pc' = "op_cond_try" /\ result' = result
           /\ nretries' = MaxRetries /\ err_cnt' = MaxErrors /\ hcs' = card.hc
           /\ bus' = [bus EXCEPT !.always_on = host.cclk]
  <2>1. CardTypeOK'
    <3>1. bus' \in BusRec BY <1>3, <1>6 DEF BusRec
    <3> QED BY <1>1, <1>2, <1>3, <1>6, <3>1 DEF CardTypeOK, BusRec
  <2>2. ClockNotLeftOn' BY <1>1, <1>2, <1>3, <1>6 DEF ClockNotLeftOn
  <2>3. HostOK' BY <1>1, <1>2, <1>3, <1>6 DEF Progress, HostOK
  <2>4. StateOK' BY <1>1, <1>2, <1>3, <1>6 DEF Progress, StateOK
  <2>5. WidthOK' BY <1>1, <1>2, <1>3, <1>6 DEF Progress, WidthOK, Lines
  <2>6. EdgesOK' BY <1>1, <1>2, <1>3, <1>6 DEF Progress, EdgesOK
  <2>7. SpeedOK' BY <1>1, <1>2, <1>3, <1>6 DEF Progress, SpeedOK
  <2>8. CapacityOK' BY <1>1, <1>2, <1>3, <1>6 DEF Progress, CapacityOK, Limited
  <2>9. PhaseOK' BY <1>1, <1>2, <1>3, <1>6 DEF Progress, PhaseOK
  <2>10. pc' \in Steps /\ err_cnt' > 0 BY <1>1, <1>2, <1>3, <1>6
  <2> QED
    BY <2>1, <2>2, <2>3, <2>4, <2>5, <2>6, <2>7, <2>8, <2>9, <2>10, KeepsIInv
<1> QED BY <1>1, <1>4, <1>5, <1>6

\* ACMD41 or CMD1: an error, a card that is busy, or one that is ready.
LEMMA OpCondTryOK == ASSUME CardIInv, OpCondTry PROVE CardIInv'
<1> USE InitAssumption
<1>1. /\ pc = "op_cond_try" /\ UNCHANGED <<host, dev, card, hcs, result>>
      /\ \/ /\ pc' \in {"op_cond_timeout", "op_cond_error"}
            /\ UNCHANGED <<bus, nretries, err_cnt>>
         \/ /\ pc' = pc /\ UNCHANGED bus /\ nretries # 0 /\ nretries' = nretries - 1
            /\ err_cnt' = err_cnt \/ (err_cnt # 1 /\ err_cnt' = err_cnt - 1)
         \/ /\ pc' = "op_cond_ready" /\ UNCHANGED <<nretries, err_cnt>>
            /\ bus' = [bus EXCEPT !.state = "ready"]
  <2>1. /\ pc = "op_cond_try" /\ UNCHANGED <<host, dev, card, hcs>>
        /\ \/ Exhausted /\ Goto("op_cond_timeout") /\ UNCHANGED <<bus, nretries, err_cnt>>
           \/ ~Exhausted /\ OpCondError /\ UNCHANGED bus
           \/ ~Exhausted /\ OpCondBusy /\ UNCHANGED bus
           \/ /\ Goto("op_cond_ready") /\ UNCHANGED <<nretries, err_cnt>>
              /\ bus' = [bus EXCEPT !.state = "ready"]
    BY DEF OpCondTry
  <2>2. CASE Exhausted /\ Goto("op_cond_timeout") /\ UNCHANGED <<bus, nretries, err_cnt>>
    BY <2>1, <2>2 DEF Goto
  <2>3. CASE ~Exhausted /\ OpCondError /\ UNCHANGED bus
    BY <2>1, <2>3 DEF OpCondError, Exhausted, Goto
  <2>4. CASE ~Exhausted /\ OpCondBusy /\ UNCHANGED bus
    BY <2>1, <2>4 DEF OpCondBusy, Exhausted
  <2>5. CASE /\ Goto("op_cond_ready") /\ UNCHANGED <<nretries, err_cnt>>
             /\ bus' = [bus EXCEPT !.state = "ready"]
    BY <2>1, <2>5 DEF Goto
  <2> QED BY <2>1, <2>2, <2>3, <2>4, <2>5
<1>2. CardTypeOK /\ ClockNotLeftOn /\ Progress /\ result = "none"
  BY <1>1 DEF CardIInv, CardTypeOK
<1>3. card \in CardRec /\ bus \in BusRec /\ dev \in DeviceType /\ host \in HostType
  BY <1>2, Types
<1>4. /\ bus' \in BusRec /\ bus'.always_on = bus.always_on
      /\ \A f \in {"card", "host", "card_ddr", "ddr", "v18", "phase", "good"} :
            bus'[f] = bus[f]
      /\ bus'.state = IF pc' = "op_cond_ready" THEN "ready" ELSE bus.state
  <2>1. CASE bus' = bus /\ pc' # "op_cond_ready" BY <1>3, <2>1
  <2>2. CASE bus' = [bus EXCEPT !.state = "ready"] /\ pc' = "op_cond_ready"
    BY <1>3, <2>2 DEF BusRec
  <2> QED BY <1>1, <2>1, <2>2
<1>5. /\ pc' \in {"op_cond_try", "op_cond_timeout", "op_cond_error", "op_cond_ready"}
      /\ nretries' \in 0..MaxRetries /\ err_cnt' \in 0..MaxErrors /\ err_cnt' > 0
  <2>1. nretries \in 0..MaxRetries /\ err_cnt \in 0..MaxErrors /\ err_cnt > 0
    BY <1>1, <1>2 DEF CardTypeOK, Progress
  <2> QED BY <1>1, <2>1
<1>6. CardIInv'
  <2>1. CardTypeOK'
    <3> QED BY <1>1, <1>2, <1>3, <1>4, <1>5 DEF CardTypeOK, BusRec
  <2>2. ClockNotLeftOn' BY <1>1, <1>2, <1>4, <1>5 DEF ClockNotLeftOn
  <2>3. HostOK' BY <1>1, <1>2, <1>4, <1>5 DEF Progress, HostOK
  <2>4. StateOK' BY <1>1, <1>2, <1>4, <1>5 DEF Progress, StateOK
  <2>5. WidthOK' BY <1>1, <1>2, <1>4, <1>5 DEF Progress, WidthOK, Lines
  <2>6. EdgesOK' BY <1>1, <1>2, <1>4, <1>5 DEF Progress, EdgesOK
  <2>7. SpeedOK' BY <1>1, <1>2, <1>4, <1>5 DEF Progress, SpeedOK
  <2>8. CapacityOK' BY <1>1, <1>2, <1>4, <1>5 DEF Progress, CapacityOK, Limited
  <2>9. PhaseOK' BY <1>1, <1>2, <1>4, <1>5 DEF Progress, PhaseOK
  <2>10. pc' \in Steps /\ err_cnt' > 0 BY <1>1, <1>2, <1>4, <1>5
  <2> QED
    BY <2>1, <2>2, <2>3, <2>4, <2>5, <2>6, <2>7, <2>8, <2>9, <2>10, KeepsIInv
<1> QED BY <1>6

\* The card is ready: it has said whether it has a high capacity and takes 1.8 V.
LEMMA OpCondReadyOK == ASSUME CardIInv, OpCondReady PROVE CardIInv'
<1> USE InitAssumption
<1> DEFINE s == host.uhs /\ dev.s18 /\ ~is_mmc
<1>1. /\ pc = "op_cond_ready" /\ UNCHANGED <<host, dev, nretries, err_cnt, hcs, result>>
      /\ ClockOff
      /\ card' = [card EXCEPT !.hc = dev.hc, !.s18 = s]
      /\ (pc' = "read_ocr" /\ is_spi) \/ (pc' = "uhs1" /\ ~is_spi)
  BY DEF OpCondReady, Goto, loopVars
<1>2. CardTypeOK /\ ClockNotLeftOn /\ Progress /\ result = "none" /\ s \in BOOLEAN
  BY <1>1 DEF CardIInv, CardTypeOK
<1>b. /\ bus' \in BusRec /\ (bus'.always_on => bus'.off_refused)
      /\ bus'.state = bus.state /\ bus'.card = bus.card /\ bus'.host = bus.host
      /\ bus'.card_ddr = bus.card_ddr /\ bus'.ddr = bus.ddr /\ bus'.v18 = bus.v18
      /\ bus'.phase = bus.phase /\ bus'.good = bus.good
  BY <1>1, <1>2, Types, ClockOffOK
<1> HIDE DEF s
<1>3. CardIInv'
  <2>1. CardTypeOK'
    <3>1. card \in CardRec /\ bus \in BusRec /\ dev \in DeviceType /\ host \in HostType
      BY <1>2, Types
    <3>2. dev.hc \in BOOLEAN BY <3>1 DEF DeviceType
    <3>8. card' \in CardRec BY <1>1, <1>2, <3>1, <3>2 DEF CardRec
    <3>9. bus' \in BusRec BY <1>b
    <3> QED BY <1>1, <1>2, <3>8, <3>9, TypesKept
  <2>2. ClockNotLeftOn' BY <1>b DEF ClockNotLeftOn
  <2>3. HostOK' BY <1>1, <1>2, <1>b DEF Progress, HostOK
  <2>4. StateOK' BY <1>1, <1>2, <1>b DEF Progress, StateOK
  <2>5. WidthOK' BY <1>1, <1>2, <1>b DEF Progress, WidthOK, Lines
  <2>6. EdgesOK' BY <1>1, <1>2, <1>b DEF Progress, EdgesOK
  <2>7. SpeedOK'
    <3>1. card.freq = 0 /\ ~bus.v18 BY <1>1, <1>2 DEF Progress, SpeedOK
    <3>2. card \in CardRec /\ bus \in BusRec /\ host.freq \in Nat
      BY <1>2, Types DEF HostType
    <3>3. card'.freq = 0 /\ ~bus'.v18 BY <1>1, <1>b, <3>1, <3>2 DEF CardRec, BusRec
    <3>4. pc' \in Unset /\ pc' \notin Switches BY <1>1
    <3> QED BY <1>1, <3>2, <3>3, <3>4 DEF SpeedOK, F52M
  <2>8. CapacityOK' BY <1>1, <1>2, <1>b DEF Progress, CapacityOK, Limited
  <2>9. PhaseOK' BY <1>1, <1>2, <1>b DEF Progress, PhaseOK
  <2>10. pc' \in Steps /\ pc' # "op_cond_try" BY <1>1, <1>2
  <2> QED
    BY <2>1, <2>2, <2>3, <2>4, <2>5, <2>6, <2>7, <2>8, <2>9, <2>10, KeepsIInv
<1> QED BY <1>3

\* After too many answers of a busy card, MMC is tried or nothing.
LEMMA OpCondTimeoutOK == ASSUME CardIInv, OpCondTimeout PROVE CardIInv'
<1> USE InitAssumption
<1>1. /\ pc = "op_cond_timeout" /\ UNCHANGED <<host, dev, nretries, err_cnt, hcs>>
      /\ ClockOff
      /\ \/ pc' = "done" /\ result' = "error" /\ UNCHANGED card
         \/ /\ pc' = "op_cond" /\ result' = result
            /\ card' = [card EXCEPT !.is_mmc = TRUE]
  BY DEF OpCondTimeout, Goto, Finish, loopVars
<1>2. CardTypeOK /\ ClockNotLeftOn /\ Progress /\ result = "none"
  BY <1>1 DEF CardIInv, CardTypeOK
<1>b. /\ bus' \in BusRec /\ (bus'.always_on => bus'.off_refused)
      /\ bus'.state = bus.state /\ bus'.card = bus.card /\ bus'.host = bus.host
      /\ bus'.card_ddr = bus.card_ddr /\ bus'.ddr = bus.ddr /\ bus'.v18 = bus.v18
      /\ bus'.phase = bus.phase /\ bus'.good = bus.good
  BY <1>1, <1>2, Types, ClockOffOK
<1>3. CASE pc' = "done" /\ result' = "error" /\ UNCHANGED card
  <2>1. bus'.always_on => bus'.off_refused BY <1>1, <1>2, Types, ClockOffOK
  <2> QED BY <1>1, <1>2, <1>3, <2>1, FailOK DEF CardTypeOK
<1>4. CASE /\ pc' = "op_cond" /\ result' = result
           /\ card' = [card EXCEPT !.is_mmc = TRUE]
  <2>1. CardTypeOK'
    <3>1. card \in CardRec /\ bus \in BusRec /\ dev \in DeviceType /\ host \in HostType
      BY <1>2, Types
    <3>8. card' \in CardRec BY <1>1, <1>2, <1>4, <3>1 DEF CardRec
    <3>9. bus' \in BusRec BY <1>b
    <3> QED BY <1>1, <1>2, <1>4, <3>8, <3>9, TypesKept
  <2>2. ClockNotLeftOn' BY <1>b DEF ClockNotLeftOn
  <2>3. HostOK' BY <1>1, <1>2, <1>b, <1>4 DEF Progress, HostOK
  <2>4. StateOK' BY <1>1, <1>2, <1>b, <1>4 DEF Progress, StateOK
  <2>5. WidthOK' BY <1>1, <1>2, <1>b, <1>4 DEF Progress, WidthOK, Lines
  <2>6. EdgesOK' BY <1>1, <1>2, <1>b, <1>4 DEF Progress, EdgesOK
  <2>7. SpeedOK'
    <3>1. card.freq = 0 /\ ~bus.v18 BY <1>1, <1>2 DEF Progress, SpeedOK
    <3>2. card \in CardRec /\ bus \in BusRec /\ host.freq \in Nat
      BY <1>2, Types DEF HostType
    <3>3. card'.freq = 0 /\ ~bus'.v18 BY <1>1, <1>b, <1>4, <3>1, <3>2 DEF CardRec, BusRec
    <3>4. pc' \in Unset /\ pc' \notin Switches BY <1>4
    <3> QED BY <1>1, <1>4, <3>2, <3>3, <3>4 DEF SpeedOK, F52M
  <2>8. CapacityOK' BY <1>1, <1>2, <1>b, <1>4 DEF Progress, CapacityOK, Limited
  <2>9. PhaseOK' BY <1>1, <1>2, <1>b, <1>4 DEF Progress, PhaseOK
  <2>10. pc' \in Steps /\ pc' # "op_cond_try" BY <1>1, <1>2, <1>4
  <2> QED
    BY <2>1, <2>2, <2>3, <2>4, <2>5, <2>6, <2>7, <2>8, <2>9, <2>10, KeepsIInv
<1> QED BY <1>1, <1>3, <1>4

\* After too many errors, likewise.
LEMMA OpCondFailedOK == ASSUME CardIInv, OpCondFailed PROVE CardIInv'
<1> USE InitAssumption
<1>1. /\ pc = "op_cond_error" /\ UNCHANGED <<host, dev, nretries, err_cnt, hcs>>
      /\ ClockOff
      /\ \/ pc' = "done" /\ result' = "error" /\ UNCHANGED card
         \/ /\ pc' = "op_cond" /\ result' = result
            /\ card' = [card EXCEPT !.is_mmc = TRUE]
  BY DEF OpCondFailed, Goto, Finish, loopVars
<1>2. CardTypeOK /\ ClockNotLeftOn /\ Progress /\ result = "none"
  BY <1>1 DEF CardIInv, CardTypeOK
<1>b. /\ bus' \in BusRec /\ (bus'.always_on => bus'.off_refused)
      /\ bus'.state = bus.state /\ bus'.card = bus.card /\ bus'.host = bus.host
      /\ bus'.card_ddr = bus.card_ddr /\ bus'.ddr = bus.ddr /\ bus'.v18 = bus.v18
      /\ bus'.phase = bus.phase /\ bus'.good = bus.good
  BY <1>1, <1>2, Types, ClockOffOK
<1>3. CASE pc' = "done" /\ result' = "error" /\ UNCHANGED card
  <2>1. bus'.always_on => bus'.off_refused BY <1>1, <1>2, Types, ClockOffOK
  <2> QED BY <1>1, <1>2, <1>3, <2>1, FailOK DEF CardTypeOK
<1>4. CASE /\ pc' = "op_cond" /\ result' = result
           /\ card' = [card EXCEPT !.is_mmc = TRUE]
  <2>1. CardTypeOK'
    <3>1. card \in CardRec /\ bus \in BusRec /\ dev \in DeviceType /\ host \in HostType
      BY <1>2, Types
    <3>8. card' \in CardRec BY <1>1, <1>2, <1>4, <3>1 DEF CardRec
    <3>9. bus' \in BusRec BY <1>b
    <3> QED BY <1>1, <1>2, <1>4, <3>8, <3>9, TypesKept
  <2>2. ClockNotLeftOn' BY <1>b DEF ClockNotLeftOn
  <2>3. HostOK' BY <1>1, <1>2, <1>b, <1>4 DEF Progress, HostOK
  <2>4. StateOK' BY <1>1, <1>2, <1>b, <1>4 DEF Progress, StateOK
  <2>5. WidthOK' BY <1>1, <1>2, <1>b, <1>4 DEF Progress, WidthOK, Lines
  <2>6. EdgesOK' BY <1>1, <1>2, <1>b, <1>4 DEF Progress, EdgesOK
  <2>7. SpeedOK'
    <3>1. card.freq = 0 /\ ~bus.v18 BY <1>1, <1>2 DEF Progress, SpeedOK
    <3>2. card \in CardRec /\ bus \in BusRec /\ host.freq \in Nat
      BY <1>2, Types DEF HostType
    <3>3. card'.freq = 0 /\ ~bus'.v18 BY <1>1, <1>b, <1>4, <3>1, <3>2 DEF CardRec, BusRec
    <3>4. pc' \in Unset /\ pc' \notin Switches BY <1>4
    <3> QED BY <1>1, <1>4, <3>2, <3>3, <3>4 DEF SpeedOK, F52M
  <2>8. CapacityOK' BY <1>1, <1>2, <1>b, <1>4 DEF Progress, CapacityOK, Limited
  <2>9. PhaseOK' BY <1>1, <1>2, <1>b, <1>4 DEF Progress, PhaseOK
  <2>10. pc' \in Steps /\ pc' # "op_cond_try" BY <1>1, <1>2, <1>4
  <2> QED
    BY <2>1, <2>2, <2>3, <2>4, <2>5, <2>6, <2>7, <2>8, <2>9, <2>10, KeepsIInv
<1> QED BY <1>1, <1>3, <1>4

\* The steps that learn nothing and change nothing.
LEMMA PlainOK ==
    ASSUME CardIInv, UNCHANGED <<host, dev, card, bus, nretries, err_cnt, hcs>>,
           \/ pc' = "done" /\ result' = "error"
           \/ /\ result' = result
              /\ \/ pc = "set_voltage" /\ pc' = "fix_host_flags"
                 \/ pc = "io_reset" /\ pc' = "go_idle"
                 \/ pc = "spi_crc" /\ pc' = "op_cond"
                 \/ pc = "read_ocr" /\ pc' = "uhs1"
                 \/ pc = "blocklen" /\ pc' = "scr"
                 \/ pc = "data_ready" /\ pc' = "ext_csd"
                 \/ pc = "card_cap" /\ pc' = "hs_mode"
                 \/ pc = "strength" /\ pc' = "limit"
                 \/ pc = "limit" /\ pc' = "ssr"
                 \/ pc = "ssr" /\ pc' = "host_freq",
           pc \in {"set_voltage", "io_reset", "spi_crc", "read_ocr", "blocklen",
                   "data_ready", "card_cap", "strength", "limit", "ssr"}
    PROVE  CardIInv'
<1>1. CardTypeOK /\ ClockNotLeftOn /\ result = "none" BY DEF CardIInv, CardTypeOK
<1>2. CASE pc' = "done" /\ result' = "error"
  BY <1>1, <1>2, FailOK DEF ClockNotLeftOn, CardTypeOK
<1>3. CASE pc' # "done"
  <2>1. result' = "none" BY <1>1, <1>3
  <2> QED BY <1>1, <1>3, <2>1, PassOK
<1> QED BY <1>2, <1>3

-----------------------------------------------------------------------------
(* Every step keeps the invariant, and it implies what is claimed of the card *)

LEMMA StepIInv == ASSUME CardIInv, [CardNext]_initVars PROVE CardIInv'
<1>1. CASE SetVoltage
  BY <1>1, PlainOK DEF SetVoltage, Step, Sends, Passes, Fails, Goto, Finish, loopVars
<1>2. CASE IoReset
  BY <1>2, PlainOK DEF IoReset, Step, Sends, Passes, Fails, Goto, Finish, loopVars
<1>3. CASE SpiCrc
  BY <1>3, PlainOK DEF SpiCrc, Step, Sends, Passes, Fails, Goto, Finish, loopVars
<1>4. CASE ReadOcr
  BY <1>4, PlainOK DEF ReadOcr, Step, Sends, Passes, Fails, Goto, Finish, loopVars
<1>5. CASE SdBlocklen
  BY <1>5, PlainOK DEF SdBlocklen, Step, Sends, Passes, Fails, Goto, Finish, loopVars
<1>6. CASE SdWaitDataReady
  BY <1>6, PlainOK DEF SdWaitDataReady, Step, Sends, Passes, Fails, Goto, Finish, loopVars
<1>7. CASE IoReadCardCap
  BY <1>7, PlainOK DEF IoReadCardCap, Step, Sends, Passes, Fails, Goto, Finish, loopVars
<1>8. CASE SdDriverStrength
  BY <1>8, PlainOK DEF SdDriverStrength, Step, Sends, Passes, Fails, Goto, Finish,
     loopVars
<1>9. CASE SdCurrentLimit
  BY <1>9, PlainOK DEF SdCurrentLimit, Step, Sends, Passes, Fails, Goto, Finish, loopVars
<1>10. CASE SdSsr
  BY <1>10, PlainOK DEF SdSsr, Step, Sends, Passes, Fails, Goto, Finish, loopVars
<1>11. CASE FixHostFlags BY <1>11, FixHostFlagsOK
<1>12. CASE GoIdle BY <1>12, GoIdleOK
<1>13. CASE IfCond BY <1>13, IfCondOK
<1>14. CASE InitIo BY <1>14, InitIoOK
<1>15. CASE OpCond BY <1>15, OpCondOK
<1>16. CASE OpCondTry BY <1>16, OpCondTryOK
<1>17. CASE OpCondReady BY <1>17, OpCondReadyOK
<1>18. CASE OpCondTimeout BY <1>18, OpCondTimeoutOK
<1>19. CASE OpCondFailed BY <1>19, OpCondFailedOK
<1>20. CASE InitUhs1 BY <1>20, InitUhs1OK
<1>21. CASE InitCid BY <1>21, InitCidOK
<1>22. CASE InitRca BY <1>22, InitRcaOK
<1>23. CASE InitCsd BY <1>23, InitCsdOK
<1>24. CASE SelectCard BY <1>24, SelectCardOK
<1>25. CASE SdScr BY <1>25, SdScrOK
<1>26. CASE MmcReadExtCsd BY <1>26, MmcReadExtCsdOK
<1>27. CASE CardHsMode BY <1>27, CardHsModeOK
<1>28. CASE HsDeselect BY <1>28, HsDeselectOK
<1>29. CASE HsCsd BY <1>29, HsCsdOK
<1>30. CASE HsSelect BY <1>30, HsSelectOK
<1>31. CASE CardBusWidth BY <1>31, CardBusWidthOK
<1>32. CASE HostBusWidth BY <1>32, HostBusWidthOK
<1>33. CASE HostFrequency BY <1>33, HostFrequencyOK
<1>34. CASE TimingTuning BY <1>34, TimingTuningOK
<1>35. CASE Check BY <1>35, CheckOK
<1>36. CASE UNCHANGED initVars
  <2>1. UNCHANGED <<host, dev, card, pc, result, nretries, err_cnt, hcs, bus>>
    BY <1>36 DEF initVars, loopVars
  <2>2. CardTypeOK' <=> CardTypeOK BY <2>1 DEF CardTypeOK
  <2>3. ClockNotLeftOn' <=> ClockNotLeftOn BY <2>1 DEF ClockNotLeftOn
  <2>4. HostOK' <=> HostOK BY <2>1 DEF HostOK
  <2>5. StateOK' <=> StateOK BY <2>1 DEF StateOK
  <2>6. WidthOK' <=> WidthOK BY <2>1 DEF WidthOK
  <2>7. EdgesOK' <=> EdgesOK BY <2>1 DEF EdgesOK
  <2>8. SpeedOK' <=> SpeedOK BY <2>1 DEF SpeedOK
  <2>9. CapacityOK' <=> CapacityOK BY <2>1 DEF CapacityOK, Limited
  <2>10. PhaseOK' <=> PhaseOK BY <2>1 DEF PhaseOK, MissedRun
  <2> QED
    BY <2>1, <2>2, <2>3, <2>4, <2>5, <2>6, <2>7, <2>8, <2>9, <2>10
       DEF CardIInv, Progress
<1> QED
  BY <1>1, <1>2, <1>3, <1>4, <1>5, <1>6, <1>7, <1>8, <1>9, <1>10, <1>11, <1>12,
     <1>13, <1>14, <1>15, <1>16, <1>17, <1>18, <1>19, <1>20, <1>21, <1>22,
     <1>23, <1>24, <1>25, <1>26, <1>27, <1>28, <1>29, <1>30, <1>31, <1>32,
     <1>33, <1>34, <1>35, <1>36 DEF CardNext

\* A card that failed has nothing more to say.
LEMMA IInvImplies ==
    ASSUME CardIInv
    PROVE  CardInv /\ BusAgrees /\ CapacityRight /\ TunedPhaseWorks
<1> USE InitAssumption
<1>1. CardTypeOK /\ ClockNotLeftOn BY DEF CardIInv
<1>2. /\ card \in CardRec /\ bus \in BusRec /\ host.freq \in Nat /\ host \in HostType
  BY <1>1, Types DEF HostType
<1>3. CardInv
  <2>1. CASE result = "error"
    <3>1. pc = "done" BY <1>1, <2>1 DEF CardTypeOK
    <3> QED BY <1>1, <1>2, <3>1 DEF CardInv, CommandsInState, NeededState, BusRec
  <2>2. CASE Progress
    <3>1. StateOK BY <2>2 DEF Progress
    <3>2. bus.state \in {"idle", "ready", "ident", "stby", "tran"} BY <1>2 DEF BusRec
    <3>3. ASSUME ~is_spi, is_mem PROVE bus.state \in NeededState
      <4>1. CASE pc \in {"uhs1", "cid"} BY <3>1, <3>3, <4>1 DEF StateOK, NeededState
      <4>2. CASE pc = "rca" BY <3>1, <3>3, <4>2 DEF StateOK, NeededState
      <4>3. CASE pc \in {"csd", "select", "hs_csd", "hs_select"}
        BY <3>1, <3>3, <4>3 DEF StateOK, NeededState
      <4>4. CASE pc \in {"blocklen", "scr", "ext_csd", "hs_mode", "hs_deselect",
                 "bus_width", "strength", "limit", "ssr", "tuning", "check"}
        BY <3>1, <3>3, <4>4 DEF StateOK, NeededState
      <4>5. CASE pc \notin {"uhs1", "cid", "rca", "csd", "select", "hs_csd",
                 "hs_select", "blocklen", "scr", "ext_csd", "hs_mode", "hs_deselect",
                 "bus_width", "strength", "limit", "ssr", "tuning", "check"}
        BY <3>2, <4>5 DEF NeededState
      <4> QED BY <4>1, <4>2, <4>3, <4>4, <4>5
    <3> QED BY <1>1, <3>3 DEF CardInv, CommandsInState
  <2> QED BY <2>1, <2>2 DEF CardIInv
<1>4. ASSUME result = "ok" PROVE Progress /\ pc = "done"
  BY <1>1, <1>4 DEF CardIInv, CardTypeOK
<1>5. BusAgrees
  <2>1. SUFFICES ASSUME result = "ok"
                 PROVE  /\ ~is_spi => /\ bus.card = bus.host /\ bus.host <= host.slot
                                      /\ bus.card_ddr = bus.ddr \/ OneLineDdr
                        /\ card.is_mem \/ card.is_sdio => card.freq <= host.freq
                        /\ is_sdmem /\ card.freq > F52M => bus.v18
    BY DEF BusAgrees
  <2>2. Progress /\ pc = "done" BY <1>4, <2>1
  <2>3. ~is_spi => bus.card = bus.host /\ bus.host <= host.slot
    BY <2>2 DEF Progress, WidthOK
  <2>4. ~is_spi => bus.card_ddr = bus.ddr \/ OneLineDdr BY <2>2 DEF Progress, EdgesOK
  <2> QED BY <2>2, <2>3, <2>4 DEF Progress, SpeedOK
<1>6. CapacityRight
  BY <1>4 DEF CapacityRight, Progress, CapacityOK, Limited
<1>7. TunedPhaseWorks BY <1>4 DEF TunedPhaseWorks, Progress, PhaseOK
<1> QED BY <1>3, <1>5, <1>6, <1>7

-----------------------------------------------------------------------------
(* The steps that are left *)

\* How many steps may follow one, up to the end, outside the loop of ACMD41 and CMD1.
After ==
    [set_voltage |-> 8, fix_host_flags |-> 7, io_reset |-> 6, go_idle |-> 5, if_cond |-> 4,
     init_io |-> 3, spi_crc |-> 2,
     op_cond_ready |-> 25, read_ocr |-> 24, uhs1 |-> 23, cid |-> 22, rca |-> 21, csd |-> 20,
     select |-> 19, blocklen |-> 18, scr |-> 17, data_ready |-> 16, ext_csd |-> 15,
     card_cap |-> 14, hs_mode |-> 13, hs_deselect |-> 12, hs_csd |-> 11, hs_select |-> 10,
     bus_width |-> 9, host_width |-> 8, strength |-> 7, limit |-> 6, ssr |-> 5,
     host_freq |-> 4, tuning |-> 3, check |-> 2, done |-> 0]

\* The loop that waits for a card to be ready is run for an SD card and once more for
\* an MMC, nretries times at most.
Loop == MaxRetries + 3

StepsLeft ==
    LET again == IF card.is_mmc THEN 0 ELSE Loop
    IN  CASE pc \in Resets \cup {"spi_crc"} -> 26 + 2 * Loop + After[pc]
          [] pc = "op_cond" -> 26 + again + Loop - 1
          [] pc = "op_cond_try" -> 26 + again + nretries + 1
          [] pc \in {"op_cond_timeout", "op_cond_error"} -> 26 + again
          [] OTHER -> After[pc]

\* Until the card is asked for its conditions.
LEMMA FindsOn ==
    ASSUME SetVoltage \/ FixHostFlags \/ IoReset \/ GoIdle \/ IfCond \/ InitIo
           \/ SpiCrc
    PROVE  StepsLeft' < StepsLeft
<1>. USE InitAssumption DEF StepsLeft, After, Loop, Resets
<1>1. CASE SetVoltage
  <2>1. pc = "set_voltage" /\ pc' \in {"fix_host_flags", "done"}
    BY <1>1 DEF SetVoltage, Step, Sends, Passes, Moves, Learns, Goto, Fails, Finish
  <2>. QED
    BY <2>1
<1>2. CASE FixHostFlags
  <2>1. pc = "fix_host_flags" /\ pc' \in {"io_reset", "done"}
    BY <1>2 DEF FixHostFlags, Finish, Goto
  <2>. QED
    BY <2>1
<1>3. CASE IoReset
  <2>1. pc = "io_reset" /\ pc' \in {"go_idle", "done"}
    BY <1>3 DEF IoReset, Step, Sends, Passes, Moves, Learns, Goto, Fails, Finish
  <2>. QED
    BY <2>1
<1>4. CASE GoIdle
  <2>1. pc = "go_idle" /\ pc' \in {"if_cond", "done"}
    BY <1>4 DEF GoIdle, Step, Sends, Moves, Goto, Fails, Finish
  <2>. QED
    BY <2>1
<1>5. CASE IfCond
  <2>1. pc = "if_cond" /\ pc' \in {"init_io", "done"}
    BY <1>5 DEF IfCond, Step, Sends, Passes, Moves, Learns, Goto, Fails, Finish
  <2>. QED
    BY <2>1
<1>6. CASE InitIo
  <2>1. pc = "init_io" /\ pc' \in {"spi_crc", "done"}
    BY <1>6 DEF InitIo, Step, Sends, Passes, Moves, Learns, Goto, Fails, Finish
  <2>. QED
    BY <2>1
<1>7. CASE SpiCrc
  <2>1. pc = "spi_crc" /\ pc' \in {"op_cond", "done"}
    BY <1>7 DEF SpiCrc, Step, Sends, Passes, Moves, Learns, Goto, Fails, Finish
  <2>. QED
    BY <2>1
<1>. QED
  BY <1>1, <1>2, <1>3, <1>4, <1>5, <1>6, <1>7

\* From the answer to that to the card's registers.
LEMMA IdentifiesOn ==
    ASSUME OpCondReady \/ ReadOcr \/ InitUhs1 \/ InitCid \/ InitRca \/ InitCsd
           \/ SelectCard \/ SdBlocklen \/ SdScr \/ SdWaitDataReady \/
           MmcReadExtCsd \/ IoReadCardCap
    PROVE  StepsLeft' < StepsLeft
<1>. USE InitAssumption DEF StepsLeft, After, Loop, Resets
<1>1. CASE OpCondReady
  <2>1. pc = "op_cond_ready" /\ pc' \in {"read_ocr", "uhs1", "done"}
    BY <1>1 DEF OpCondReady, Goto
  <2>. QED
    BY <2>1
<1>2. CASE ReadOcr
  <2>1. pc = "read_ocr" /\ pc' \in {"uhs1", "done"}
    BY <1>2 DEF ReadOcr, Step, Sends, Passes, Moves, Learns, Goto, Fails, Finish
  <2>. QED
    BY <2>1
<1>3. CASE InitUhs1
  <2>1. pc = "uhs1" /\ pc' \in {"cid", "done"}
    BY <1>3 DEF InitUhs1, Step, Sends, Passes, Moves, Learns, Goto, Fails, Finish
  <2>. QED
    BY <2>1
<1>4. CASE InitCid
  <2>1. pc = "cid" /\ pc' \in {"rca", "done"}
    BY <1>4 DEF InitCid, Step, Sends, Passes, Moves, Learns, Goto, Fails, Finish
  <2>. QED
    BY <2>1
<1>5. CASE InitRca
  <2>1. pc = "rca" /\ pc' \in {"csd", "done"}
    BY <1>5 DEF InitRca, Step, Sends, Passes, Moves, Learns, Goto, Fails, Finish
  <2>. QED
    BY <2>1
<1>6. CASE InitCsd
  <2>1. pc = "csd" /\ pc' \in {"select", "done"}
    BY <1>6 DEF InitCsd, Step, Sends, Passes, Moves, Learns, Goto, Fails, Finish
  <2>. QED
    BY <2>1
<1>7. CASE SelectCard
  <2>1. pc = "select" /\ pc' \in {"blocklen", "done"}
    BY <1>7 DEF SelectCard, Step, Sends, Passes, Moves, Learns, Goto, Fails, Finish
  <2>. QED
    BY <2>1
<1>8. CASE SdBlocklen
  <2>1. pc = "blocklen" /\ pc' \in {"scr", "done"}
    BY <1>8 DEF SdBlocklen, Step, Sends, Passes, Moves, Learns, Goto, Fails, Finish
  <2>. QED
    BY <2>1
<1>9. CASE SdScr
  <2>1. pc = "scr" /\ pc' \in {"data_ready", "done"}
    BY <1>9 DEF SdScr, Step, Sends, Passes, Moves, Learns, Goto, Fails, Finish
  <2>. QED
    BY <2>1
<1>10. CASE SdWaitDataReady
  <2>1. pc = "data_ready" /\ pc' \in {"ext_csd", "done"}
    BY <1>10 DEF SdWaitDataReady, Step, Sends, Passes, Moves, Learns, Goto, Fails, Finish
  <2>. QED
    BY <2>1
<1>11. CASE MmcReadExtCsd
  <2>1. pc = "ext_csd" /\ pc' \in {"card_cap", "done"}
    BY <1>11 DEF MmcReadExtCsd, Step, Sends, Passes, Moves, Learns, Goto, Fails, Finish
  <2>. QED
    BY <2>1
<1>12. CASE IoReadCardCap
  <2>1. pc = "card_cap" /\ pc' \in {"hs_mode", "done"}
    BY <1>12 DEF IoReadCardCap, Step, Sends, Passes, Moves, Learns, Goto, Fails, Finish
  <2>. QED
    BY <2>1
<1>. QED
  BY <1>1, <1>2, <1>3, <1>4, <1>5, <1>6, <1>7, <1>8, <1>9, <1>10, <1>11, <1>12

\* From the registers to the end.
LEMMA SwitchesOn ==
    ASSUME CardHsMode \/ HsDeselect \/ HsCsd \/ HsSelect \/ CardBusWidth \/
           HostBusWidth \/ SdDriverStrength \/ SdCurrentLimit \/ SdSsr \/
           HostFrequency \/ TimingTuning \/ Check
    PROVE  StepsLeft' < StepsLeft
<1>. USE InitAssumption DEF StepsLeft, After, Loop, Resets
<1>1. CASE CardHsMode
  <2>1. pc = "hs_mode" /\ pc' \in {"bus_width", "hs_deselect", "hs_csd", "done"}
    BY <1>1 DEF CardHsMode, Step, SdHsMode,
        IoHsMode, MmcHsMode, AtDefault, At, Learns, Sends, Passes, Goto, Fails, Finish
  <2>. QED
    BY <2>1
<1>2. CASE HsDeselect
  <2>1. pc = "hs_deselect" /\ pc' \in {"hs_csd", "done"}
    BY <1>2 DEF HsDeselect, Step, Sends, Passes, Moves, Learns, Goto, Fails, Finish
  <2>. QED
    BY <2>1
<1>3. CASE HsCsd
  <2>1. pc = "hs_csd" /\ pc' \in {"hs_select", "bus_width", "done"}
    BY <1>3 DEF HsCsd, Step, Sends, Passes, Moves, Learns, Goto, Fails, Finish
  <2>. QED
    BY <2>1
<1>4. CASE HsSelect
  <2>1. pc = "hs_select" /\ pc' \in {"bus_width", "done"}
    BY <1>4 DEF HsSelect, Step, Sends, Passes, Moves, Learns, Goto, Fails, Finish
  <2>. QED
    BY <2>1
<1>5. CASE CardBusWidth
  <2>1. pc = "bus_width" /\ pc' \in {"host_width", "strength", "done"}
    BY <1>5 DEF CardBusWidth, Step, Sends, Passes, Moves, Learns, Goto, Fails, Finish
  <2>. QED
    BY <2>1
<1>6. CASE HostBusWidth
  <2>1. pc = "host_width" /\ pc' \in {"strength", "done"}
    BY <1>6 DEF HostBusWidth, Step, Sends, Passes, Moves, Learns, Goto, Fails, Finish
  <2>. QED
    BY <2>1
<1>7. CASE SdDriverStrength
  <2>1. pc = "strength" /\ pc' \in {"limit", "done"}
    BY <1>7 DEF SdDriverStrength, Step, Sends, Passes, Moves, Learns, Goto, Fails, Finish
  <2>. QED
    BY <2>1
<1>8. CASE SdCurrentLimit
  <2>1. pc = "limit" /\ pc' \in {"ssr", "done"}
    BY <1>8 DEF SdCurrentLimit, Step, Sends, Passes, Moves, Learns, Goto, Fails, Finish
  <2>. QED
    BY <2>1
<1>9. CASE SdSsr
  <2>1. pc = "ssr" /\ pc' \in {"host_freq", "done"}
    BY <1>9 DEF SdSsr, Step, Sends, Passes, Moves, Learns, Goto, Fails, Finish
  <2>. QED
    BY <2>1
<1>10. CASE HostFrequency
  <2>1. pc = "host_freq" /\ pc' \in {"tuning", "done"}
    BY <1>10 DEF HostFrequency, Step, Sends, Passes, Moves, Learns, Goto, Fails, Finish
  <2>. QED
    BY <2>1
<1>11. CASE TimingTuning
  <2>1. pc = "tuning" /\ pc' \in {"check", "done"}
    BY <1>11 DEF TimingTuning, Step, Sends, Passes, Moves, Learns, Goto, Fails, Finish
  <2>. QED
    BY <2>1
<1>12. CASE Check
  <2>1. pc = "check" /\ pc' \in {"done"}
    BY <1>12 DEF Check, Step, Sends, Passes, Moves, Learns, Goto, Fails, Finish
  <2>. QED
    BY <2>1
<1>. QED
  BY <1>1, <1>2, <1>3, <1>4, <1>5, <1>6, <1>7, <1>8, <1>9, <1>10, <1>11, <1>12

\* The loop of ACMD41 or CMD1: a try fewer, or out of it; and it is entered again for
\* an MMC only.
LEMMA TriesOn ==
    ASSUME CardTypeOK, OpCond \/ OpCondTry \/ OpCondTimeout \/ OpCondFailed
    PROVE  StepsLeft' < StepsLeft
<1>. USE InitAssumption DEF StepsLeft, After, Loop, Resets
<1>0. nretries \in Nat /\ card.is_mmc \in BOOLEAN
  BY DEF CardTypeOK
<1>1. CASE OpCond
  BY <1>0, <1>1 DEF OpCond, Goto, Finish
<1>2. CASE OpCondTry
  <2>1. pc = "op_cond_try" /\ UNCHANGED card
    BY <1>2 DEF OpCondTry
  <2>2. \/ pc' \in {"op_cond_timeout", "op_cond_error", "op_cond_ready"}
        \/ pc' = "op_cond_try" /\ nretries' = nretries - 1
    BY <1>2 DEF OpCondTry, OpCondError, OpCondBusy, Goto
  <2>. QED
    BY <1>0, <2>1, <2>2
<1>3. CASE OpCondTimeout \/ OpCondFailed
  <2>1. pc \in {"op_cond_timeout", "op_cond_error"}
    BY <1>3 DEF OpCondTimeout, OpCondFailed
  <2>2. \/ pc' = "done"
        \/ pc' = "op_cond" /\ ~card.is_mmc /\ card' = [card EXCEPT !.is_mmc = TRUE]
    BY <1>3 DEF OpCondTimeout, OpCondFailed, TriesMmc, Goto, Finish
  <2>3. pc' = "op_cond" => card'.is_mmc
    BY <2>2 DEF CardTypeOK
  <2>. QED
    BY <1>0, <2>1, <2>2, <2>3
<1>. QED
  BY <1>1, <1>2, <1>3

\* How many steps are left, and when none is.
LEMMA StepsBounded ==
    ASSUME CardIInv
    PROVE  /\ StepsLeft \in 0..2 * MaxRetries + 40
           /\ StepsLeft = 0 <=> pc = "done"
<1>. USE InitAssumption DEF StepsLeft, After, Loop
<1>1. /\ pc \in Steps /\ nretries \in 0..MaxRetries /\ MaxRetries \in Nat
      /\ card.is_mmc \in BOOLEAN
  BY DEF CardIInv, CardTypeOK, Progress
<1>2. CASE pc \in Resets \cup {"spi_crc"}
  BY <1>1, <1>2
<1>3. CASE pc \in OpConds \ {"spi_crc", "op_cond_ready"}
  BY <1>1, <1>3
<1>4. CASE pc \in Idents \cup Sets \cup {"op_cond_ready"}
  BY <1>1, <1>4
<1>5. CASE pc \in Switches \cup {"bus_width", "host_width"} \cup Ends
  BY <1>1, <1>5
<1>. QED
  BY <1>1, <1>2, <1>3, <1>4, <1>5

\* Every step leaves fewer.
LEMMA StepsFewer == ASSUME CardIInv, CardNext PROVE StepsLeft' < StepsLeft
<1>1. CardTypeOK
  BY DEF CardIInv
<1>. QED
  BY <1>1, FindsOn, IdentifiesOn, SwitchesOn, TriesOn DEF CardNext

-----------------------------------------------------------------------------
(* The theorems *)

LEMMA CardKeepsIInv == CardSpec => []CardIInv
<1>1. CardInit => CardIInv BY InitIInv
<1>2. CardIInv /\ [CardNext]_initVars => CardIInv' BY StepIInv
<1> QED BY <1>1, <1>2, PTL DEF CardSpec

\* Every command finds a memory card on an SD bus in the state it needs, whatever
\* fails before; and the clock is never left on once the card's conditions are known,
\* by any way out of sdmmc_send_cmd_send_op_cond, unless the host refused to turn it
\* back, which is only logged (sdmmc_card_init and its steps).
THEOREM CommandsComeInOrder == CardSpec => []CardInv
<1>1. CardIInv => CardInv BY IInvImplies
<1> QED BY <1>1, CardKeepsIInv, PTL

\* An initialised card and its host use the same lines, and the same edges but for an
\* MMC with both edges on one line; no line that is not wired, and no clock above the host's or beyond what the card's voltage allows
\* (sdmmc_init_card_bus_width, sdmmc_init_host_bus_width, sdmmc_init_host_frequency).
THEOREM CardAndHostAgree == CardSpec => []BusAgrees
<1>1. CardIInv => BusAgrees BY IInvImplies
<1> QED BY <1>1, CardKeepsIInv, PTL

\* The capacity used is the card's, limited to what 32-bit byte addresses reach, unless
\* high-speed mode read it again (sdmmc_init_csd, sdmmc_enable_hs_mode_and_check).
THEOREM CapacityIsTheCards == CardSpec => []CapacityRight
<1>1. CardIInv => CapacityRight BY IInvImplies
<1> QED BY <1>1, CardKeepsIInv, PTL

\* The sampling point a tuned host is left at worked, unless the search misses the
\* longest run or nothing worked (sdmmc_do_timing_tuning).
THEOREM TuningFindsAPoint == CardSpec => []TunedPhaseWorks
<1>1. CardIInv => TunedPhaseWorks BY IInvImplies
<1> QED BY <1>1, CardKeepsIInv, PTL

\* sdmmc_card_init ends: every step leaves fewer steps, of a number bounded by twice
\* the retries of ACMD41 and CMD1, whatever fails and whichever card answers; and only
\* the end leaves none.
THEOREM InitialisationEnds ==
    CardSpec => /\ [](/\ StepsLeft \in 0..2 * MaxRetries + 40
                      /\ StepsLeft = 0 <=> pc = "done")
                /\ [][StepsLeft' < StepsLeft]_initVars
<1>. DEFINE Bounded == /\ StepsLeft \in 0..2 * MaxRetries + 40
                       /\ StepsLeft = 0 <=> pc = "done"
<1>1. CardIInv => Bounded
  BY StepsBounded
<1>2. CardIInv /\ [CardNext]_initVars => [StepsLeft' < StepsLeft]_initVars
  BY StepsFewer
<1>. HIDE DEF Bounded
<1>3. CardSpec => []Bounded
  BY <1>1, CardKeepsIInv, PTL
<1>4. CardSpec => [][StepsLeft' < StepsLeft]_initVars
  BY <1>2, CardKeepsIInv, PTL DEF CardSpec
<1>. QED
  BY <1>3, <1>4 DEF Bounded
================================================================================
