------------------------------ MODULE SdCardInit ------------------------------
(***************************************************************************)
(* components/sdmmc, sdmmc_card_init (sdmmc_init.c): the sequence of steps  *)
(* that finds out what card is in the slot and brings it to data transfer,  *)
(* with the steps themselves (sdmmc_common.c, sdmmc_sd.c, sdmmc_io.c,       *)
(* sdmmc_mmc.c, sdmmc_cmd.c).  The firmware runs it over SPI at 400 kHz.    *)
(*                                                                         *)
(* The card is external: any command may fail, and the card is otherwise    *)
(* the one chosen in Init.  On an SD bus it goes through the states         *)
(* idle, ready, ident, stby and tran, on which the commands it accepts      *)
(* depend; on SPI there are none.                                          *)
(*                                                                         *)
(* UHS-I is compiled in where the chip has it (SOC_SDMMC_UHS_I_SUPPORTED, a  *)
(* property of the host here; the ESP32 lacks it): 1.8 V signalling, DDR50,  *)
(* SDR50 and SDR104, and the tuning of the point at which the host samples.  *)
(* The fields of the registers that nothing else reads are left out.        *)
(***************************************************************************)
EXTENDS Integers, FiniteSets, FiniteSetsExt

CONSTANTS
    Hosts,       \* sdmmc_host_t configurations, see HostType
    Devices,     \* cards, see DeviceType
    SdscLimit,   \* UINT32_MAX / sector_size + 1, in sectors
    MaxRetries,  \* SDMMC_SEND_OP_COND_MAX_RETRIES
    MaxErrors    \* SDMMC_SEND_OP_COND_MAX_ERRORS

Probing == 400   \* SDMMC_FREQ_*, in kHz
Default == 20000
F26M == 26000
HighSpeed == 40000
F52M == 52000
DDR50 == 50000
SDR50 == 100000
SDR104 == 208000
UhsFreqs == {DDR50, SDR50, SDR104}

PhaseAuto == 4             \* SDMMC_DELAY_PHASE_AUTO
Phases == 0..PhaseAuto - 1

Kinds == {"sd1", "sd2", "mmc", "io", "combo"}

\* flags: the bus widths enabled; slot: the width wired; ddr: SDMMC_HOST_FLAG_DDR;
\* soc_uhs: the chip has UHS-I; uhs: the slot is set to it; pwr: there is a
\* pwr_ctrl_handle; delay: input_delay_phase; tunable: there is a set_input_delay.
HostType == [spi : BOOLEAN, flags : SUBSET {1, 4, 8}, slot : {1, 4, 8},
             ddr : BOOLEAN, freq : Nat, cclk : BOOLEAN, soc_uhs : BOOLEAN,
             uhs : BOOLEAN, pwr : BOOLEAN, delay : 0..PhaseAuto, tunable : BOOLEAN]

\* hc: more than 2 GB, with sector addresses; funcs: SDIO functions; wide: 4 data
\* lines; hs, ddr: high speed, and on both clock edges; s18: 1.8 V and UHS-I.
DeviceType == [kind : Kinds, hc : BOOLEAN, funcs : 0..7, capacity : Nat,
               wide : BOOLEAN, hs : BOOLEAN, ddr : BOOLEAN, s18 : BOOLEAN]

\* A host is set to one of the SDMMC_FREQ_* frequencies.
ASSUME InitAssumption ==
    /\ Hosts # {} /\ Hosts \subseteq HostType
    /\ \A h \in Hosts : h.freq <= F52M \/ h.freq \in UhsFreqs
    /\ Devices # {} /\ Devices \subseteq DeviceType
    /\ SdscLimit \in Nat /\ MaxRetries \in Nat \ {0} /\ MaxErrors \in Nat \ {0}

VARIABLES
    host, dev,   \* what is initialised: card->host, and the card itself
    card,        \* sdmmc_card_t
    pc, result,  \* the step sdmmc_card_init is at; what it returned
    nretries, err_cnt,  \* sdmmc_send_cmd_send_op_cond
    hcs,         \* the HCS bit of its argument
    bus          \* the card's state, width, edges and voltage; the host's width, edges,
                 \* clock and sampling point, whether it refused to turn the clock back,
                 \* and which points worked when it was tuned

loopVars == <<nretries, err_cnt, hcs>>
initVars == <<host, dev, card, pc, result, loopVars, bus>>

Unknown == [is_mem |-> FALSE, is_sdio |-> FALSE, is_mmc |-> FALSE, hc |-> FALSE,
            s18 |-> FALSE, rca |-> 0, capacity |-> 0, width |-> 0, ddr |-> FALSE,
            freq |-> 0]

CardInit ==
    /\ host \in Hosts /\ dev \in Devices
    /\ card = Unknown
    /\ pc = "set_voltage" /\ result = "none"
    /\ nretries = 0 /\ err_cnt = 0 /\ hcs = FALSE
    /\ bus = [state |-> "idle", card |-> 1, host |-> 1, card_ddr |-> FALSE,
              ddr |-> FALSE, always_on |-> FALSE, off_refused |-> FALSE,
              v18 |-> FALSE, phase |-> 0, good |-> Phases]

-----------------------------------------------------------------------------
(* Shape of a step *)

is_spi == host.spi
is_mem == card.is_mem
is_sdio == ~is_mem         \* the local of sdmmc_card_init
is_mmc == is_mem /\ card.is_mmc
is_sdmem == is_mem /\ ~is_mmc
is_uhs1 == is_sdmem /\ card.s18 /\ card.hc

DevHasMem == dev.kind # "io"
DevHasIo == dev.kind \in {"io", "combo"}

Finish(e) == pc' = "done" /\ result' = e

Goto(p) == pc' = p /\ UNCHANGED result

Fails ==
    Finish("error") /\ UNCHANGED <<card, bus>>

\* A command is sent, and it or the answer to it may be refused.
Sends(Body) == Body \/ Fails

\* SDMMC_INIT_STEP: a step with its condition; Body is what it does when it applies.
Step(here, there, condition, Body) ==
    /\ pc = here
    /\ IF condition THEN Body
                    ELSE Goto(there) /\ UNCHANGED <<card, bus>>
    /\ UNCHANGED <<host, dev, loopVars>>

\* A step that only reads what nothing else depends on.
Passes(there) == Goto(there) /\ UNCHANGED <<card, bus>>

Moves(there, state) ==
    Goto(there) /\ bus' = [bus EXCEPT !.state = state] /\ UNCHANGED card

Learns(there, c) == Goto(there) /\ card' = c /\ UNCHANGED bus

-----------------------------------------------------------------------------
(* Identification *)

SetVoltage ==
    Step("set_voltage", "fix_host_flags", host.pwr, Sends(Passes("fix_host_flags")))

FixedFlags ==
    CASE host.slot = 1 /\ host.flags \cap {4, 8} # {} -> {1}
      [] host.slot = 4 /\ 8 \in host.flags -> IF 4 \in host.flags THEN {4} ELSE {1}
      [] OTHER -> host.flags

FixHostFlags ==
    /\ pc = "fix_host_flags"
    /\ \/ Finish("error") /\ UNCHANGED host  \* no aligned buffer or host function
       \/ is_spi /\ Goto("io_reset") /\ UNCHANGED host
       \/ /\ ~is_spi
          /\ host' = [host EXCEPT !.flags = FixedFlags]
          /\ IF \/ host.freq \in UhsFreqs /\ ~host.soc_uhs
                \/ host.freq = DDR50 /\ ~host.ddr
             THEN Finish("error") ELSE Goto("io_reset")
    /\ UNCHANGED <<dev, card, bus, loopVars>>

\* CMD52: a memory card may not answer, or may reject it; both are accepted.
IoReset == Step("io_reset", "go_idle", TRUE, Sends(Passes("go_idle")))

GoIdle == Step("go_idle", "if_cond", TRUE, Sends(Moves("if_cond", "idle")))

\* CMD8: answered by SD cards of version 2, which may have a high capacity; a card
\* that stays silent is taken for an older one.
IfCond ==
    Step("if_cond", "init_io", TRUE,
         Sends(\/ /\ dev.kind \in {"sd2", "combo"}
                  /\ Learns("init_io", [card EXCEPT !.hc = TRUE])
               \/ Passes("init_io")))

\* CMD5: its response replaces card->ocr, where SD_OCR_SDHC_CAP is now the high bit
\* of the number of functions.
InitIo ==
    Step("init_io", "spi_crc", TRUE,
         \/ Learns("spi_crc", [card EXCEPT !.is_mem = TRUE, !.is_sdio = FALSE])
         \/ /\ DevHasIo
            /\ Sends(Learns("spi_crc",
                 [card EXCEPT !.is_mem = DevHasMem, !.is_sdio = dev.funcs # 0,
                              !.hc = dev.funcs >= 4])))

SpiCrc == Step("spi_crc", "op_cond", is_spi, Sends(Passes("op_cond")))

-----------------------------------------------------------------------------
(* sdmmc_init_ocr and sdmmc_send_cmd_send_op_cond: ACMD41, or CMD1 for an MMC, *)
(* until the card is ready.                                                   *)

OpCond ==
    /\ pc = "op_cond"
    /\ IF ~is_mem
       THEN Goto("uhs1") /\ UNCHANGED <<bus, loopVars>>
       ELSE /\ nretries' = MaxRetries /\ err_cnt' = MaxErrors
            /\ hcs' = card.hc
            /\ \/ /\ bus' = [bus EXCEPT !.always_on = host.cclk]
                  /\ Goto("op_cond_try")
               \/ (host.cclk \/ host.uhs) /\ Finish("error") /\ UNCHANGED bus
    /\ UNCHANGED <<host, dev, card>>

\* Whether the card can leave the idle state on this command.
Responds == IF card.is_mmc THEN dev.kind = "mmc"
            ELSE DevHasMem /\ dev.kind # "mmc" /\ (dev.hc => hcs)

OpCondError ==
    IF err_cnt = 1 THEN Goto("op_cond_error") /\ UNCHANGED <<nretries, err_cnt>>
    ELSE /\ err_cnt' = err_cnt - 1 /\ nretries' = nretries - 1
         /\ UNCHANGED <<pc, result>>

OpCondBusy ==
    nretries' = nretries - 1 /\ UNCHANGED <<pc, result, err_cnt>>

Exhausted == nretries = 0

OpCondTry ==
    /\ pc = "op_cond_try"
    /\ IF Exhausted
       THEN Goto("op_cond_timeout") /\ UNCHANGED <<bus, nretries, err_cnt>>
       ELSE \/ OpCondError /\ UNCHANGED bus
            \/ /\ DevHasMem /\ (dev.kind = "mmc" <=> card.is_mmc)
               /\ OpCondBusy /\ UNCHANGED bus
            \/ /\ Responds
               /\ Goto("op_cond_ready")
               /\ bus' = [bus EXCEPT !.state = "ready"]
               /\ UNCHANGED <<nretries, err_cnt>>
    /\ UNCHANGED <<host, dev, card, hcs>>

\* The clock goes back to normal, or the host refuses and it stays on: that is only
\* logged, and sdmmc_init_ocr goes by the result of the command.
ClockOff ==
    \/ bus' = [bus EXCEPT !.always_on = FALSE, !.off_refused = FALSE]
    \/ host.cclk /\ bus' = [bus EXCEPT !.off_refused = TRUE]

OpCondReady ==
    /\ pc = "op_cond_ready"
    /\ ClockOff
    /\ card' = [card EXCEPT !.hc = dev.hc, !.s18 = host.uhs /\ dev.s18 /\ ~is_mmc]
    /\ IF is_spi THEN Goto("read_ocr") ELSE Goto("uhs1")
    /\ UNCHANGED <<host, dev, loopVars>>

\* Mutant: MMC is tried again and again.
TriesMmc_Again == ~is_spi

TriesMmc == ~is_spi /\ ~card.is_mmc

OpCondTimeout ==
    /\ pc = "op_cond_timeout"
    /\ ClockOff
    /\ IF TriesMmc
       THEN card' = [card EXCEPT !.is_mmc = TRUE] /\ Goto("op_cond")
       ELSE Finish("error") /\ UNCHANGED card
    /\ UNCHANGED <<host, dev, loopVars>>

\* The command's own error: when it was ESP_ERR_TIMEOUT, MMC is tried as well.
OpCondFailed ==
    /\ pc = "op_cond_error"
    /\ ClockOff
    /\ \/ Finish("error") /\ UNCHANGED card
       \/ /\ TriesMmc
          /\ card' = [card EXCEPT !.is_mmc = TRUE] /\ Goto("op_cond")
    /\ UNCHANGED <<host, dev, loopVars>>

ReadOcr == Step("read_ocr", "uhs1", TRUE, Sends(Passes("uhs1")))

\* CMD11 and, from within the host driver, the switch of the host's own voltage, which
\* is refused without a handle.
InitUhs1 ==
    Step("uhs1", "cid", is_uhs1,
         IF host.pwr THEN Sends(/\ Goto("cid")
                                /\ bus' = [bus EXCEPT !.v18 = TRUE]
                                /\ UNCHANGED card)
                     ELSE Fails)

-----------------------------------------------------------------------------
(* Address, capacity and selection *)

InitCid ==
    Step("cid", "rca", is_mem,
         Sends(IF is_spi THEN Passes("rca") ELSE Moves("rca", "ident")))

\* An SD card chooses its address, asked a second time if it chose 0.
InitRca ==
    Step("rca", "csd", ~is_spi,
         Sends(/\ Goto("csd")
               /\ card' = [card EXCEPT !.rca = 1]
               /\ bus' = [bus EXCEPT !.state = "stby"]))

\* Mutant: the limit also holds for cards that count sectors.
Limited_All(c) == IF c > SdscLimit THEN SdscLimit ELSE c

Limited(c) == IF ~card.hc /\ c > SdscLimit THEN SdscLimit ELSE c

InitCsd ==
    Step("csd", "select", is_mem,
         Sends(Learns("select", [card EXCEPT !.capacity = Limited(dev.capacity)])))

SelectCard == Step("select", "blocklen", ~is_spi, Sends(Moves("blocklen", "tran")))

SdBlocklen == Step("blocklen", "scr", is_sdmem /\ ~card.hc, Sends(Passes("scr")))

SdScr ==
    Step("scr", "data_ready", is_sdmem,
         Sends(Learns("data_ready",
           [card EXCEPT !.width = IF dev.wide /\ 4 \in host.flags THEN 2 ELSE 0])))

\* Polls the card's status on an SD bus, until ready or for 5 s.
SdWaitDataReady == Step("data_ready", "ext_csd", is_sdmem, Sends(Passes("ext_csd")))

\* The EXT_CSD of an MMC 4; an older one is not supported.
\* CARD_TYPE: 52 MHz, on one or both edges; else 26 MHz, or none that is known.
MmcFreqs == IF dev.ddr \/ dev.hs THEN {F52M} ELSE {F26M, 0}

Capped(f) == IF f < host.freq THEN f ELSE host.freq

MmcReadExtCsd ==
    Step("ext_csd", "card_cap", is_mmc,
         Sends(\E f \in MmcFreqs : Learns("card_cap",
           [card EXCEPT
             !.ddr = dev.ddr /\ host.ddr /\ host.freq >= F26M /\ host.slot = 4,
             !.freq = Capped(f),
             !.width = IF 8 \in host.flags THEN 3 ELSE IF 4 \in host.flags THEN 2 ELSE 0,
             !.capacity = IF dev.hc THEN dev.capacity ELSE card.capacity])))

IoReadCardCap == Step("card_cap", "hs_mode", is_sdio, Sends(Passes("hs_mode")))

-----------------------------------------------------------------------------
(* High-speed mode *)

\* ESP_ERR_NOT_SUPPORTED: the card keeps the default speed.
AtDefault == Learns("bus_width", [card EXCEPT !.freq = Default])

At(f) == Learns("bus_width", [card EXCEPT !.freq = f])

\* The access mode sdmmc_enter_higher_speed_mode asks for, and whether the card offers
\* it: the modes of UHS-I only at 1.8 V, and then not every one.
AccessMode ==
    CASE host.ddr /\ is_uhs1 -> "ddr50"
      [] ~(host.ddr /\ is_uhs1) /\ host.freq \in {SDR50, SDR104} -> "sdr50 or sdr104"
      [] OTHER -> "sdr25"

Offers == IF AccessMode = "sdr25" THEN {dev.hs} ELSE {FALSE, bus.v18}

SdHsMode ==
    IF host.freq <= Default THEN At(host.freq)
    ELSE \E offered \in Offers :
           Sends(IF offered
                 THEN /\ Goto(IF is_spi THEN "hs_csd" ELSE "hs_deselect")
                      /\ card' = [card EXCEPT !.freq = Default,
                                              !.ddr = (AccessMode = "ddr50")]
                      /\ bus' = [bus EXCEPT !.card_ddr = (AccessMode = "ddr50"),
                                            !.ddr = (AccessMode = "ddr50")]
                 ELSE AtDefault)

IoHsMode ==
    CASE host.freq < Default -> At(host.freq)
      [] host.freq >= Default /\ host.freq < HighSpeed -> At(Default)
      [] OTHER -> Sends(IF dev.hs THEN At(HighSpeed) ELSE AtDefault)

MmcHsMode == IF card.freq > F26M THEN Sends(Passes("bus_width")) ELSE Passes("bus_width")

CardHsMode ==
    Step("hs_mode", "bus_width", TRUE,
         CASE is_sdmem -> SdHsMode
           [] ~is_sdmem /\ card.is_sdio -> IoHsMode
           [] ~is_sdmem /\ ~card.is_sdio /\ card.is_mmc -> MmcHsMode
           [] OTHER -> AtDefault)

\* Mutant: the card stays selected.
HsDeselect_Not == Step("hs_deselect", "hs_csd", TRUE, Sends(Passes("hs_csd")))

HsDeselect == Step("hs_deselect", "hs_csd", TRUE, Sends(Moves("hs_csd", "stby")))

\* CSD is read again and decoded again, into the same fields.
HsCsd ==
    Step("hs_csd", "bus_width", TRUE,
         Sends(Learns(IF is_spi THEN "bus_width" ELSE "hs_select",
                      [card EXCEPT !.capacity = dev.capacity,
                                   !.freq = IF is_spi THEN Capped(SDR104) ELSE @])))

HsSelect ==
    Step("hs_select", "bus_width", TRUE,
         Sends(/\ Goto("bus_width")
               /\ card' = [card EXCEPT !.freq = Capped(SDR104)]
               /\ bus' = [bus EXCEPT !.state = "tran"]))

-----------------------------------------------------------------------------
(* Bus width and frequency *)

Lines(w) == CASE w = 2 -> 4 [] w = 3 -> 8 [] OTHER -> 1

IoWidth == IF 4 \in host.flags /\ dev.wide THEN 2 ELSE 0

\* ACMD6, CCCR or SWITCH, for the card.
CardBusWidth ==
    Step("bus_width", "strength", ~is_spi,
         LET w == IF is_sdio THEN IoWidth ELSE card.width
         IN Sends(/\ Goto("host_width")
                  /\ card' = [card EXCEPT !.width = w]
                  /\ bus' = [bus EXCEPT !.card = Lines(w),
                                        !.card_ddr = card.ddr /\ (is_mmc => w > 0)]))

\* Mutant: the host switches to 4 lines whenever it may.
HostWidth_ByFlags == IF 4 \in host.flags THEN 4 ELSE 1

HostWidth ==
    CASE 4 \in host.flags /\ card.width = 2 -> 4
      [] 8 \in host.flags /\ card.width = 3 -> 8
      [] OTHER -> 1

HostBusWidth ==
    Step("host_width", "strength", TRUE,
         Sends(/\ Goto("strength")
               /\ bus' = [bus EXCEPT !.host = HostWidth]
               /\ UNCHANGED card))

\* Driver strength and current limit: SWITCH_FUNC for groups 3 and 4.
SdDriverStrength ==
    Step("strength", "limit", is_uhs1, Sends(Passes("limit")))
SdCurrentLimit == Step("limit", "ssr", is_uhs1, Sends(Passes("ssr")))

SdSsr == Step("ssr", "host_freq", is_sdmem, Sends(Passes("host_freq")))

\* The automatic phase needs UHS-I, any other than 0 a function to set it.
DelayRefused ==
    \/ host.delay = PhaseAuto /\ ~(host.soc_uhs /\ host.freq \in {SDR50, SDR104})
    \/ host.delay # 0 /\ ~host.tunable

HostFrequency ==
    Step("host_freq", "tuning", TRUE,
         IF DelayRefused THEN Fails
         ELSE Sends(/\ Goto("tuning")
                    /\ bus' = [bus EXCEPT !.ddr = @ \/ card.ddr, !.phase = host.delay]
                    /\ UNCHANGED card))

-----------------------------------------------------------------------------
(* sdmmc_do_timing_tuning: a block is read at each of the host's sampling points *)

\* find_max_consecutive_success_points over the points that worked.  Only a run that
\* a failure ends counts for the index.
RunAt(good, i) ==  \* match_num after point i
    Max({n \in 0..i + 1 : (i - n + 1)..i \subseteq good})
EndedRuns(good) == {i \in Phases : i + 1 \in Phases \ good /\ i \in good}
Longest(good) == Max({RunAt(good, i) : i \in Phases})

\* Mutant: the index is that of the failure.
EndIndex_Past(good) ==
    LET ended == EndedRuns(good)
        best == {i \in ended : \A j \in ended : RunAt(good, j) <= RunAt(good, i)}
    IN  IF good = Phases THEN PhaseAuto ELSE IF ended = {} THEN 0 ELSE Min(best) + 1

EndIndex(good) ==
    LET ended == EndedRuns(good)
        best == {i \in ended : \A j \in ended : RunAt(good, j) <= RunAt(good, i)}
    IN  IF good = Phases THEN PhaseAuto ELSE IF ended = {} THEN 0 ELSE Min(best)

ProperPhase(good) ==
    IF Longest(good) = 1 THEN EndIndex(good) ELSE EndIndex(good) \div 2

TimingTuning ==
    Step("tuning", "check", is_uhs1,
         IF is_spi \/ ~host.tunable THEN Fails
         ELSE \E good \in SUBSET Phases :
                Sends(/\ Goto("check")
                      /\ bus' = [bus EXCEPT !.phase = ProperPhase(good), !.good = good]
                      /\ UNCHANGED card))

\* What was read before the switch is read again and compared.
Check ==
    Step("check", "done", TRUE, Sends(Finish("ok") /\ UNCHANGED <<card, bus>>))

-----------------------------------------------------------------------------
(* The specification *)

CardNext ==
    \/ SetVoltage \/ FixHostFlags \/ IoReset \/ GoIdle \/ IfCond \/ InitIo \/ SpiCrc
    \/ OpCond \/ OpCondTry \/ OpCondReady \/ OpCondTimeout \/ OpCondFailed
    \/ ReadOcr \/ InitUhs1
    \/ InitCid \/ InitRca \/ InitCsd \/ SelectCard \/ SdBlocklen \/ SdScr
    \/ SdWaitDataReady \/ MmcReadExtCsd \/ IoReadCardCap
    \/ CardHsMode \/ HsDeselect \/ HsCsd \/ HsSelect
    \/ CardBusWidth \/ HostBusWidth \/ SdDriverStrength \/ SdCurrentLimit
    \/ SdSsr \/ HostFrequency \/ TimingTuning \/ Check

CardSpec == CardInit /\ [][CardNext]_initVars

\* The caller's task runs on; every command has a timeout in the host driver.
CardFairSpec == CardSpec /\ WF_initVars(CardNext)

-----------------------------------------------------------------------------
(* Properties *)

Freqs == {0, Default, F26M, HighSpeed, F52M, SDR104} \cup {h.freq : h \in Hosts}

\* Every variable stays within its type.
CardTypeOK ==
    /\ host \in HostType /\ dev \in Devices
    /\ card \in [is_mem : BOOLEAN, is_sdio : BOOLEAN, is_mmc : BOOLEAN,
                 hc : BOOLEAN, s18 : BOOLEAN, rca : {0, 1}, capacity : Nat,
                 width : {0, 2, 3}, ddr : BOOLEAN, freq : Freqs]
    /\ result \in {"none", "ok", "error"} /\ (result # "none") = (pc = "done")
    /\ nretries \in 0..MaxRetries /\ err_cnt \in 0..MaxErrors /\ hcs \in BOOLEAN
    /\ bus \in [state : {"idle", "ready", "ident", "stby", "tran"},
                card : {1, 4, 8}, host : {1, 4, 8}, card_ddr : BOOLEAN,
                ddr : BOOLEAN, always_on : BOOLEAN, off_refused : BOOLEAN,
                v18 : BOOLEAN, phase : 0..PhaseAuto, good : SUBSET Phases]

\* The state of an SD-bus card that the command of a step needs.
NeededState ==
    CASE pc \in {"uhs1", "cid"} -> {"ready"}
      [] pc = "rca" -> {"ident"}
      [] pc \in {"csd", "select", "hs_csd", "hs_select"} -> {"stby"}
      [] pc \in {"blocklen", "scr", "ext_csd", "hs_mode", "hs_deselect",
                 "bus_width", "strength", "limit", "ssr", "tuning", "check"} -> {"tran"}
      [] OTHER -> {"idle", "ready", "ident", "stby", "tran"}

\* On an SD bus a memory card is in the state each command needs: CSD is read
\* while the card is not selected, also the second time, and data only moves
\* while it is.
CommandsInState == (~is_spi /\ is_mem) => bus.state \in NeededState

\* The clock is only kept on while ACMD41 or CMD1 is repeated, on every path but the one
\* where the host refused to turn it back: this the code does not notice.
ClockNotLeftOn ==
    bus.always_on =>
        \/ pc \in {"op_cond_try", "op_cond_ready", "op_cond_timeout", "op_cond_error"}
        \/ bus.off_refused

\* Types, commands in the state they need, and the clock back to normal where the host
\* allows it.
CardInv == CardTypeOK /\ CommandsInState /\ ClockNotLeftOn

\* An MMC with both edges on one line is not told of them, the host is: the edges are
\* decided by the slot (sdmmc_mmc.c:57), the card is switched by its width (line 118).
OneLineDdr == is_mmc /\ card.ddr /\ card.width = 0

\* Once a card is initialised, card and host use the same lines and, but for an MMC on
\* one line, the same edges, no line that is not wired, and no clock above the host's.
\* The last is the assertion of sdmmc_init_host_frequency; a card that is neither memory
\* nor has functions keeps 20 MHz and trips it in a slower host.  A memory card is only
\* clocked beyond the modes of 3.3 V once it was switched to 1.8 V.
BusAgrees ==
    result = "ok" =>
        /\ ~is_spi => /\ bus.card = bus.host /\ bus.host <= host.slot
                      /\ bus.card_ddr = bus.ddr \/ OneLineDdr
        /\ card.is_mem \/ card.is_sdio => card.freq <= host.freq
        /\ is_sdmem /\ card.freq > F52M => bus.v18

\* A card is used for what it holds, but a byte-addressed one for no more than
\* 32-bit addresses reach.  In high-speed mode CSD is decoded again, which undoes
\* the limit.
CapacityRight ==
    (result = "ok" /\ is_mem) =>
        \/ card.capacity = IF ~card.hc /\ dev.capacity > SdscLimit THEN SdscLimit
                                                                   ELSE dev.capacity
        \/ dev.hs /\ host.freq > Default /\ card.capacity = dev.capacity

\* A tuned host samples at a point that worked, unless none did, or the longest run of
\* such points is at the end of the table, where the search misses it.
MissedRun ==
    \E n \in Phases : /\ n..PhaseAuto - 1 \subseteq bus.good
                     /\ \A i \in EndedRuns(bus.good) : RunAt(bus.good, i) < PhaseAuto - n
TunedPhaseWorks ==
    (result = "ok" /\ is_uhs1) =>
        bus.phase \in bus.good \/ bus.good = {} \/ MissedRun

\* Initialisation always comes to an end.
InitAnswers == <>(pc = "done")
==============================================================================
