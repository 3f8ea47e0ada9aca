----------------------------- MODULE MCSdCardInit -----------------------------
(* SdCardInit for TLC: the hosts and the cards.  The limit of a byte-addressed  *)
(* card is 4 sectors.                                                          *)
EXTENDS SdCardInit

\* A host of the ESP32 and one of a chip with UHS-I.
Host(spi, flags, slot, ddr, freqs, cclk) ==
    [spi : {spi}, flags : flags, slot : slot, ddr : {ddr}, freq : freqs, cclk : cclk,
     soc_uhs : {FALSE}, uhs : {FALSE}, pwr : {FALSE}, delay : {0}, tunable : {FALSE}]

UhsHost(flags, ddr, freqs) ==
    [spi : {FALSE}, flags : flags, slot : {4}, ddr : {ddr}, freq : freqs,
     cclk : {TRUE}, soc_uhs : {TRUE}, uhs : BOOLEAN, pwr : BOOLEAN, delay : {0, PhaseAuto},
     tunable : BOOLEAN]

MCHosts ==
    Host(TRUE, {{1}}, {1}, FALSE, {Probing, Default, HighSpeed}, {FALSE})
    \cup Host(FALSE, {{1}, {1, 4}, {1, 8}, {1, 4, 8}}, {1, 4, 8}, FALSE,
              {Probing, Default, HighSpeed}, BOOLEAN)
    \cup Host(FALSE, {{1}, {1, 4}, {1, 4, 8}}, {4, 8}, TRUE, {F26M, F52M, DDR50}, {TRUE})
    \cup UhsHost({{1, 4}}, TRUE, {DDR50}) \cup UhsHost({{1}, {1, 4}}, FALSE, {SDR104})

Card(kind, hc, funcs, capacity) ==
    [kind : {kind}, hc : {hc}, funcs : {funcs}, capacity : {capacity},
     wide : BOOLEAN, hs : BOOLEAN, ddr : BOOLEAN, s18 : {kind = "sd2" /\ hc}]

\* Byte-addressed and larger cards, an SDIO card without functions, combo cards.
MCDevices ==
    UNION {Card("sd1", FALSE, 0, 3), Card("sd2", FALSE, 0, 6), Card("sd2", TRUE, 0, 6),
           Card("mmc", FALSE, 0, 3), Card("mmc", TRUE, 0, 6), Card("io", FALSE, 0, 0),
           Card("io", FALSE, 1, 0), Card("combo", FALSE, 1, 3), Card("combo", TRUE, 4, 6)}
==============================================================================
