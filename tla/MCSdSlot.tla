----------------------------- MODULE MCSdSlot -----------------------------
(* The slot for TLC: the memory cards, each on its bus.                        *)
EXTENDS SdSlot

Sd(spi, sdhc, discard, clears) ==
    [spi |-> spi, mmc |-> FALSE, sdhc |-> sdhc, discard |-> discard, trim |-> FALSE,
     sanitize |-> FALSE, clears |-> clears]

Mmc4(sdhc, discard, trim, sanitize) ==
    [spi |-> FALSE, mmc |-> TRUE, sdhc |-> sdhc, discard |-> discard, trim |-> trim,
     sanitize |-> sanitize, clears |-> FALSE]

MCCards == {Sd(TRUE, FALSE, FALSE, FALSE), Sd(TRUE, TRUE, FALSE, TRUE),
            Sd(FALSE, FALSE, TRUE, FALSE),
            Mmc4(TRUE, TRUE, TRUE, TRUE), Mmc4(TRUE, TRUE, FALSE, FALSE)}
==============================================================================
