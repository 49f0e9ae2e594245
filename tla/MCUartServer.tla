---------------------------- MODULE MCUartServer ----------------------------
(* UARTB shares a bank with a device of the guest and with one that nobody *)
(* may change (the timer); the SPI controller is in the next bank, with    *)
(* another such device (kfuse).                                            *)
EXTENDS UartServer

CONSTANTS uartb, spi1, sdmmc4, tmr, kfuse

MCBank == [d \in Device |-> IF d \in {spi1, kfuse} THEN "H" ELSE "L"]
MCBootSource == {29}
=============================================================================
