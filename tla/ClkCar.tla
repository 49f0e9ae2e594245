------------------------------- MODULE ClkCar -------------------------------
(***************************************************************************)
(* The clock and reset component (components/clkcar/src): its interface    *)
(* thread, which resets a device and programs its clock when the SPI or    *)
(* the UART component asks for it (clkcar.c), and its gen_fwd thread,      *)
(* which writes the same registers for the virtual machine                 *)
(* (fwd_driver.c).  There is no lock: the interface thread reads, changes  *)
(* and writes back whole registers, and a register holds one bit for each  *)
(* device of a bank.                                                       *)
(*                                                                         *)
(* Each bank has three registers for the resets and three for the clocks:  *)
(* in the set and the clear register a bit that is 0 changes nothing, in   *)
(* the plain one (RST_DEVICES, CLK_OUT_ENB) every bit is written.  Which   *)
(* of them the guest writes is a parameter, since fwd_driver.c does not    *)
(* tell them apart.                                                        *)
(***************************************************************************)
EXTENDS Naturals, Sequences

CONSTANTS Uarts,         \* devices set up by clkcar_uart_clk_init
          Spi1,          \* the device set up by clkcar_spi_clk_init
          GuestDevices,  \* UARTD, SDMMC4, USB2, USB3
          SourceDevices, \* UARTD, SDMMC4
          OtherDevices,  \* devices neither may change
          GuestRegisters, \* those the guest writes: "plain", "set", "clear"
          Bank,          \* the bank of each device
          BootSource,    \* bits the boot loader leaves in CLK_SOURCE
          NoDevice

Device == Uarts \cup {Spi1} \cup GuestDevices \cup OtherDevices

ASSUME ClkCarAssumption ==
  /\ Spi1 \notin Uarts
  /\ (Uarts \cup {Spi1}) \cap (GuestDevices \cup OtherDevices) = {}
  /\ SourceDevices \subseteq GuestDevices
  /\ GuestRegisters \subseteq {"plain", "set", "clear"}
  /\ NoDevice \notin Device
  /\ BootSource \subseteq 0 .. 31

VARIABLES rst,      \* devices held in reset (RST_DEVICES)
          enb,      \* devices with a clock (CLK_OUT_ENB)
          src,      \* bits of each CLK_SOURCE register
          carDev,   \* device the interface thread sets up, or NoDevice
          carStep,  \* which change it is at
          carPc,    \* "read" or "write" of that change
          carReg,   \* the bank's bits it has read
          spiUp     \* spi__init: "no", "called" or "yes"

guestVars == <<rst, enb, src>>
threadVars == <<carDev, carStep, carPc, carReg>>
carVars == <<guestVars, threadVars, spiUp>>

(* The reset comes after the switch.                                       *)
clock_uart_init_Late == <<"clock_off", "source", "reset", "clock_on", "release">>

(* The changes of clock_uart_init and of clkcar_spi_clk_init, in order.    *)
clock_uart_init == <<"reset", "clock_off", "source", "clock_on", "release">>
clkcar_spi_clk_init == <<"reset", "clock_on", "source", "release">>

Changes(d) == IF d = Spi1 THEN clkcar_spi_clk_init ELSE clock_uart_init

(* tk1_clk_source_uart_encode(0, 2, false): source 0, divisor 2.           *)
uart_source == {1}
(* Source 6 and divisor 1 are ORed into what is there.                     *)
spi_source(old) == old \cup {31, 30, 0}

InBank(d) == {x \in Device : Bank[x] = Bank[d]}

ClkCarTypeOK ==
  /\ rst \subseteq Device /\ enb \subseteq Device
  /\ src \in [Device -> SUBSET (0 .. 31)]
  /\ carDev \in Uarts \cup {Spi1, NoDevice}
  /\ carStep \in 1 .. 5
  /\ carPc \in {"read", "write"}
  /\ carReg \subseteq Device
  /\ spiUp \in {"no", "called", "yes"}

(* The boot loader leaves the drivers' devices clocked.                    *)
ClkCarInit ==
  /\ rst = {}
  /\ enb = Device
  /\ src = [d \in Device |-> BootSource]
  /\ carDev = NoDevice /\ carStep = 1 /\ carPc = "read" /\ carReg = {}
  /\ spiUp = "no"
-----------------------------------------------------------------------------
(* The interface thread.  An RPC to it is accepted when it is idle.        *)

CarAccept(d) ==
  /\ carDev = NoDevice
  /\ carDev' = d
  /\ carStep' = 1
  /\ carPc' = "read"
  /\ UNCHANGED carReg

SpiCall ==
  /\ spiUp = "no"
  /\ CarAccept(Spi1)
  /\ spiUp' = "called"
  /\ UNCHANGED guestVars

SpiReturn ==
  /\ spiUp = "called"
  /\ carDev # Spi1
  /\ spiUp' = "yes"
  /\ UNCHANGED <<guestVars, threadVars>>

(* The bit is put into a fresh word, not into the register's.              *)
CarRead_Fresh ==
  /\ carDev # NoDevice
  /\ carPc = "read"
  /\ carPc' = "write"
  /\ carReg' = {}
  /\ UNCHANGED <<guestVars, carDev, carStep, spiUp>>

(* The clock source register of a device has one writer: its read has no   *)
(* effect until the write.                                                 *)
CarRead ==
  /\ carDev # NoDevice
  /\ carPc = "read"
  /\ carPc' = "write"
  /\ carReg' = InBank(carDev) \cap
       IF Changes(carDev)[carStep] \in {"reset", "release"} THEN rst ELSE enb
  /\ UNCHANGED <<guestVars, carDev, carStep, spiUp>>

(* The whole register is written: for every device of the bank, what was   *)
(* read a step ago.                                                        *)
CarWrite ==
  /\ carDev # NoDevice
  /\ carPc = "write"
  /\ LET other(reg) == reg \ InBank(carDev)
         change == Changes(carDev)[carStep]
     IN  /\ rst' = CASE change = "reset" -> other(rst) \cup carReg \cup {carDev}
                     [] change = "release" -> other(rst) \cup (carReg \ {carDev})
                     [] OTHER -> rst
         /\ enb' = CASE change = "clock_on" -> other(enb) \cup carReg \cup {carDev}
                     [] change = "clock_off" -> other(enb) \cup (carReg \ {carDev})
                     [] OTHER -> enb
         /\ src' = IF change # "source" THEN src
                   ELSE [src EXCEPT ![carDev] = IF carDev = Spi1
                                                THEN spi_source(@)
                                                ELSE uart_source]
  /\ carPc' = "read"
  /\ carReg' = {}
  /\ IF carStep = Len(Changes(carDev))
     THEN carDev' = NoDevice /\ carStep' = 1
     ELSE carStep' = carStep + 1 /\ UNCHANGED carDev
  /\ UNCHANGED spiUp

CarStep == SpiCall \/ SpiReturn \/ CarRead \/ CarWrite
-----------------------------------------------------------------------------
(* gen_fwd_write, handle_register and its handlers.                        *)

(* One allowed bit is enough.                                              *)
allow_enbrst_AnyBit(value) == value \cap GuestDevices # {}

(* Nor is a value without any.                                             *)
allow_enbrst(value) == value \subseteq GuestDevices

allow_source(d) == d \in SourceDevices

Written(old, bank, register, value) ==
  CASE register = "plain" -> (old \ bank) \cup value
    [] register = "set"   -> old \cup value
    [] register = "clear" -> old \ value

GuestWrite(bank, register, value) ==
  /\ allow_enbrst(value)
  /\ \/ rst' = Written(rst, bank, register, value) /\ UNCHANGED enb
     \/ enb' = Written(enb, bank, register, value) /\ UNCHANGED rst
  /\ UNCHANGED <<src, threadVars, spiUp>>

GuestSource(d) ==
  /\ allow_source(d)
  /\ \E bits \in {BootSource, {}} : src' = [src EXCEPT ![d] = bits]
  /\ UNCHANGED <<rst, enb, threadVars, spiUp>>

GuestStep ==
  \/ \E bank \in {InBank(d) : d \in Device} :
       \E register \in GuestRegisters, value \in SUBSET bank :
         GuestWrite(bank, register, value)
  \/ \E d \in Device : GuestSource(d)
-----------------------------------------------------------------------------
(* The bits its setup leaves in the source register of a device: those of  *)
(* the SPI controller are source 6 only if the boot loader left bit 29 at  *)
(* 0.                                                                      *)
SetupSource(d) == IF d = Spi1 THEN spi_source(BootSource) ELSE uart_source

(* A device is ready for its driver: out of reset, clocked, and with the   *)
(* clock source its setup wrote.                                           *)
Ready(d) ==
  /\ d \notin rst
  /\ d \in enb
  /\ src[d] = SetupSource(d)
-----------------------------------------------------------------------------
(* The guest's writes leave the resets and the clocks of the drivers'      *)
(* devices as they are ("blocks write access if SPI1 or UARTB devices are  *)
(* affected", fwd_driver.c 83-84).                                         *)
GuestBlocked ==
  [][GuestStep => \A d \in Uarts \cup {Spi1} :
       (d \in rst' <=> d \in rst) /\ (d \in enb' <=> d \in enb)]_carVars
=============================================================================
