------------------------------- MODULE Mcp2515 -------------------------------
(***************************************************************************)
(* The MCP2515 CAN controller as the driver sees it through the SPI        *)
(* instructions of components/can/src/spi_cmd.c, and the events of the     *)
(* bus.  spi_lock makes each instruction atomic; the order of instructions *)
(* is the driver's business.  The controller is in normal mode.            *)
(*                                                                         *)
(* Its INT pin is low while an enabled flag of CANINTF is set, and the     *)
(* flags are set by the bus at any time, whatever the driver is doing.     *)
(***************************************************************************)
EXTENDS Naturals, FiniteSets, Sequences, GpioCanInt

CONSTANTS TXB_NUM,   \* TX buffers on the controller (irq.c)
          RxBufs,    \* RX buffers the acceptance filters route frames to
          Faults,    \* fault flags the environment may raise
          MaxSend,   \* bound: frames the client offers
          MaxRecv    \* bound: frames arriving from the bus

ASSUME ChipAssumption ==
  /\ TXB_NUM \in Nat \ {0}
  /\ RxBufs \subseteq {0, 1}
  /\ Faults \subseteq {"MERR", "WAK"}
  /\ MaxSend \in Nat
  /\ MaxRecv \in Nat

Txb == 0 .. TXB_NUM - 1

(* Frames are numbered in the order they are offered or arrive; 0 is "no   *)
(* frame yet".                                                             *)
TxFrame == 0 .. MaxSend
RxFrame == 0 .. MaxRecv

VARIABLES txif,      \* CANINTF TXnIF: buffers whose flag is set
          rxif,      \* CANINTF RXnIF
          fault,     \* CANINTF MERRF, WAKIF, ERRIF
          eflg,      \* EFLG RXnOVR: buffers that overflowed
          txreq,     \* TXBnCTRL.TXREQ: buffers pending transmission
          txb,       \* contents of the TX buffers
          txp,       \* TXBnCTRL.TXP
          rxb,       \* contents of the RX buffers
          arrived    \* number of frames that came over the bus

intfVars == <<txif, rxif, fault>>
txChipVars == <<txreq, txb, txp>>
rxChipVars == <<rxb, eflg, arrived>>
chipVars == <<intfVars, txChipVars, rxChipVars>>

Mcp2515TypeOK ==
  /\ txif \subseteq Txb
  /\ rxif \subseteq {0, 1}
  /\ fault \subseteq {"MERR", "WAK", "ERR"}
  /\ eflg \subseteq {0, 1}
  /\ txreq \subseteq Txb
  /\ txb \in [Txb -> TxFrame]
  /\ txp \in [Txb -> 0 .. 3]
  /\ rxb \in [{0, 1} -> RxFrame]
  /\ arrived \in RxFrame

Mcp2515Init ==
  /\ txif = {} /\ rxif = {} /\ fault = {} /\ eflg = {}
  /\ txreq = {}
  /\ txb = [b \in Txb |-> 0]
  /\ txp = [b \in Txb |-> 0]
  /\ rxb = [r \in {0, 1} |-> 0]
  /\ arrived = 0

(* CANINTE as enable_intrrupt writes it: everything but the wake-up flag.  *)
PinLow(tx, rx, flt) == tx # {} \/ rx # {} \/ flt \ {"WAK"} # {}

(* The flags change, and with them the pin.                                *)
SetFlags(tx, rx, flt) ==
  /\ txif' = tx
  /\ rxif' = rx
  /\ fault' = flt
  /\ PinChange(PinLow(txif, rxif, fault), PinLow(tx, rx, flt))

gpioRest == <<irqMasked, canInt, canIntAck, gpioPc>>

-----------------------------------------------------------------------------
(* SPI instructions.                                                       *)

(* BIT MODIFY on CANINTF.                                                  *)
ClearTxif(bufs) == SetFlags(txif \ bufs, rxif, fault)
SetTxif(b) == SetFlags(txif \cup {b}, rxif, fault)
ClearFault(f) == SetFlags(txif, rxif, fault \ {f})

(* REQUEST TO SEND.                                                        *)
mcp2515_rts(bufs) == txreq' = txreq \cup bufs

(* LOAD TX BUFFER.  The controller wants TXREQ clear; what a write to a    *)
(* pending buffer does is open, the old or the new frame is then in it.    *)
mcp2515_load_txb(b, frm) ==
  \E content \in {frm} \cup (IF b \in txreq THEN {txb[b]} ELSE {}) :
    txb' = [txb EXCEPT ![b] = content]

(* Mutant: the instruction leaves the flag of the buffer set.              *)
mcp2515_read_rxb_KeepFlag(idx) == SetFlags(txif, rxif, fault)

(* READ RX BUFFER clears the flag of the buffer it reads when it ends.     *)
(* The instruction byte carries no index ("mask = 0"): whatever idx, it is *)
(* RXB0 that is read.                                                      *)
mcp2515_read_rxb(idx) == SetFlags(txif, rxif \ {0}, fault)
RxbRead(idx) == rxb[0]

-----------------------------------------------------------------------------
(* The bus.                                                                *)

(* A pending frame goes out; its buffer becomes empty.                     *)
TxDone(b) ==
  /\ b \in txreq
  /\ txreq' = txreq \ {b}
  /\ SetFlags(txif \cup {b}, rxif, fault)
  /\ UNCHANGED <<txb, txp, rxChipVars, gpioRest>>

(* A frame arrives for buffer r.  Rollover is off (enable_rollover is      *)
(* commented out), so a full buffer means an overflow and a lost frame.    *)
RxArrive(r) ==
  /\ arrived < MaxRecv
  /\ arrived' = arrived + 1
  /\ IF r \in rxif
     THEN /\ eflg' = eflg \cup {r}
          /\ SetFlags(txif, rxif, fault \cup {"ERR"})
          /\ UNCHANGED rxb
     ELSE /\ rxb' = [rxb EXCEPT ![r] = arrived + 1]
          /\ SetFlags(txif, rxif \cup {r}, fault)
          /\ UNCHANGED eflg
  /\ UNCHANGED <<txChipVars, gpioRest>>

(* A message error on the bus, or a wake-up flag "set by accident".        *)
RaiseFault(f) ==
  /\ f \notin fault
  /\ SetFlags(txif, rxif, fault \cup {f})
  /\ UNCHANGED <<txChipVars, rxChipVars, gpioRest>>

BusNext ==
  \/ \E b \in Txb : TxDone(b)
  \/ \E r \in RxBufs : RxArrive(r)
  \/ \E f \in Faults : RaiseFault(f)
=============================================================================
