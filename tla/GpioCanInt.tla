----------------------------- MODULE GpioCanInt ------------------------------
(***************************************************************************)
(* The gpio component's part in a CAN interrupt (components/gpio/src/      *)
(* gpio.c): the pin CAN1_INTn, configured for falling edges, latches an    *)
(* edge; the latched edge raises the group 5 interrupt; the handler emits  *)
(* CAN1Int and leaves the interrupt masked; the can component's IntAck     *)
(* clears the latch and, one step later, unmasks the interrupt.            *)
(*                                                                         *)
(* A CAmkES notification is one bit: emitting a pending one changes        *)
(* nothing.                                                                *)
(***************************************************************************)
CONSTANT OtherIrqs  \* the group's interrupt is also raised by something else

ASSUME GpioAssumption == OtherIrqs \in BOOLEAN

VARIABLES gpioPending,  \* the edge latch gpio_is_pending reads
          irqMasked,    \* the group 5 interrupt awaits its acknowledge
          canInt,       \* notification CAN1Int, gpio -> can
          canIntAck,    \* notification CANIntAck, can -> gpio
          gpioPc        \* where CANIntAck_handler, or the other branch of the
                        \*   interrupt handler, is

gpioVars == <<gpioPending, irqMasked, canInt, canIntAck, gpioPc>>

GpioTypeOK ==
  /\ gpioPending \in BOOLEAN
  /\ irqMasked \in BOOLEAN
  /\ canInt \in BOOLEAN
  /\ canIntAck \in BOOLEAN
  /\ gpioPc \in {"idle", "other", "cleared"}

GpioInit ==
  /\ gpioPending = FALSE
  /\ irqMasked = FALSE
  /\ canInt = FALSE
  /\ canIntAck = FALSE
  /\ gpioPc = "idle"

(* GPIO_DIR_IRQ_FALL: only the pin's going low is latched.                 *)
PinChange(wasLow, isLow) ==
  gpioPending' = (gpioPending \/ (~wasLow /\ isLow))

(* Mutant: the interrupt is acknowledged by the handler itself.            *)
GpioIrq_NotMasked ==
  /\ gpioPending
  /\ ~irqMasked
  /\ canInt' = TRUE
  /\ UNCHANGED <<gpioPending, irqMasked, canIntAck, gpioPc>>

(* irq_grp5_int_handle: the latch is pending ...                           *)
GpioIrq ==
  /\ gpioPending
  /\ ~irqMasked
  /\ irqMasked' = TRUE
  /\ canInt' = TRUE
  /\ UNCHANGED <<gpioPending, canIntAck, gpioPc>>

(* ... or it was not, when the handler looked; then it clears the latch,   *)
(* whatever has come meanwhile, and acknowledges the interrupt itself.     *)
GpioIrqOther ==
  /\ OtherIrqs
  /\ ~gpioPending
  /\ ~irqMasked
  /\ irqMasked' = TRUE
  /\ gpioPc' = "other"
  /\ UNCHANGED <<gpioPending, canInt, canIntAck>>

GpioOtherClear ==
  /\ gpioPc = "other"
  /\ gpioPending' = FALSE
  /\ gpioPc' = "cleared"
  /\ UNCHANGED <<irqMasked, canInt, canIntAck>>

(* CANIntAck_handler: gpio_pending_clear, then the acknowledge.            *)
GpioAckClear ==
  /\ canIntAck
  /\ gpioPc = "idle"
  /\ canIntAck' = FALSE
  /\ gpioPending' = FALSE
  /\ gpioPc' = "cleared"
  /\ UNCHANGED <<irqMasked, canInt>>

GpioAckUnmask ==
  /\ gpioPc = "cleared"
  /\ irqMasked' = FALSE
  /\ gpioPc' = "idle"
  /\ UNCHANGED <<gpioPending, canInt, canIntAck>>

GpioNext ==
  \/ GpioIrq \/ GpioIrqOther \/ GpioOtherClear
  \/ GpioAckClear \/ GpioAckUnmask
=============================================================================
