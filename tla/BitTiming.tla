------------------------------ MODULE BitTiming ------------------------------
(***************************************************************************)
(* The bit timing of the CAN controller: set_baudrate and                  *)
(* hw_set_bit_timing of controller.c, and what the MCP2515 makes of the    *)
(* three registers.  Numbers of time quanta (TQ) and oscillator ticks.     *)
(***************************************************************************)
EXTENDS Integers

(* DIV_ROUND and NS_IN_S are of the platform's utilities.                  *)
DIV_ROUND(n, d) == (n + d \div 2) \div d
NS_IN_S == 1000000000

OSC_FREQ == 20000000
TIME_PER_TICK == DIV_ROUND(NS_IN_S, OSC_FREQ)
TqNums == 8 .. 25
SAMPLE_POINT == 30

Byte == 0 .. 2^8 - 1

(* How far a bit of n TQ is from a whole number of ticks in each TQ.       *)
TqError(baudrate, n) ==
  LET error == DIV_ROUND(DIV_ROUND(NS_IN_S, baudrate), n) % TIME_PER_TICK
  IN  IF 2 * error > TIME_PER_TICK THEN TIME_PER_TICK - error ELSE error

(* The search keeps the first number with the smallest error.              *)
TqNum(baudrate) ==
  CHOOSE n \in TqNums :
    \A other \in TqNums :
      /\ TqError(baudrate, n) <= TqError(baudrate, other)
      /\ TqError(baudrate, n) = TqError(baudrate, other) => n <= other

(* Two TQ of propagation segment, and the rest before the sample point.    *)
Segments(tqNum) ==
  LET phseg2 == DIV_ROUND(tqNum * SAMPLE_POINT, 100)
      rest == tqNum - 1 - 2 * phseg2
  IN  [propseg |-> IF rest > 2 THEN 2 ELSE rest,
       phseg1  |-> IF rest > 2 THEN phseg2 + rest - 2 ELSE phseg2,
       phseg2  |-> phseg2]

(* The fields do not overlap in what is ORed together for 8 to 25 TQ: with *)
(* sjw = 1 its field is 0, propseg - 1 is below 8 and phseg1 - 1 below 16. *)
hw_set_bit_timing(brp, seg) ==
  [cnf1 |-> (brp - 1) % 2^8,
   cnf2 |-> (2^7 + 8 * (seg.phseg1 - 1) + (seg.propseg - 1)) % 2^8,
   cnf3 |-> (seg.phseg2 - 1) % 2^8]

set_baudrate(baudrate) ==
  LET tqNum == TqNum(baudrate)
      brp == DIV_ROUND(OSC_FREQ, 2 * baudrate * tqNum) % 2^8
  IN  hw_set_bit_timing(brp, Segments(tqNum))

ResetTiming == [cnf1 |-> 0, cnf2 |-> 0, cnf3 |-> 0]
-----------------------------------------------------------------------------
(* What the controller takes from its registers: the lengths of a TQ in    *)
(* ticks, and of the segments in TQ.                                       *)
TqTicks(cnf) == 2 * ((cnf.cnf1 % 2^6) + 1)
PropSeg(cnf) == (cnf.cnf2 % 2^3) + 1
PhSeg1(cnf) == ((cnf.cnf2 \div 2^3) % 2^3) + 1
PhSeg2(cnf) == (cnf.cnf3 % 2^3) + 1

BeforeSample(cnf) == 1 + PropSeg(cnf) + PhSeg1(cnf)
BitTq(cnf) == BeforeSample(cnf) + PhSeg2(cnf)
BitTicks(cnf) == TqTicks(cnf) * BitTq(cnf)
=============================================================================
