--------------------------- MODULE CanFilter_proof ---------------------------
(***************************************************************************)
(* For every set of bit rates and requests: the registers keep their types *)
(* and filter 3 is never given out, and the mode switches are those of     *)
(* CanMode, with what is proved about them.  The bit timing is computed    *)
(* for rates in use: one of them the driver misses.                        *)
(***************************************************************************)
EXTENDS CanFilter, CanMode_proof, WellFoundedInduction

LEMMA Powers == 2^8 = 256 /\ MaxSid \in Nat /\ MaxEid \in Nat
BY DEF MaxSid, MaxEid

LEMMA ZerosOK == ZeroId \in CanId /\ ZeroMask \in Part
BY Powers DEF ZeroId, ZeroMask, CanId, Part
-----------------------------------------------------------------------------
(* The search of set_baudrate ends with a number of TQ that it tried, and  *)
(* whatever the segments come to, bytes are written.                       *)
LEMMA LeastExists ==
  ASSUME NEW T, T \subseteq Nat, T # {}
  PROVE  \E x \in T : \A y \in T : x <= y
<1> DEFINE R == OpToRel(<, Nat)
<1>1. IsWellFoundedOn(R, Nat)
  BY NatLessThanWellFounded, PTL
<1>2. \A x, y \in Nat : y < x => <<y, x>> \in R
  BY DEF OpToRel
<1> HIDE DEF R
<1>3. PICK x \in T : \A y \in T : ~(<<y, x>> \in R)
  BY <1>1, WFMin
<1>4. \A y \in T : ~(y < x)
  BY <1>2, <1>3
<1>5. QED
  BY <1>4

LEMMA TqErrorOK ==
  ASSUME NEW b \in Nat \ {0}, NEW n \in TqNums
  PROVE  TqError(b, n) \in 0 .. 49
<1> DEFINE left == DIV_ROUND(DIV_ROUND(NS_IN_S, b), n) % TIME_PER_TICK
<1>1. NS_IN_S \in Nat /\ TIME_PER_TICK = 50
  BY SMT DEF NS_IN_S, OSC_FREQ, TIME_PER_TICK, DIV_ROUND
<1>2. n \in Nat \ {0}
  BY DEF TqNums
<1>3. left \in 0 .. 49
  <2>1. ASSUME NEW k \in Nat, NEW d \in Nat \ {0}
        PROVE  DIV_ROUND(k, d) \in Nat
    BY DEF DIV_ROUND
  <2>2. DIV_ROUND(DIV_ROUND(NS_IN_S, b), n) \in Nat
    BY <1>1, <1>2, <2>1
  <2>3. QED
    BY <1>1, <2>2
<1>4. TqError(b, n) = IF 2 * left > 50 THEN 50 - left ELSE left
  BY <1>1 DEF TqError
<1> HIDE DEF left
<1>5. QED
  BY <1>3, <1>4

LEMMA TqNumOK ==
  ASSUME NEW b \in Nat \ {0}
  PROVE  TqNum(b) \in TqNums
<1> DEFINE Errors == {TqError(b, n) : n \in TqNums}
           Best(e) == {n \in TqNums : TqError(b, n) = e}
<1>1. PICK e \in Errors : \A f \in Errors : e <= f
  <2>1. Errors \subseteq Nat /\ Errors # {}
    <3>1. 8 \in TqNums
      BY DEF TqNums
    <3>2. QED
      BY <3>1, TqErrorOK
  <2> HIDE DEF Errors
  <2>2. QED
    BY <2>1, LeastExists
<1>2. PICK n \in Best(e) : \A other \in Best(e) : n <= other
  <2>1. Best(e) \subseteq Nat /\ Best(e) # {}
    BY <1>1 DEF TqNums
  <2>2. QED
    BY <2>1, LeastExists
<1>3. \A other \in TqNums :
        /\ TqError(b, n) <= TqError(b, other)
        /\ TqError(b, n) = TqError(b, other) => n <= other
  BY <1>1, <1>2
<1>4. QED
  BY <1>2, <1>3 DEF TqNum

LEMMA TimingWritten ==
  ASSUME NEW b \in Bauds
  PROVE  set_baudrate(b) \in [cnf1 : Byte, cnf2 : Byte, cnf3 : Byte]
<1> DEFINE n == TqNum(b)
           brp == DIV_ROUND(OSC_FREQ, 2 * b * n) % 2^8
<1>1. b \in Nat \ {0}
  <2>1. MaxBaud \in Nat
    BY SMT DEF MaxBaud
  <2> QED BY <2>1, FilterAssumption
<1>2. n \in TqNums
  BY <1>1, TqNumOK
<1> HIDE DEF n
<1>3. brp \in Int
  <2>1. 2 * b * n \in Nat \ {0}
    BY <1>1, <1>2 DEF TqNums
  <2>2. DIV_ROUND(OSC_FREQ, 2 * b * n) \in Int
    BY <2>1, SMT DEF DIV_ROUND, OSC_FREQ
  <2>3. QED
    BY <2>2
<1> HIDE DEF brp
<1>4. /\ Segments(n).propseg \in Int
      /\ Segments(n).phseg1 \in Int
      /\ Segments(n).phseg2 \in Int
  BY <1>2 DEF Segments, DIV_ROUND, SAMPLE_POINT, TqNums
<1>5. ASSUME NEW x \in Int
      PROVE  x % 2^8 \in Byte
  BY Powers DEF Byte
<1>6. hw_set_bit_timing(brp, Segments(n))
        \in [cnf1 : Byte, cnf2 : Byte, cnf3 : Byte]
  <2>1. /\ (brp - 1) \in Int
        /\ (2^7 + 8 * (Segments(n).phseg1 - 1) + (Segments(n).propseg - 1)) \in Int
        /\ (Segments(n).phseg2 - 1) \in Int
    BY <1>3, <1>4
  <2>2. QED
    BY <1>5, <2>1 DEF hw_set_bit_timing
<1>7. QED
  BY <1>6 DEF set_baudrate, n, brp
(* Rounding a division that has no remainder changes nothing.              *)
LEMMA DivRoundExact ==
  ASSUME NEW k \in Nat, NEW d \in Nat \ {0}
  PROVE  DIV_ROUND(k * d, d) = k
<1> DEFINE r == d \div 2
           q == (k * d + r) \div d
<1>1. r \in Nat /\ r < d
  OBVIOUS
<1>2. ASSUME NEW s \in Nat, s < d
      PROVE  (k * d + s) \div d = k
  <2>0. k * d + s \in Nat
    OBVIOUS
  <2> DEFINE a == k * d + s
             e == a \div d
  <2>1. e \in Int /\ d * e <= a /\ a < d * (e + 1)
    BY <2>0
  <2> HIDE DEF e
  <2>2. ~(e < k)
    <3>1. ASSUME e < k PROVE FALSE
      <4>1. d * (e + 1) <= d * k
        BY <2>1, <3>1
      <4>2. QED BY <2>1, <4>1, <1>2
    <3>2. QED BY <3>1
  <2>3. ~(e > k)
    <3>1. ASSUME e > k PROVE FALSE
      <4>1. d * (k + 1) <= d * e
        BY <2>1, <3>1
      <4>2. d * (k + 1) = d * k + d
        OBVIOUS
      <4>3. QED BY <2>1, <4>1, <4>2, <1>2
    <3>2. QED BY <3>1
  <2>4. QED BY <2>1, <2>2, <2>3 DEF e
<1>3. QED
  BY <1>1, <1>2 DEF DIV_ROUND

(* The segments of a bit of up to 16 TQ: they add up, each fits its field, *)
(* and the sample point is where the comments of set_baudrate want it.     *)
LEMMA SegmentsRight ==
  ASSUME NEW n \in 8 .. 16
  PROVE  LET s == Segments(n)
         IN  /\ s.propseg = 2 /\ s.phseg1 \in 3 .. 8 /\ s.phseg2 \in 2 .. 5
             /\ 1 + s.propseg + s.phseg1 + s.phseg2 = n
             /\ s.propseg + s.phseg1 >= s.phseg2
             /\ 65 * n <= 100 * (n - s.phseg2) /\ 100 * (n - s.phseg2) <= 75 * n
BY DEF Segments, DIV_ROUND, SAMPLE_POINT

(* hw_set_bit_timing packs what the controller unpacks.                    *)
LEMMA RegistersRight ==
  ASSUME NEW brp \in 1 .. 64, NEW s,
         s.propseg = 2, s.phseg1 \in 3 .. 8, s.phseg2 \in 2 .. 5
  PROVE  LET c == hw_set_bit_timing(brp, s)
         IN  /\ TqTicks(c) = 2 * brp
             /\ PropSeg(c) = s.propseg
             /\ PhSeg1(c) = s.phseg1
             /\ PhSeg2(c) = s.phseg2
<1> DEFINE c == hw_set_bit_timing(brp, s)
<1>1. 2^2 = 4 /\ 2^3 = 8 /\ 2^6 = 64 /\ 2^7 = 128 /\ 2^8 = 256
  OBVIOUS
<1>2. c.cnf1 = brp - 1 /\ c.cnf3 = s.phseg2 - 1
  BY <1>1 DEF hw_set_bit_timing
<1>3. c.cnf2 = 128 + 8 * (s.phseg1 - 1) + 1
  BY <1>1 DEF hw_set_bit_timing
<1> HIDE DEF c
<1>4. QED
  BY <1>1, <1>2, <1>3 DEF TqTicks, PropSeg, PhSeg1, PhSeg2, c

(* The bit timing that set_baudrate writes is the one it was asked for     *)
(* (controller.c 189-204 and 246-261): the bit has exactly the length of   *)
(* the rate, its second phase segment has the two TQ the CAN specification *)
(* wants and is not longer than what comes before the sample point, which  *)
(* is around 70 % of the bit.                                              *)
RateMet(b) ==
  LET c == set_baudrate(b)
  IN  /\ BitTicks(c) * b = OSC_FREQ
      /\ PhSeg2(c) >= 2
      /\ PropSeg(c) + PhSeg1(c) >= PhSeg2(c)
      /\ BeforeSample(c) * 100 \in 65 * BitTq(c) .. 75 * BitTq(c)

(* It is when the number of TQ that the search finds fits the segments'    *)
(* fields, and that many TQ of a whole number of prescaled ticks are       *)
(* exactly one bit.                                                        *)
ExactRate(b) ==
  LET n == TqNum(b)
  IN  n <= 16 /\ \E brp \in 1 .. 64 : OSC_FREQ = brp * (2 * b * n)

LEMMA ExactTiming ==
  ASSUME NEW b \in Nat \ {0}, ExactRate(b)
  PROVE  RateMet(b)
<1> DEFINE n == TqNum(b)
           s == Segments(n)
           c == set_baudrate(b)
<1>1. n \in 8 .. 16
  BY TqNumOK DEF ExactRate, TqNums
<1>2. PICK brp \in 1 .. 64 : OSC_FREQ = brp * (2 * b * n)
  BY DEF ExactRate
<1> HIDE DEF n
<1>3. DIV_ROUND(OSC_FREQ, 2 * b * n) % 2^8 = brp
  <2> DEFINE d == 2 * b * n
  <2>1. brp \in Nat /\ d \in Nat \ {0} /\ OSC_FREQ = brp * d
    BY <1>1, <1>2
  <2> HIDE DEF d
  <2>2. DIV_ROUND(brp * d, d) = brp
    BY <2>1, DivRoundExact
  <2>3. DIV_ROUND(OSC_FREQ, d) % 2^8 = brp
    BY <2>1, <2>2, Powers
  <2>4. QED
    BY <2>3 DEF d
<1>4. c = hw_set_bit_timing(brp, s)
  BY <1>3 DEF set_baudrate, n
<1>5. /\ s.propseg = 2 /\ s.phseg1 \in 3 .. 8 /\ s.phseg2 \in 2 .. 5
      /\ 1 + s.propseg + s.phseg1 + s.phseg2 = n
      /\ s.propseg + s.phseg1 >= s.phseg2
      /\ 65 * n <= 100 * (n - s.phseg2) /\ 100 * (n - s.phseg2) <= 75 * n
  BY <1>1, SegmentsRight
<1> HIDE DEF s, c
<1>6. /\ TqTicks(c) = 2 * brp
      /\ PropSeg(c) = 2 /\ PhSeg1(c) = s.phseg1 /\ PhSeg2(c) = s.phseg2
  BY <1>4, <1>5, RegistersRight
<1>7. BitTq(c) = n /\ BeforeSample(c) = n - s.phseg2
  BY <1>1, <1>5, <1>6 DEF BitTq, BeforeSample
<1>8. BitTicks(c) * b = OSC_FREQ
  BY <1>1, <1>2, <1>6, <1>7 DEF BitTicks
<1>9. QED
  BY <1>1, <1>5, <1>6, <1>7, <1>8 DEF c, RateMet

(* A number of TQ without error, the first of its kind, is what the search *)
(* ends with.                                                              *)
LEMMA TqNumIs ==
  ASSUME NEW b \in Nat \ {0}, NEW n \in TqNums, TqError(b, n) = 0,
         \A m \in TqNums : m < n => TqError(b, m) # 0
  PROVE  TqNum(b) = n
<1>1. \A m \in TqNums :
        /\ TqError(b, n) <= TqError(b, m)
        /\ TqError(b, n) = TqError(b, m) => n <= m
  <2>1. \A m \in TqNums : m \in Nat /\ TqError(b, m) \in Nat
    BY TqErrorOK DEF TqNums
  <2>2. QED
    BY <2>1
<1>2. ASSUME NEW k \in TqNums,
             \A m \in TqNums :
               /\ TqError(b, k) <= TqError(b, m)
               /\ TqError(b, k) = TqError(b, m) => k <= m
      PROVE  k = n
  <2>1. TqError(b, k) \in Nat /\ TqError(b, k) <= 0
    BY <1>2, TqErrorOK
  <2>2. TqError(b, k) = 0
    BY <2>1
  <2>3. k <= n /\ ~(k < n)
    BY <1>2, <2>2
  <2>4. QED
    BY <2>3 DEF TqNums
<1>3. QED
  BY <1>1, <1>2 DEF TqNum

(* The rates, of those in use, that can_setup meets: 125000 is the one of  *)
(* the test application.                                                   *)
LEMMA ExactRates ==
  \A b \in {40000, 50000, 125000, 200000, 250000, 1000000} : ExactRate(b)
<1>2. NS_IN_S = 1000000000 /\ OSC_FREQ = 20000000 /\ TIME_PER_TICK = 50
  BY SMT DEF NS_IN_S, OSC_FREQ, TIME_PER_TICK, DIV_ROUND
<1>3. \A b \in {50000, 125000, 250000} : ExactRate(b)
  <2>1. \A b \in {50000, 125000, 250000} : TqError(b, 8) = 0
    BY <1>2, SMT DEF TqError, DIV_ROUND
  <2>2. \A b \in {50000, 125000, 250000} : TqNum(b) = 8
    BY TqNumIs, <2>1, SMT DEF TqNums
  <2>3. /\ OSC_FREQ = 25 * (2 * 50000 * 8)
        /\ OSC_FREQ = 10 * (2 * 125000 * 8)
        /\ OSC_FREQ = 5 * (2 * 250000 * 8)
    BY <1>2, SMT
  <2> QED BY <2>2, <2>3, SMT DEF ExactRate
<1>4. \A b \in {40000, 200000, 1000000} : ExactRate(b)
  <2>1. \A b \in {40000, 200000, 1000000} :
          /\ TqError(b, 10) = 0
          /\ TqError(b, 8) # 0
          /\ TqError(b, 9) # 0
    BY <1>2, SMT DEF TqError, DIV_ROUND
  <2>2. \A m \in TqNums : m < 10 => m = 8 \/ m = 9
    BY DEF TqNums
  <2>3. \A b \in {40000, 200000, 1000000} : TqNum(b) = 10
    BY TqNumIs, <2>1, <2>2, SMT DEF TqNums
  <2>4. /\ OSC_FREQ = 25 * (2 * 40000 * 10)
        /\ OSC_FREQ = 5 * (2 * 200000 * 10)
        /\ OSC_FREQ = 1 * (2 * 1000000 * 10)
    BY <1>2, SMT
  <2> QED BY <2>3, <2>4, SMT DEF ExactRate
<1> QED BY <1>3, <1>4

(* can_setup meets the usual rates, 125000 of the test application among   *)
(* them: the bit is as long as asked, with legal segments and the sample   *)
(* point around 70 % (set_baudrate and hw_set_bit_timing, controller.c).   *)
THEOREM RatesMet ==
  \A b \in {40000, 50000, 125000, 200000, 250000, 1000000} : RateMet(b)
<1>1. ASSUME NEW b \in {40000, 50000, 125000, 200000, 250000, 1000000}
      PROVE  RateMet(b)
  <2>1. ExactRate(b)
    BY ExactRates, SMT
  <2>2. b \in Nat \ {0}
    BY SMT
  <2> QED BY <2>1, <2>2, ExactTiming
<1> QED BY <1>1

(* It misses 500000.  The search ends at 8 TQ of five ticks, but a TQ is   *)
(* an even number of ticks, and the bit becomes one of 48 ticks, a rate of *)
(* 416667, although 10 TQ of four ticks would be exact: not "the BRP and   *)
(* number of TQ with minimum timing error" of controller.c 215.            *)
THEOREM RateMissed ==
  /\ BitTicks(set_baudrate(500000)) = 48
  /\ OSC_FREQ = 500000 * 40
  /\ \E brp \in 1 .. 64, n \in TqNums : 2 * brp * n = 40
<1> DEFINE b == 500000
           c == set_baudrate(b)
<1>1. NS_IN_S = 1000000000 /\ OSC_FREQ = 20000000 /\ TIME_PER_TICK = 50
  BY SMT DEF NS_IN_S, OSC_FREQ, TIME_PER_TICK, DIV_ROUND
<1>2. TqNum(b) = 8
  <2>1. TqError(b, 8) = 0
    BY <1>1, SMT DEF TqError, DIV_ROUND
  <2> QED BY TqNumIs, <2>1, SMT DEF TqNums
<1>3. DIV_ROUND(OSC_FREQ, 2 * b * 8) % 2^8 = 3
  <2>1. DIV_ROUND(OSC_FREQ, 2 * b * 8) = 3
    BY <1>1, SMT DEF DIV_ROUND
  <2> QED BY <2>1, Powers
<1>4. c = hw_set_bit_timing(3, Segments(8))
  BY <1>2, <1>3, SMT DEF set_baudrate
<1> HIDE DEF c, b
<1>5. /\ Segments(8).propseg = 2
      /\ Segments(8).phseg1 \in 3 .. 8 /\ Segments(8).phseg2 \in 2 .. 5
      /\ 1 + Segments(8).propseg + Segments(8).phseg1 + Segments(8).phseg2 = 8
  BY SegmentsRight
<1>6. /\ TqTicks(c) = 6
      /\ PropSeg(c) = 2
      /\ PhSeg1(c) = Segments(8).phseg1 /\ PhSeg2(c) = Segments(8).phseg2
  BY <1>4, <1>5, RegistersRight
<1>7. BitTicks(c) = 48
  BY <1>5, <1>6 DEF BitTicks, BitTq, BeforeSample
<1>8. 2 \in 1 .. 64 /\ 10 \in TqNums /\ 2 * 2 * 10 = 40
  BY DEF TqNums
<1>9. \E brp \in 1 .. 64, n \in TqNums : 2 * brp * n = 40
  BY <1>8
<1> QED BY <1>1, <1>7, <1>9, SMT DEF c, b
-----------------------------------------------------------------------------
(* The calls take the steps of CanMode, or none of them.                   *)
LEMMA ConfigStepIsModeStep == [ConfigNext]_configVars => [Next]_vars
<1> SUFFICES ASSUME [ConfigNext]_configVars PROVE [Next]_vars
  OBVIOUS
<1>1. ASSUME EndAccess PROVE Next
  BY <1>1 DEF EndAccess, Next, RpcStep
<1>2. ASSUME NextMask PROVE [Next]_vars
  BY <1>1, <1>2 DEF NextMask, Go
<1>3. ASSUME NEW c \in Setups \cap Calls, NEW b \in Bauds, Setup(c, b)
      PROVE  Next
  BY <1>3 DEF Setup, Next
<1>4. ASSUME "set" \in Calls, NEW r \in Requests, SetFilter(r)
      PROVE  Next
  BY <1>4 DEF SetFilter, Call, Next
<1>5. ASSUME "clear" \in Calls, NEW idx \in Filters, ClearFilter(idx)
      PROVE  Next
  BY <1>5 DEF ClearFilter, Call, Next
<1>6. ASSUME "disable" \in Calls, DisableFiltering
      PROVE  Next
  BY <1>6 DEF DisableFiltering, Call, Next
<1>7. CASE SetTiming
  BY <1>7 DEF SetTiming, Next, RpcStep
<1>8. CASE ReadMask
  BY <1>2, <1>8 DEF ReadMask, Go
<1>9. CASE ReadFilter
  BY <1>1, <1>2, <1>9 DEF ReadFilter, Go
<1>10. CASE WriteMask \/ WriteFilter \/ WriteMasks
  BY <1>1, <1>10 DEF WriteMask, WriteFilter, WriteMasks, Go
<1>11. CASE ModeStep
  BY <1>11 DEF ModeStep, Next, RpcStep
<1>12. CASE ControllerStep
  BY <1>12 DEF ControllerStep, Next
<1>13. CASE UNCHANGED configVars
  BY <1>13 DEF configVars
<1> QED
  BY <1>3, <1>4, <1>5, <1>6, <1>7, <1>8, <1>9, <1>10, <1>11, <1>12, <1>13
     DEF ConfigNext, ConfigStep

(* The configuration, with its registers, implements CanMode: what is      *)
(* proved of the modes holds of dev.c's calls with all their accesses.     *)
THEOREM ConfigImplementsMode == ConfigSpec => Spec
<1>1. ConfigInit => Init
  BY DEF ConfigInit
<1> QED BY <1>1, ConfigStepIsModeStep, PTL DEF ConfigSpec, Spec

(* The bit timing is written in configuration mode also between the filter *)
(* calls' accesses (can_setup and can_setup_loopback, dev.c).              *)
THEOREM ConfigTimingInConfig == ConfigSpec => []TimingInConfigMode
BY ConfigImplementsMode, TimingWrittenInConfig, PTL
-----------------------------------------------------------------------------
(* What a filter call is about to write.                                   *)
Pending ==
  /\ access # "none" /\ call = "set" => arg \in Requests
  /\ access = "write_mask" /\ call = "set" => filtIdx # StatusWord
  /\ pc \in {"wait_config", "timing"} => baudrate \in Bauds

ConfigInv == ConfigTypeOK /\ Pending

LEMMA ConfigInvInit == ConfigInit => ConfigInv
<1> SUFFICES ASSUME ConfigInit PROVE ConfigInv
  OBVIOUS
<1>1. ResetTiming \in [cnf1 : Byte, cnf2 : Byte, cnf3 : Byte]
  BY Powers DEF ResetTiming, Byte
<1> QED
  BY <1>1, ZerosOK, FilterAssumption
     DEF ConfigInit, Init, ConfigInv, ConfigTypeOK, Pending, NoneGiven,
         Filters, Masks

LEMMA ConfigInvStep == ConfigInv /\ [ConfigNext]_configVars => ConfigInv'
<1> SUFFICES ASSUME ConfigInv, [ConfigNext]_configVars PROVE ConfigInv'
  OBVIOUS
<1>0. /\ \A r \in Requests \cup {ZeroRequest} : r.id \in CanId /\ r.mask \in Part
      /\ ResetTiming \in [cnf1 : Byte, cnf2 : Byte, cnf3 : Byte]
  BY ZerosOK, Powers, FilterAssumption DEF ZeroRequest, ResetTiming, Byte
<1>1. ASSUME NEW next \in {"read_mask", "read_filter", "write_mask",
                           "write_filter"},
             NEW m \in Masks, NEW idx \in Filters, Go(next, m, idx),
             access # "none", UNCHANGED <<regVars, given, calls>>,
             next = "write_filter" => idx # StatusWord,
             next = "write_mask" /\ call = "set" => idx # StatusWord
      PROVE  ConfigInv'
  BY <1>1 DEF ConfigInv, ConfigTypeOK, Pending, Go, regVars, vars
<1>2. ASSUME EndAccess, UNCHANGED <<regVars, given, calls>>
      PROVE  ConfigInv'
  BY <1>2 DEF ConfigInv, ConfigTypeOK, Pending, EndAccess, Accessed, regVars,
     Masks, Filters
<1>3. ASSUME NextMask, access # "none", UNCHANGED <<regVars, given, calls>>
      PROVE  ConfigInv'
  <2>1. 1 \in Masks /\ filtIdx \in Filters
    BY DEF ConfigInv, ConfigTypeOK, Masks
  <2> QED BY <1>1, <1>2, <1>3, <2>1 DEF NextMask
<1>4. ASSUME NEW c \in Setups \cap Calls, NEW b \in Bauds, Setup(c, b)
      PROVE  ConfigInv'
  BY <1>0, <1>4, ZerosOK DEF Setup, Reset, accessVars, ConfigInv, ConfigTypeOK,
     Pending, NoneGiven, Filters, Masks
<1>5. ASSUME NEW c \in FilterCalls, NEW idx \in Filters,
             NEW first \in {"read_mask", "write_filter", "write_masks"},
             NEW a \in Requests \cup {ZeroRequest}, Call(c, first, idx, a),
             first = "write_filter" => idx # StatusWord,
             c = "set" => a \in Requests,
             DOMAIN given' \subseteq DOMAIN given,
             \A held \in DOMAIN given' : given'[held] = given[held]
      PROVE  ConfigInv'
  BY <1>5, FilterAssumption DEF Call, FilterCall, regVars, ConfigInv,
     ConfigTypeOK, Pending, Masks
<1>6. ASSUME NEW r \in Requests, SetFilter(r)
      PROVE  ConfigInv'
  BY <1>5, <1>6 DEF SetFilter, FilterCalls, Filters
<1>7. ASSUME NEW idx \in Filters, ClearFilter(idx)
      PROVE  ConfigInv'
  <2>1. idx # StatusWord
    BY <1>7 DEF ClearFilter, ConfigInv, ConfigTypeOK
  <2>2. /\ DOMAIN given' \subseteq DOMAIN given
        /\ \A held \in DOMAIN given' : given'[held] = given[held]
    BY <1>7 DEF ClearFilter
  <2> QED BY <1>5, <1>7, <2>1, <2>2 DEF ClearFilter, FilterCalls
<1>8. ASSUME DisableFiltering
      PROVE  ConfigInv'
  <2>1. /\ DOMAIN given' \subseteq DOMAIN given
        /\ \A held \in DOMAIN given' : given'[held] = given[held]
    BY <1>8 DEF DisableFiltering, NoneGiven
  <2> QED BY <1>5, <1>8, <2>1 DEF DisableFiltering, FilterCalls, Filters
<1>9. CASE SetTiming
  <2>1. baudrate \in Bauds
    BY <1>9 DEF SetTiming, SetBaudrate, ConfigInv, ConfigTypeOK, Pending
  <2>2. set_baudrate(baudrate) \in [cnf1 : Byte, cnf2 : Byte, cnf3 : Byte]
    BY <2>1, TimingWritten
  <2> QED BY <1>9, <2>2 DEF SetTiming, SetBaudrate, accessVars, ConfigInv,
          ConfigTypeOK, Pending
<1>10. CASE ReadMask
  <2>1. /\ access # "none" /\ maskIdx \in Masks
        /\ FirstFilter(maskIdx) \in Filters \ {StatusWord}
    BY <1>10 DEF ReadMask, ConfigInv, ConfigTypeOK, Masks, Filters,
       FirstFilter, StatusWord
  <2> QED BY <1>1, <1>3, <1>10, <2>1 DEF ReadMask
<1>11. CASE ReadFilter
  <2>1. access # "none" /\ maskIdx \in Masks /\ filtIdx \in Filters
    BY <1>11 DEF ReadFilter, ConfigInv, ConfigTypeOK
  <2>2. filtIdx < LastFilter(MaskOf(filtIdx)) => filtIdx + 1 \in Filters
    BY <2>1 DEF Filters, LastFilter, MaskOf
  <2>3. call = "set" /\ is_filter_empty(filtIdx) => filtIdx # StatusWord
    BY DEF is_filter_empty
  <2>4. call = "clear" => call # "set"
    OBVIOUS
  <2> QED BY <1>1, <1>2, <1>3, <1>11, <2>1, <2>2, <2>3, <2>4 DEF ReadFilter
<1>12. CASE WriteMask
  <2>1. /\ mask' \in [Masks -> Part] /\ filtIdx \in Filters
        /\ maskIdx \in Masks
        /\ call = "set" => filtIdx # StatusWord
    BY <1>0, <1>12 DEF WriteMask, ConfigInv, ConfigTypeOK, Pending
  <2>2. CASE call = "set" /\ Go("write_filter", maskIdx, filtIdx)
    BY <1>12, <2>1, <2>2 DEF WriteMask, Go, vars, ConfigInv, ConfigTypeOK,
       Pending
  <2>3. CASE EndAccess
    BY <1>12, <2>1, <2>3 DEF WriteMask, EndAccess, Accessed, ConfigInv,
       ConfigTypeOK, Pending, Masks, Filters
  <2> QED BY <1>12, <2>2, <2>3 DEF WriteMask
<1>13. CASE WriteFilter
  <2>1. /\ filter' \in [Filters -> CanId]
        /\ filtIdx \in Filters \ {StatusWord} /\ maskIdx \in Masks
        /\ call = "set" => arg \in Requests
    BY <1>0, <1>13 DEF WriteFilter, ConfigInv, ConfigTypeOK, Pending
  <2>2. CASE /\ call = "set" /\ EndAccess
             /\ given' = [idx \in DOMAIN given \cup {filtIdx} |->
                            IF idx = filtIdx THEN arg ELSE given[idx]]
    <3>1. /\ DOMAIN given' \subseteq Filters \ {StatusWord}
          /\ \A idx \in DOMAIN given' : given'[idx] \in Requests
      BY <2>1, <2>2 DEF ConfigInv, ConfigTypeOK
    <3> QED BY <1>13, <2>1, <2>2, <3>1 DEF WriteFilter, EndAccess, Accessed,
            ConfigInv, ConfigTypeOK, Pending, Masks, Filters
  <2>3. CASE /\ call = "clear"
             /\ Go("read_filter", maskIdx, FirstFilter(MaskOf(filtIdx)))
             /\ UNCHANGED given
    <3>1. FirstFilter(MaskOf(filtIdx)) \in Filters
      BY <2>1 DEF FirstFilter, MaskOf, Filters
    <3> QED BY <1>13, <2>1, <2>3, <3>1 DEF WriteFilter, Go, vars, ConfigInv,
            ConfigTypeOK, Pending
  <2> QED BY <1>13, <2>2, <2>3 DEF WriteFilter
<1>14. CASE WriteMasks
  <2>1. mask' \in [Masks -> Part]
    BY <1>14, ZerosOK DEF WriteMasks, ConfigInv, ConfigTypeOK
  <2> QED BY <1>14, <2>1 DEF WriteMasks, EndAccess, Accessed, ConfigInv,
          ConfigTypeOK, Pending, Masks, Filters
<1>15. CASE ModeStep \/ ControllerStep
  <2>1. /\ UNCHANGED filterVars
        /\ pc = "access" <=> pc' = "access"
        /\ pc' \in {"wait_config", "timing"} => pc \in {"wait_config", "timing"}
        /\ call' = call
    BY <1>15 DEF ModeStep, ControllerStep, WaitConfig, enable_intrrupt,
       SetRxMode, LeaveConfig, WaitLoop, Restarted, SwitchMode, FrameBegins,
       FrameEnds
  <2> QED BY <2>1 DEF filterVars, regVars, accessVars, ConfigInv, ConfigTypeOK,
          Pending
<1>16. CASE UNCHANGED configVars
  BY <1>16 DEF configVars, filterVars, regVars, accessVars, vars, ConfigInv,
     ConfigTypeOK, Pending
<1> QED
  BY <1>4, <1>6, <1>7, <1>8, <1>9, <1>10, <1>11, <1>12, <1>13, <1>14, <1>15,
     <1>16 DEF ConfigNext, ConfigStep

(* For every set of calls, rates and requests the registers keep their     *)
(* widths, and filter 3, which lies over the control registers, is neither *)
(* given out nor written, also when registers are read before the          *)
(* controller is in configuration mode (set_rx_filter, is_filter_empty).   *)
THEOREM ConfigTypeCorrect == ConfigSpec => []ConfigTypeOK
<1>1. ConfigInv => ConfigTypeOK
  BY DEF ConfigInv
<1> QED BY ConfigInvInit, ConfigInvStep, <1>1, PTL DEF ConfigSpec
=============================================================================
