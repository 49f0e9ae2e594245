------------------------- MODULE UartServer_proof -------------------------
(***************************************************************************)
(* For every number of UARTs, every number of bytes and every layout of    *)
(* the register banks: one wake-up is awaited for each call, and the call  *)
(* returns the count of a request that is over.  For a guest that leaves   *)
(* the plain registers alone: devices are set up before they are used and  *)
(* stay so.                                                                *)
(*                                                                         *)
(* The argument: a request is only in the driver, and its wake-up only on  *)
(* its way, while its own call waits (WakeupAwaited, CountInv).  What the  *)
(* interface thread of the clock component has read of the drivers' bits   *)
(* is still true when it writes them back, because the guest may not set   *)
(* or clear them and it is the only other writer (ReadBack); so each       *)
(* change it makes is still there at the next (Progress), and nobody       *)
(* changes a device that is set up (ReadyInv).  Only this part needs the   *)
(* hypothesis on the guest (NoPlainWrites).                                *)
(***************************************************************************)
EXTENDS UartServer, TLAPS

Drivers == Uarts \cup {Spi1}

NoPlainWrites == "plain" \notin GuestRegisters

Resets(d) == Changes(d)[carStep] \in {"reset", "release"}

ReadBack ==
  carDev # NoDevice /\ carPc = "write" =>
    /\ carReg \subseteq InBank(carDev)
    /\ \A x \in InBank(carDev) \ GuestDevices :
         x \in carReg <=> x \in (IF Resets(carDev) THEN rst ELSE enb)

Progress ==
  /\ carDev \in Uarts =>
       /\ carStep > 1 => carDev \in rst
       /\ carStep > 3 => src[carDev] = uart_source
       /\ carStep > 4 => carDev \in enb
  /\ carDev = Spi1 =>
       /\ carStep > 1 => Spi1 \in rst
       /\ carStep > 2 => Spi1 \in enb
       /\ carStep > 3 => src[Spi1] = SetupSource(Spi1)
       /\ carStep <= 3 => src[Spi1] = BootSource
  /\ spiUp = "no" => src[Spi1] = BootSource

SpiSteps == carDev = Spi1 => carStep <= 4

(* Whom the interface thread of the clock component serves.                *)
Serves ==
  /\ SpiSteps
  /\ carDev \in Uarts => rpcPc = "clocked" /\ call.uart = carDev
  /\ carDev = Spi1 => spiUp = "called"
  /\ rpcPc \in {"clock", "clocked", "cdev"} => call.uart \notin pinst

ReadyInv ==
  /\ DevicesReady
  /\ rpcPc = "clocked" /\ carDev # call.uart => Ready(call.uart)
  /\ spiUp = "called" /\ carDev # Spi1 => Ready(Spi1)

(* WakeupAwaited for one UART and direction, without sets.                 *)
OneWakeup(u, d) ==
  /\ Awaited(u, d) => \/ requested[<<u, d>>] > 0 \/ release[<<u, d>>] = 1
                      \/ irqPc[u] = Post(d) \/ syncMtx[<<u, d>>] = 1
  /\ requested[<<u, d>>] > 0 =>
       /\ Awaited(u, d) /\ release[<<u, d>>] = 0
       /\ irqPc[u] # Post(d) /\ syncMtx[<<u, d>>] = 0
  /\ release[<<u, d>>] = 1 =>
       Awaited(u, d) /\ irqPc[u] # Post(d) /\ syncMtx[<<u, d>>] = 0
  /\ irqPc[u] = Post(d) => Awaited(u, d) /\ syncMtx[<<u, d>>] = 0
  /\ syncMtx[<<u, d>>] = 1 => Awaited(u, d)

(* The driver's counts are those of the call.                              *)
CountInv(u, d) ==
  /\ requested[<<u, d>>] > 0 => requested[<<u, d>>] = call.nbytes
  /\ release[<<u, d>>] = 1 \/ irqPc[u] = Post(d) \/ syncMtx[<<u, d>>] = 1
       => /\ transfered[<<u, d>>] \in 1 .. call.nbytes
          /\ d = "write" => transfered[<<u, d>>] = call.nbytes

SlotInv == \A u \in Uarts, d \in Dir : OneWakeup(u, d) /\ CountInv(u, d)

CarInv == ReadBack /\ Progress /\ ReadyInv

LEMMA Facts ==
  /\ Uarts \subseteq Device /\ Spi1 \in Device /\ Spi1 \notin Uarts
  /\ NoDevice \notin Device
  /\ \A d \in Uarts \cup {Spi1} : d \notin GuestDevices /\ d \notin SourceDevices
  /\ \A d \in Uarts : d # NoDevice
  /\ Spi1 # NoDevice
BY ClkCarAssumption DEF Device

LEMMA UartChanges ==
  ASSUME carDev \in Uarts
  PROVE  /\ Changes(carDev)[1] = "reset" /\ Changes(carDev)[2] = "clock_off"
         /\ Changes(carDev)[3] = "source" /\ Changes(carDev)[4] = "clock_on"
         /\ Changes(carDev)[5] = "release" /\ Len(Changes(carDev)) = 5
BY Facts DEF Changes, clock_uart_init

LEMMA SpiChanges ==
  ASSUME carDev = Spi1
  PROVE  /\ Changes(carDev)[1] = "reset" /\ Changes(carDev)[2] = "clock_on"
         /\ Changes(carDev)[3] = "source" /\ Changes(carDev)[4] = "release"
         /\ Len(Changes(carDev)) = 4
BY DEF Changes, clkcar_spi_clk_init

LEMMA GuestSteps ==
  GuestStep => \/ \E bank \in SUBSET Device, register \in GuestRegisters,
                     value \in SUBSET Device : GuestWrite(bank, register, value)
               \/ \E d \in Device : GuestSource(d)
BY DEF GuestStep, InBank

(* A set or clear register leaves the devices alone that are not in the    *)
(* value.                                                                  *)
LEMMA GuestOthers ==
  ASSUME NoPlainWrites, NEW bank, NEW register \in GuestRegisters, NEW value,
         GuestWrite(bank, register, value), NEW x, x \notin GuestDevices
  PROVE  (x \in rst' <=> x \in rst) /\ (x \in enb' <=> x \in enb)
<1>1. /\ x \notin value
      /\ register \in {"set", "clear"}
  BY ClkCarAssumption DEF NoPlainWrites, GuestWrite, allow_enbrst
<1>2. \A old : x \in Written(old, bank, register, value) <=> x \in old
  BY <1>1 DEF Written
<1> QED BY <1>2 DEF GuestWrite

(* What the interface thread's writes do to the device it sets up, and to  *)
(* the other drivers' devices.                                             *)
LEMMA UartWrites ==
  ASSUME ClkCarTypeOK, CarWrite, Progress, carDev \in Uarts
  PROVE  /\ Progress'
         /\ \A x \in Drivers : x = carDev /\ carDev' # carDev => Ready(x)'
<1> USE DEF CarWrite, Progress, ClkCarTypeOK, Ready, Drivers, SetupSource
<1>0. /\ carDev # Spi1 /\ carDev \in Device /\ NoDevice \notin Uarts
      /\ NoDevice # Spi1 /\ carStep \in {1, 2, 3, 4, 5}
  BY Facts
<1>1. CASE carStep = 1
  <2>1. Changes(carDev)[carStep] = "reset"
    BY <1>1, UartChanges
  <2> QED BY <1>1, <1>0, <2>1, UartChanges
<1>2. CASE carStep = 2
  <2>1. Changes(carDev)[carStep] = "clock_off"
    BY <1>2, UartChanges
  <2> QED BY <1>2, <1>0, <2>1, UartChanges
<1>3. CASE carStep = 3
  <2>1. Changes(carDev)[carStep] = "source"
    BY <1>3, UartChanges
  <2> QED BY <1>3, <1>0, <2>1, UartChanges
<1>4. CASE carStep = 4
  <2>1. Changes(carDev)[carStep] = "clock_on"
    BY <1>4, UartChanges
  <2> QED BY <1>4, <1>0, <2>1, UartChanges
<1>5. CASE carStep = 5
  <2>1. Changes(carDev)[carStep] = "release"
    BY <1>5, UartChanges
  <2>2. carDev' = NoDevice /\ carStep' = 1
    BY <1>5, <2>1, UartChanges
  <2>3. carDev \notin rst' /\ enb' = enb /\ src' = src
    BY <1>0, <2>1 DEF InBank
  <2> QED BY <1>5, <1>0, <2>2, <2>3
<1> QED BY <1>0, <1>1, <1>2, <1>3, <1>4, <1>5

LEMMA SpiWrites ==
  ASSUME ClkCarTypeOK, CarWrite, Progress, SpiSteps, carDev = Spi1,
         spiUp = "called"
  PROVE  /\ Progress'
         /\ \A x \in Drivers : x = carDev /\ carDev' # carDev => Ready(x)'
<1> USE DEF CarWrite, Progress, ClkCarTypeOK, Ready, Drivers, SetupSource,
           SpiSteps
<1>0. /\ carDev \notin Uarts /\ carDev \in Device /\ NoDevice \notin Uarts
      /\ NoDevice # Spi1 /\ carStep \in {1, 2, 3, 4}
  BY Facts
<1>1. CASE carStep = 1
  <2>1. Changes(carDev)[carStep] = "reset"
    BY <1>1, SpiChanges
  <2> QED BY <1>1, <1>0, <2>1, SpiChanges
<1>2. CASE carStep = 2
  <2>1. Changes(carDev)[carStep] = "clock_on"
    BY <1>2, SpiChanges
  <2> QED BY <1>2, <1>0, <2>1, SpiChanges
<1>3. CASE carStep = 3
  <2>1. Changes(carDev)[carStep] = "source"
    BY <1>3, SpiChanges
  <2> QED BY <1>3, <1>0, <2>1, SpiChanges
<1>4. CASE carStep = 4
  <2>1. Changes(carDev)[carStep] = "release"
    BY <1>4, SpiChanges
  <2>2. carDev' = NoDevice /\ carStep' = 1
    BY <1>4, <2>1, SpiChanges
  <2>3. carDev \notin rst' /\ enb' = enb /\ src' = src
    BY <1>0, <2>1 DEF InBank
  <2> QED BY <1>4, <1>0, <2>2, <2>3
<1> QED BY <1>0, <1>1, <1>2, <1>3, <1>4

(* What is written back is what is there, but for the guest's devices.     *)
LEMMA BitsWrittenBack ==
  ASSUME CarWrite, ReadBack,
         NEW x \in Device \ GuestDevices, x # carDev
  PROVE  (x \in rst' <=> x \in rst) /\ (x \in enb' <=> x \in enb)
<1> DEFINE change == Changes(carDev)[carStep]
           other(reg) == reg \ InBank(carDev)
<1>1. /\ rst' = CASE change = "reset" -> other(rst) \cup carReg \cup {carDev}
                [] change = "release" -> other(rst) \cup (carReg \ {carDev})
                [] OTHER -> rst
      /\ enb' = CASE change = "clock_on" -> other(enb) \cup carReg \cup {carDev}
                [] change = "clock_off" -> other(enb) \cup (carReg \ {carDev})
                [] OTHER -> enb
  BY DEF CarWrite
<1>2. /\ carReg \subseteq InBank(carDev)
      /\ x \in InBank(carDev) =>
           (x \in carReg
              <=> x \in (IF change \in {"reset", "release"} THEN rst ELSE enb))
  BY DEF ReadBack, CarWrite, Resets
<1> HIDE DEF change
<1>3. x \in rst' <=> x \in rst
  BY <1>1, <1>2
<1>4. x \in enb' <=> x \in enb
  BY <1>1, <1>2
<1> QED BY <1>3, <1>4

LEMMA OthersUntouched ==
  ASSUME ClkCarTypeOK, CarWrite, ReadBack,
         NEW x \in Drivers, x # carDev
  PROVE  Ready(x)' <=> Ready(x)
<1>1. (x \in rst' <=> x \in rst) /\ (x \in enb' <=> x \in enb)
  BY Facts, BitsWrittenBack DEF Drivers
<1>2. src'[x] = src[x]
  BY Facts DEF CarWrite, ClkCarTypeOK, Drivers
<1> QED BY <1>1, <1>2 DEF Ready

LEMMA TypeInit == Init => TypeOK
BY ClkCarAssumption, UartAssumption
DEF Init, ClkCarInit, TypeOK, ClkCarTypeOK, Device, Dir

LEMMA StepsCounted ==
  ASSUME ClkCarTypeOK, SpiSteps, CarWrite
  PROVE  carStep' \in 1 .. 5 /\ SpiSteps'
<1>1. CASE carDev \in Uarts
  <2>1. Len(Changes(carDev)) = 5 /\ carDev # Spi1
    BY <1>1, UartChanges, Facts
  <2> QED BY <1>1, <2>1, Facts DEF CarWrite, ClkCarTypeOK, SpiSteps
<1>2. CASE carDev = Spi1
  <2>1. Len(Changes(carDev)) = 4
    BY <1>2, SpiChanges
  <2> QED BY <1>2, <2>1, Facts DEF CarWrite, ClkCarTypeOK, SpiSteps
<1> QED BY <1>1, <1>2 DEF CarWrite, ClkCarTypeOK

LEMMA HandledTypes ==
  ASSUME TypeOK, NEW v \in Uarts, IrqHandle(v)
  PROVE  /\ requested' \in [Uarts \X Dir -> 0 .. MaxBytes]
         /\ transfered' \in [Uarts \X Dir -> 0 .. MaxBytes]
         /\ release' \in [Uarts \X Dir -> {0, 1}]
<1> DEFINE served == {v} \X irqFor[v]
<1>1. PICK done \in [irqFor[v] -> 0 .. MaxBytes], over \in SUBSET served :
        /\ release' = [t \in Uarts \X Dir |->
             IF t \in over THEN CallBack(requested[t], release[t])
                           ELSE release[t]]
        /\ transfered' = [t \in Uarts \X Dir |->
             IF t \in served /\ requested[t] > 0
             THEN done[t[2]] ELSE transfered[t]]
        /\ requested' = [t \in Uarts \X Dir |->
             IF t \in over THEN 0 ELSE requested[t]]
  BY DEF IrqHandle
<1>2. /\ requested \in [Uarts \X Dir -> 0 .. MaxBytes] /\ 0 \in 0 .. MaxBytes
      /\ transfered \in [Uarts \X Dir -> 0 .. MaxBytes]
      /\ release \in [Uarts \X Dir -> {0, 1}]
  BY UartAssumption DEF TypeOK
<1>3. \A t \in served : done[t[2]] \in 0 .. MaxBytes
  OBVIOUS
<1>4. requested' \in [Uarts \X Dir -> 0 .. MaxBytes]
  BY <1>1, <1>2
<1>5. transfered' \in [Uarts \X Dir -> 0 .. MaxBytes]
  BY <1>1, <1>2, <1>3
<1>6. release' \in [Uarts \X Dir -> {0, 1}]
  BY <1>1, <1>2 DEF CallBack
<1> QED BY <1>4, <1>5, <1>6

LEMMA TypeStep == TypeOK /\ Serves /\ [Next]_vars => TypeOK'
<1> SUFFICES ASSUME TypeOK, Serves, [Next]_vars PROVE TypeOK'
  OBVIOUS
<1>a. \A f \in [Uarts \X Dir -> 0 .. MaxBytes], s \in Uarts \X Dir,
         n \in 0 .. MaxBytes :
        [f EXCEPT ![s] = n] \in [Uarts \X Dir -> 0 .. MaxBytes]
  OBVIOUS
<1>b. transfered \in [Uarts \X Dir -> 0 .. MaxBytes]
  BY DEF TypeOK
<1> USE Facts, ClkCarAssumption, UartAssumption
    DEF TypeOK, ClkCarTypeOK, Calls, Dir, rpcVars, descVars, irqVars, carVars,
        guestVars, threadVars, uartVars, Slot, After, Post
<1>0. CASE UNCHANGED vars
  BY <1>0 DEF vars
<1>1. ASSUME NEW c \in Calls, RpcCall(c) PROVE TypeOK'
  BY <1>1 DEF RpcCall
<1>2. ASSUME RpcLock PROVE TypeOK'
  BY <1>2 DEF RpcLock
<1>3. ASSUME RpcClock PROVE TypeOK'
  BY <1>3 DEF RpcClock, CarAccept
<1>4. ASSUME RpcClocked PROVE TypeOK'
  BY <1>4 DEF RpcClocked
<1>5. ASSUME RpcCdevInit PROVE TypeOK'
  BY <1>5 DEF RpcCdevInit
<1>6. ASSUME RpcCdevFails PROVE TypeOK'
  BY <1>6 DEF RpcCdevFails
<1>7. ASSUME RpcXfer PROVE TypeOK'
  <2>1. call \in Calls /\ call.nbytes \in 0 .. MaxBytes
    BY <1>7 DEF RpcXfer
  <2>2. <<call.uart, call.dir>> \in Uarts \X Dir /\ 0 \in 0 .. MaxBytes
    BY <2>1
  <2>3. requested' \in [Uarts \X Dir -> 0 .. MaxBytes]
    BY <1>7, <2>1, <2>2 DEF RpcXfer
  <2>4. transfered' \in [Uarts \X Dir -> 0 .. MaxBytes]
    <3>1. transfered' \in {transfered, [transfered EXCEPT ![Slot] = 0]}
      BY <1>7 DEF RpcXfer
    <3> HIDE DEF TypeOK, ClkCarTypeOK, Dir, Slot
    <3> QED BY <3>1, <2>2, <1>a, <1>b DEF Slot
  <2> QED BY <1>7, <2>3, <2>4 DEF RpcXfer
<1>8. ASSUME RpcUnlock PROVE TypeOK'
  BY <1>8 DEF RpcUnlock
<1>9. ASSUME RpcWait PROVE TypeOK'
  BY <1>9 DEF RpcWait
<1>10. ASSUME NEW v \in Uarts, IrqLock(v) \/ IrqAbort(v) PROVE TypeOK'
  BY <1>10 DEF IrqLock, IrqAbort
<1>11. ASSUME NEW v \in Uarts, IrqHandle(v) PROVE TypeOK'
  <2>1. /\ requested' \in [Uarts \X Dir -> 0 .. MaxBytes]
        /\ transfered' \in [Uarts \X Dir -> 0 .. MaxBytes]
        /\ release' \in [Uarts \X Dir -> {0, 1}]
    <3> HIDE DEF TypeOK
    <3> QED BY <1>11, HandledTypes
  <2> QED BY <1>11, <2>1 DEF IrqHandle
<1>12. ASSUME NEW v \in Uarts, IrqUnlock(v) PROVE TypeOK'
  BY <1>12 DEF IrqUnlock
<1>13. ASSUME NEW v \in Uarts, NEW e \in Dir, IrqTest(v, e) PROVE TypeOK'
  BY <1>13 DEF IrqTest
<1>14. ASSUME NEW v \in Uarts, NEW e \in Dir, IrqPost(v, e) PROVE TypeOK'
  BY <1>14 DEF IrqPost
<1>15. ASSUME NEW v \in Uarts, NEW e \in Dir, Interrupt(v, e) PROVE TypeOK'
  BY <1>15 DEF Interrupt
<1>16. ASSUME SpiCall, UNCHANGED uartVars PROVE TypeOK'
  BY <1>16 DEF SpiCall, CarAccept
<1>17. ASSUME SpiReturn, UNCHANGED uartVars PROVE TypeOK'
  BY <1>17 DEF SpiReturn
<1>18. ASSUME CarRead, UNCHANGED uartVars PROVE TypeOK'
  BY <1>18 DEF CarRead
<1>19. ASSUME CarWrite, UNCHANGED uartVars PROVE TypeOK'
  <2>1. carDev \in Uarts \cup {Spi1} /\ carDev \in Device
    BY <1>19 DEF CarWrite
  <2>2. rst' \subseteq Device /\ enb' \subseteq Device
    BY <1>19, <2>1 DEF CarWrite
  <2>3. src' \in [Device -> SUBSET (0 .. 31)]
    <3>1. src[carDev] \cup {31, 30, 0} \in SUBSET (0 .. 31) /\ {1} \in SUBSET (0 .. 31)
      BY <2>1
    <3> QED BY <1>19, <2>1, <3>1 DEF CarWrite, uart_source, spi_source
  <2>4. carDev' \in Uarts \cup {Spi1, NoDevice} /\ carStep' \in 1 .. 5
    BY <1>19, <2>1, StepsCounted DEF CarWrite, Serves
  <2> QED BY <1>19, <2>2, <2>3, <2>4 DEF CarWrite
<1>20. ASSUME NEW bank \in SUBSET Device, NEW register \in GuestRegisters,
             NEW value \in SUBSET Device, GuestWrite(bank, register, value),
             UNCHANGED uartVars
      PROVE  TypeOK'
  <2>1. \A old \in SUBSET Device : Written(old, bank, register, value) \subseteq Device
    BY DEF Written
  <2> QED BY <1>20, <2>1 DEF GuestWrite
<1>21. ASSUME NEW x \in Device, GuestSource(x), UNCHANGED uartVars
      PROVE  TypeOK'
  BY <1>21 DEF GuestSource, allow_source
<1> HIDE DEF TypeOK, ClkCarTypeOK
<1> QED
  BY <1>0, <1>1, <1>2, <1>3, <1>4, <1>5, <1>6, <1>7, <1>8, <1>9, <1>10,
     <1>11, <1>12, <1>13, <1>14, <1>15, <1>16, <1>17, <1>18, <1>19, <1>20, <1>21, GuestSteps
  DEF Next, RpcStep, IrqStep, CarStep


-----------------------------------------------------------------------------
SlotTypes ==
  \A u \in Uarts, d \in Dir :
    /\ requested[<<u, d>>] \in Nat
    /\ release[<<u, d>>] \in {0, 1}
    /\ syncMtx[<<u, d>>] \in {0, 1}

LEMMA TypeSlots == TypeOK => SlotTypes
BY UartAssumption DEF TypeOK, SlotTypes

LEMMA WakeupMembers ==
  ASSUME SlotTypes, NEW u \in Uarts, NEW d \in Dir
  PROVE  /\ "request" \in Wakeups(u, d) <=> requested[<<u, d>>] > 0
         /\ "flag" \in Wakeups(u, d) <=> release[<<u, d>>] = 1
         /\ "post" \in Wakeups(u, d) <=> irqPc[u] = Post(d)
         /\ "mutex" \in Wakeups(u, d) <=> syncMtx[<<u, d>>] = 1
         /\ Wakeups(u, d) \subseteq Wakeup
         /\ release[<<u, d>>] # 1 <=> release[<<u, d>>] = 0
         /\ syncMtx[<<u, d>>] # 1 <=> syncMtx[<<u, d>>] = 0
<1> DEFINE r == requested[<<u, d>>]
           f == release[<<u, d>>]
           p == irqPc[u] = Post(d)
           m == syncMtx[<<u, d>>]
<1>1. Wakeups(u, d) =
        {w \in Wakeup : \/ w = "request" /\ r > 0
                        \/ w = "flag" /\ f = 1
                        \/ w = "post" /\ p
                        \/ w = "mutex" /\ m = 1}
  BY DEF Wakeups
<1>2. f \in {0, 1} /\ m \in {0, 1}
  BY DEF SlotTypes
<1> HIDE DEF r, f, p, m
<1>3. /\ "request" \in Wakeups(u, d) <=> r > 0
      /\ "flag" \in Wakeups(u, d) <=> f = 1
      /\ "post" \in Wakeups(u, d) <=> p
      /\ "mutex" \in Wakeups(u, d) <=> m = 1
  BY <1>1 DEF Wakeup
<1>4. Wakeups(u, d) \subseteq Wakeup
  BY <1>1
<1> QED BY <1>2, <1>3, <1>4 DEF r, f, p, m

LEMMA SlotInvAwaited == TypeOK /\ SlotInv => WakeupAwaited
<1> SUFFICES ASSUME TypeOK, SlotInv, NEW u \in Uarts, NEW d \in Dir
             PROVE  /\ Awaited(u, d) => \E w \in Wakeup : Wakeups(u, d) = {w}
                    /\ ~ Awaited(u, d) => Wakeups(u, d) = {}
  BY DEF WakeupAwaited
<1>1. OneWakeup(u, d)
  BY DEF SlotInv
<1> QED BY <1>1, TypeSlots, WakeupMembers DEF OneWakeup, Wakeup

LEMMA SlotInit == Init => SlotInv
BY DEF Init, SlotInv, OneWakeup, CountInv, Awaited, Post, Dir

(* What ps_cdev_handle_irq does to one direction: nothing, move bytes, or  *)
(* end the request and set its flag.                                       *)
SlotStill(s) ==
  /\ requested'[s] = requested[s]
  /\ transfered'[s] = transfered[s]
  /\ release'[s] = release[s]

SlotMoved(s) ==
  /\ requested[s] > 0
  /\ requested'[s] = requested[s]
  /\ release'[s] = release[s]

SlotOver(s) ==
  /\ requested[s] > 0
  /\ requested'[s] = 0
  /\ release'[s] = 1
  /\ transfered'[s] \in 1 .. requested[s]
  /\ s[2] = "write" => transfered'[s] = requested[s]

LEMMA HandledSlot ==
  ASSUME TypeOK, NEW v \in Uarts, IrqHandle(v),
         NEW u \in Uarts, NEW d \in {"write", "read"}
  PROVE  SlotStill(<<u, d>>) \/ SlotMoved(<<u, d>>) \/ SlotOver(<<u, d>>)
<1> DEFINE s == <<u, d>>
           served == {v} \X irqFor[v]
<1>1. PICK done \in [irqFor[v] -> 0 .. MaxBytes], over \in SUBSET served :
        /\ \A t \in served :
             /\ IF requested[t] = 0 THEN done[t[2]] = 0
                ELSE done[t[2]] \in transfered[t] + 1 .. requested[t]
             /\ done[t[2]] = requested[t] => t \in over
             /\ t \in over => MayEnd(t, done[t[2]])
        /\ release' = [t \in Uarts \X Dir |->
             IF t \in over THEN CallBack(requested[t], release[t])
                           ELSE release[t]]
        /\ transfered' = [t \in Uarts \X Dir |->
             IF t \in served /\ requested[t] > 0
             THEN done[t[2]] ELSE transfered[t]]
        /\ requested' = [t \in Uarts \X Dir |->
             IF t \in over THEN 0 ELSE requested[t]]
  BY DEF IrqHandle
<1>2. /\ s \in Uarts \X Dir /\ s[2] = d
      /\ requested[s] \in Nat /\ transfered[s] \in Nat
  BY UartAssumption DEF TypeOK, Dir
<1> HIDE DEF s
<1>3. /\ release'[s] = IF s \in over THEN CallBack(requested[s], release[s])
                                     ELSE release[s]
      /\ transfered'[s] = IF s \in served /\ requested[s] > 0
                          THEN done[s[2]] ELSE transfered[s]
      /\ requested'[s] = IF s \in over THEN 0 ELSE requested[s]
  BY <1>1, <1>2
<1>4. CASE s \notin over
  <2>1. CASE requested[s] = 0
    BY <1>2, <1>3, <1>4, <2>1 DEF SlotStill, s
  <2>2. CASE requested[s] > 0
    BY <1>2, <1>3, <1>4, <2>2 DEF SlotMoved, s
  <2> QED BY <1>2, <2>1, <2>2 DEF s
<1>5. CASE s \in over /\ requested[s] = 0
  BY <1>2, <1>3, <1>5 DEF SlotStill, CallBack, s
<1>6. CASE s \in over /\ requested[s] > 0
  <2>1. s \in served
    BY <1>6
  <2>2. /\ done[s[2]] \in transfered[s] + 1 .. requested[s]
        /\ MayEnd(s, done[s[2]])
    BY <1>1, <1>6, <2>1
  <2>3. /\ done[s[2]] \in 1 .. requested[s]
        /\ s[2] = "write" => done[s[2]] = requested[s]
    BY <1>2, <2>2 DEF MayEnd
  <2> QED BY <1>3, <1>6, <2>1, <2>3 DEF SlotOver, CallBack, s
<1> QED BY <1>2, <1>4, <1>5, <1>6

LEMMA WakeupStep == TypeOK /\ SlotInv /\ [Next]_vars
                      => \A u \in Uarts, d \in {"write", "read"} : OneWakeup(u, d)'
<1> SUFFICES ASSUME TypeOK, SlotInv, [Next]_vars,
                    NEW u \in Uarts, NEW d \in {"write", "read"}
             PROVE  OneWakeup(u, d)'
  OBVIOUS
<1>a. OneWakeup(u, d)
  BY DEF SlotInv, Dir
<1> USE <1>a, UartAssumption
    DEF TypeOK, OneWakeup, Awaited, Calls, Dir, rpcVars, descVars, irqVars,
        Slot, After, Post
<1>0. CASE UNCHANGED vars
  BY <1>0 DEF vars
<1>1. ASSUME NEW c \in Calls, RpcCall(c) PROVE OneWakeup(u, d)'
  BY <1>1 DEF RpcCall
<1>2. ASSUME RpcLock PROVE OneWakeup(u, d)'
  BY <1>2 DEF RpcLock
<1>3. ASSUME RpcClock PROVE OneWakeup(u, d)'
  BY <1>3 DEF RpcClock, CarAccept
<1>4. ASSUME RpcClocked PROVE OneWakeup(u, d)'
  BY <1>4 DEF RpcClocked
<1>5. ASSUME RpcCdevInit PROVE OneWakeup(u, d)'
  BY <1>5 DEF RpcCdevInit
<1>6. ASSUME RpcCdevFails PROVE OneWakeup(u, d)'
  BY <1>6 DEF RpcCdevFails
<1>7. ASSUME RpcXfer PROVE OneWakeup(u, d)'
  <2>1. CASE u = call.uart /\ d = call.dir
    <3>1. CASE ret' = "ok"
      BY <1>7, <2>1, <3>1 DEF RpcXfer
    <3>2. CASE ret' = "err"
      BY <1>7, <2>1, <3>2 DEF RpcXfer
    <3> QED BY <1>7, <3>1, <3>2 DEF RpcXfer
  <2>2. CASE ~ (u = call.uart /\ d = call.dir)
    <3>1. requested'[<<u, d>>] = requested[<<u, d>>]
      BY <1>7, <2>2 DEF RpcXfer
    <3> QED BY <1>7, <2>2, <3>1 DEF RpcXfer
  <2> QED BY <2>1, <2>2
<1>8. ASSUME RpcUnlock PROVE OneWakeup(u, d)'
  BY <1>8 DEF RpcUnlock
<1>9. ASSUME RpcWait PROVE OneWakeup(u, d)'
  <2>1. CASE u = call.uart /\ d = call.dir
    BY <1>9, <2>1 DEF RpcWait
  <2>2. CASE ~ (u = call.uart /\ d = call.dir)
    <3>1. syncMtx'[<<u, d>>] = syncMtx[<<u, d>>]
      BY <1>9, <2>2 DEF RpcWait
    <3> QED BY <1>9, <2>2, <3>1 DEF RpcWait
  <2> QED BY <2>1, <2>2
<1>10. ASSUME NEW v \in Uarts, IrqLock(v) \/ IrqAbort(v)
      PROVE  OneWakeup(u, d)'
  BY <1>10 DEF IrqLock, IrqAbort
<1>11. ASSUME NEW v \in Uarts, IrqHandle(v) PROVE OneWakeup(u, d)'
  <2>1. /\ irqPc[v] = "handle" /\ irqPc' = [irqPc EXCEPT ![v] = "unlock"]
        /\ UNCHANGED <<rpcPc, ret, call, syncMtx>>
    BY <1>11 DEF IrqHandle
  <2>2. irqPc'[u] = Post(d) <=> irqPc[u] = Post(d)
    BY <2>1
  <2>3. SlotStill(<<u, d>>) \/ SlotMoved(<<u, d>>) \/ SlotOver(<<u, d>>)
    BY <1>11, HandledSlot
  <2>4. CASE SlotStill(<<u, d>>)
    BY <2>1, <2>2, <2>4 DEF SlotStill
  <2>5. CASE SlotMoved(<<u, d>>)
    BY <2>1, <2>2, <2>5 DEF SlotMoved
  <2>6. CASE SlotOver(<<u, d>>)
    BY <2>1, <2>2, <2>6 DEF SlotOver
  <2> QED BY <2>3, <2>4, <2>5, <2>6
<1>12. ASSUME NEW v \in Uarts, IrqUnlock(v) PROVE OneWakeup(u, d)'
  BY <1>12 DEF IrqUnlock
<1>13. ASSUME NEW v \in Uarts, NEW e \in Dir, IrqTest(v, e)
      PROVE  OneWakeup(u, d)'
  BY <1>13 DEF IrqTest
<1>14. ASSUME NEW v \in Uarts, NEW e \in Dir, IrqPost(v, e)
      PROVE  OneWakeup(u, d)'
  BY <1>14 DEF IrqPost
<1>15. ASSUME NEW v \in Uarts, NEW e \in Dir, Interrupt(v, e)
      PROVE  OneWakeup(u, d)'
  BY <1>15 DEF Interrupt
<1>16. ASSUME (CarStep \/ GuestStep) /\ UNCHANGED uartVars
      PROVE  OneWakeup(u, d)'
  BY <1>16 DEF uartVars
<1> HIDE DEF OneWakeup, TypeOK
<1> QED
  BY <1>0, <1>1, <1>2, <1>3, <1>4, <1>5, <1>6, <1>7, <1>8, <1>9, <1>10,
     <1>11, <1>12, <1>13, <1>14, <1>15, <1>16
  DEF Next, RpcStep, IrqStep, CarStep, GuestStep


LEMMA CountStep == TypeOK /\ SlotInv /\ [Next]_vars
                     => \A u \in Uarts, d \in {"write", "read"} : CountInv(u, d)'
<1> SUFFICES ASSUME TypeOK, SlotInv, [Next]_vars,
                    NEW u \in Uarts, NEW d \in {"write", "read"}
             PROVE  CountInv(u, d)'
  OBVIOUS
<1>a. OneWakeup(u, d) /\ CountInv(u, d)
  BY DEF SlotInv, Dir
<1> USE <1>a, UartAssumption
    DEF TypeOK, OneWakeup, CountInv, Awaited, Calls, Dir, rpcVars, descVars,
        irqVars, Slot, After, Post
<1>0. CASE UNCHANGED vars
  BY <1>0 DEF vars
<1>1. ASSUME NEW c \in Calls, RpcCall(c) PROVE CountInv(u, d)'
  BY <1>1 DEF RpcCall
<1>2. ASSUME RpcLock PROVE CountInv(u, d)'
  BY <1>2 DEF RpcLock
<1>3. ASSUME RpcClock PROVE CountInv(u, d)'
  BY <1>3 DEF RpcClock, CarAccept
<1>4. ASSUME RpcClocked PROVE CountInv(u, d)'
  BY <1>4 DEF RpcClocked
<1>5. ASSUME RpcCdevInit PROVE CountInv(u, d)'
  BY <1>5 DEF RpcCdevInit
<1>6. ASSUME RpcCdevFails PROVE CountInv(u, d)'
  BY <1>6 DEF RpcCdevFails
<1>7. ASSUME RpcXfer PROVE CountInv(u, d)'
  <2>1. CASE u = call.uart /\ d = call.dir
    <3>1. CASE ret' = "ok"
      BY <1>7, <2>1, <3>1 DEF RpcXfer
    <3>2. CASE ret' = "err"
      BY <1>7, <2>1, <3>2 DEF RpcXfer
    <3> QED BY <1>7, <3>1, <3>2 DEF RpcXfer
  <2>2. CASE ~ (u = call.uart /\ d = call.dir)
    <3>1. /\ requested'[<<u, d>>] = requested[<<u, d>>]
          /\ transfered'[<<u, d>>] = transfered[<<u, d>>]
      BY <1>7, <2>2 DEF RpcXfer
    <3> QED BY <1>7, <2>2, <3>1 DEF RpcXfer
  <2> QED BY <2>1, <2>2
<1>8. ASSUME RpcUnlock PROVE CountInv(u, d)'
  BY <1>8 DEF RpcUnlock
<1>9. ASSUME RpcWait PROVE CountInv(u, d)'
  <2>1. CASE u = call.uart /\ d = call.dir
    BY <1>9, <2>1 DEF RpcWait
  <2>2. CASE ~ Awaited(u, d)
    BY <1>9, <2>2 DEF RpcWait
  <2> QED BY <1>9, <2>1, <2>2 DEF RpcWait
<1>10. ASSUME NEW v \in Uarts, IrqLock(v) \/ IrqAbort(v)
      PROVE  CountInv(u, d)'
  BY <1>10 DEF IrqLock, IrqAbort
<1>11. ASSUME NEW v \in Uarts, IrqHandle(v) PROVE CountInv(u, d)'
  <2>1. /\ irqPc[v] = "handle" /\ irqPc' = [irqPc EXCEPT ![v] = "unlock"]
        /\ UNCHANGED <<rpcPc, ret, call, syncMtx>>
    BY <1>11 DEF IrqHandle
  <2>2. irqPc'[u] = Post(d) <=> irqPc[u] = Post(d)
    BY <2>1
  <2>3. SlotStill(<<u, d>>) \/ SlotMoved(<<u, d>>) \/ SlotOver(<<u, d>>)
    BY <1>11, HandledSlot
  <2>4. CASE SlotStill(<<u, d>>)
    BY <2>1, <2>2, <2>4 DEF SlotStill
  <2>5. CASE SlotMoved(<<u, d>>)
    BY <2>1, <2>2, <2>5 DEF SlotMoved
  <2>6. CASE SlotOver(<<u, d>>)
    BY <2>1, <2>2, <2>6 DEF SlotOver
  <2> QED BY <2>3, <2>4, <2>5, <2>6
<1>12. ASSUME NEW v \in Uarts, IrqUnlock(v) PROVE CountInv(u, d)'
  BY <1>12 DEF IrqUnlock
<1>13. ASSUME NEW v \in Uarts, NEW e \in Dir, IrqTest(v, e)
      PROVE  CountInv(u, d)'
  <2>1. CASE v = u /\ e = d
    BY <1>13, <2>1 DEF IrqTest
  <2>2. CASE ~ (v = u /\ e = d)
    <3>1. release'[<<u, d>>] = release[<<u, d>>]
      BY <1>13, <2>2 DEF IrqTest
    <3> QED BY <1>13, <2>2, <3>1 DEF IrqTest
  <2> QED BY <2>1, <2>2
<1>14. ASSUME NEW v \in Uarts, NEW e \in Dir, IrqPost(v, e)
      PROVE  CountInv(u, d)'
  BY <1>14 DEF IrqPost
<1>15. ASSUME NEW v \in Uarts, NEW e \in Dir, Interrupt(v, e)
      PROVE  CountInv(u, d)'
  BY <1>15 DEF Interrupt
<1>16. ASSUME (CarStep \/ GuestStep) /\ UNCHANGED uartVars
      PROVE  CountInv(u, d)'
  BY <1>16 DEF uartVars
<1> HIDE DEF OneWakeup, CountInv, TypeOK
<1> QED
  BY <1>0, <1>1, <1>2, <1>3, <1>4, <1>5, <1>6, <1>7, <1>8, <1>9, <1>10,
     <1>11, <1>12, <1>13, <1>14, <1>15, <1>16
  DEF Next, RpcStep, IrqStep, CarStep, GuestStep


LEMMA SlotStep == TypeOK /\ SlotInv /\ [Next]_vars => SlotInv'
BY WakeupStep, CountStep DEF SlotInv, Dir

-----------------------------------------------------------------------------
LEMMA ServesInit == Init => Serves
BY Facts DEF Init, ClkCarInit, Serves, SpiSteps

LEMMA ServesStep == TypeOK /\ Serves /\ [Next]_vars => Serves'
<1> SUFFICES ASSUME TypeOK, Serves, [Next]_vars PROVE Serves'
  OBVIOUS
<1> USE Facts
    DEF TypeOK, ClkCarTypeOK, Serves, SpiSteps, Calls, rpcVars, carVars,
        guestVars, threadVars, uartVars
<1>1. CASE UNCHANGED vars
  BY <1>1 DEF vars
<1>2. ASSUME NEW c \in Calls, RpcCall(c) PROVE Serves'
  BY <1>2 DEF RpcCall
<1>3. CASE RpcLock
  BY <1>3 DEF RpcLock
<1>4. CASE RpcClock
  BY <1>4 DEF RpcClock, CarAccept
<1>5. CASE RpcClocked
  BY <1>5 DEF RpcClocked
<1>6. CASE RpcCdevInit \/ RpcCdevFails
  BY <1>6 DEF RpcCdevInit, RpcCdevFails
<1>7. CASE RpcXfer \/ RpcUnlock \/ RpcWait
  BY <1>7 DEF RpcXfer, RpcUnlock, RpcWait
<1>8. ASSUME NEW v \in Uarts,
             IrqStep(v) \/ \E d \in Dir : Interrupt(v, d)
      PROVE  Serves'
  <2>1. UNCHANGED <<carVars, rpcVars>>
    BY <1>8 DEF IrqStep, IrqAbort, IrqLock, IrqHandle, IrqUnlock, IrqTest,
                IrqPost, Interrupt
  <2> QED BY <2>1
<1>9. CASE SpiCall /\ UNCHANGED uartVars
  BY <1>9 DEF SpiCall, CarAccept
<1>10. CASE SpiReturn /\ UNCHANGED uartVars
  BY <1>10 DEF SpiReturn
<1>11. CASE CarRead /\ UNCHANGED uartVars
  BY <1>11 DEF CarRead
<1>12. CASE CarWrite /\ UNCHANGED uartVars
  <2>1. SpiSteps'
    BY <1>12, StepsCounted
  <2> QED BY <1>12, <2>1 DEF CarWrite
<1>13. CASE GuestStep /\ UNCHANGED uartVars
  <2>1. UNCHANGED <<threadVars, spiUp>>
    BY <1>13 DEF GuestStep, GuestWrite, GuestSource
  <2> QED BY <1>13, <2>1
<1> QED
  BY <1>1, <1>2, <1>3, <1>4, <1>5, <1>6, <1>7, <1>8, <1>9, <1>10, <1>11,
     <1>12, <1>13
  DEF Next, RpcStep, CarStep

LEMMA CarInit == Init => CarInv
BY Facts DEF Init, ClkCarInit, CarInv, ReadBack, Progress, ReadyInv,
             DevicesReady

LEMMA CarStepInv ==
  NoPlainWrites /\ TypeOK /\ Serves /\ CarInv /\ [Next]_vars => CarInv'
<1> SUFFICES ASSUME NoPlainWrites, TypeOK, Serves, CarInv, [Next]_vars
             PROVE  CarInv'
  OBVIOUS
<1> USE Facts, UartAssumption
    DEF TypeOK, ClkCarTypeOK, CarInv, ReadBack, Progress, Serves, SpiSteps,
        ReadyInv, DevicesReady, Ready, Drivers, Resets, InBank, Calls, Dir,
        rpcVars, descVars, irqVars, carVars, guestVars, threadVars, uartVars
<1>0. CASE UNCHANGED vars
  BY <1>0 DEF vars
<1>1. ASSUME NEW c \in Calls, RpcCall(c) PROVE CarInv'
  BY <1>1 DEF RpcCall
<1>2. ASSUME RpcLock PROVE CarInv'
  BY <1>2 DEF RpcLock
<1>3. ASSUME RpcClock PROVE CarInv'
  BY <1>3 DEF RpcClock, CarAccept
<1>4. ASSUME RpcClocked PROVE CarInv'
  BY <1>4 DEF RpcClocked
<1>5. ASSUME RpcCdevInit PROVE CarInv'
  BY <1>5 DEF RpcCdevInit
<1>6. ASSUME RpcCdevFails PROVE CarInv'
  BY <1>6 DEF RpcCdevFails
<1>7. ASSUME RpcXfer PROVE CarInv'
  BY <1>7 DEF RpcXfer
<1>8. ASSUME RpcUnlock PROVE CarInv'
  BY <1>8 DEF RpcUnlock
<1>9. ASSUME RpcWait PROVE CarInv'
  BY <1>9 DEF RpcWait
<1>10. ASSUME NEW v \in Uarts, IrqLock(v) \/ IrqAbort(v) PROVE CarInv'
  BY <1>10 DEF IrqLock, IrqAbort
<1>11. ASSUME NEW v \in Uarts, IrqHandle(v) PROVE CarInv'
  <2>1. UNCHANGED <<carVars, rpcVars>>
    BY <1>11 DEF IrqHandle
  <2> QED BY <2>1
<1>12. ASSUME NEW v \in Uarts, IrqUnlock(v) PROVE CarInv'
  BY <1>12 DEF IrqUnlock
<1>13. ASSUME NEW v \in Uarts, NEW e \in Dir, IrqTest(v, e) PROVE CarInv'
  BY <1>13 DEF IrqTest
<1>14. ASSUME NEW v \in Uarts, NEW e \in Dir, IrqPost(v, e) PROVE CarInv'
  BY <1>14 DEF IrqPost
<1>15. ASSUME NEW v \in Uarts, NEW e \in Dir, Interrupt(v, e) PROVE CarInv'
  BY <1>15 DEF Interrupt
<1>16. ASSUME SpiCall, UNCHANGED uartVars PROVE CarInv'
  BY <1>16 DEF SpiCall, CarAccept
<1>17. ASSUME SpiReturn, UNCHANGED uartVars PROVE CarInv'
  BY <1>17 DEF SpiReturn
<1>18. ASSUME CarRead, UNCHANGED uartVars PROVE CarInv'
  BY <1>18 DEF CarRead
<1>19. ASSUME CarWrite, UNCHANGED uartVars PROVE CarInv'
  <2>1. ReadBack'
    BY <1>19 DEF CarWrite
  <2>2. carDev \in Uarts \cup {Spi1} /\ carDev \in Device
    BY <1>19 DEF CarWrite
  <2>3. Progress'
    <3> HIDE DEF Ready, Progress
    <3> QED BY <1>19, <2>2, UartWrites, SpiWrites
  <2>4. ASSUME NEW x \in Uarts \cup {Spi1}, x # carDev
        PROVE  Ready(x)' <=> Ready(x)
    <3> HIDE DEF Ready, ReadBack
    <3> QED BY <1>19, <2>2, <2>4, OthersUntouched DEF Drivers
  <2>5. ASSUME NEW x \in Drivers, x = carDev, carDev' # carDev PROVE Ready(x)'
    <3> HIDE DEF Ready, Progress
    <3> QED BY <1>19, <2>5, UartWrites, SpiWrites
  <2>6. ReadyInv'
    <3> HIDE DEF Ready
    <3>1. /\ UNCHANGED <<rpcPc, call, pinst, spiUp>>
          /\ carDev' \in {carDev, NoDevice}
      BY <1>19 DEF CarWrite
    <3>2. /\ \A v \in pinst : Ready(v)'
          /\ spiUp = "yes" => Ready(Spi1)'
      BY <2>2, <2>4
    <3>3. ASSUME spiUp = "called", carDev' # Spi1 PROVE Ready(Spi1)'
      <4>1. CASE carDev = Spi1
        BY <3>3, <4>1, <2>5
      <4>2. CASE carDev # Spi1
        BY <3>3, <4>2, <2>4
      <4> QED BY <4>1, <4>2
    <3>4. ASSUME rpcPc = "cdev" \/ (rpcPc = "clocked" /\ carDev' # call.uart)
          PROVE  Ready(call.uart)'
      <4>1. PICK v \in Uarts : v = call.uart
        BY <3>4
      <4>2. CASE v = carDev
        BY <3>1, <3>4, <4>1, <4>2, <2>5
      <4>3. CASE v # carDev
        <5>1. Ready(v)
          BY <3>4, <4>1, <4>3
        <5> QED BY <3>1, <4>1, <4>3, <5>1, <2>4
      <4> QED BY <4>2, <4>3
    <3> QED BY <3>1, <3>2, <3>3, <3>4
  <2> QED BY <2>1, <2>3, <2>6
<1>20. ASSUME NEW bank \in SUBSET Device, NEW register \in GuestRegisters,
             NEW value \in SUBSET Device, GuestWrite(bank, register, value),
             UNCHANGED uartVars
      PROVE  CarInv'
  <2>1. \A x \in Device \ GuestDevices :
          (x \in rst' <=> x \in rst) /\ (x \in enb' <=> x \in enb)
    BY <1>20, GuestOthers
  <2>2. UNCHANGED <<src, threadVars, spiUp>>
    BY <1>20 DEF GuestWrite
  <2> QED BY <1>20, <2>1, <2>2
<1>21. ASSUME NEW x \in Device, GuestSource(x), UNCHANGED uartVars
      PROVE  CarInv'
  BY <1>21 DEF GuestSource, allow_source
<1> HIDE DEF TypeOK, ClkCarTypeOK, CarInv
<1> QED
  BY <1>0, <1>1, <1>2, <1>3, <1>4, <1>5, <1>6, <1>7, <1>8, <1>9, <1>10,
     <1>11, <1>12, <1>13, <1>14, <1>15, <1>16, <1>17, <1>18, <1>19, <1>20, <1>21, GuestSteps
  DEF Next, RpcStep, IrqStep, CarStep


-----------------------------------------------------------------------------
(* state_mtx, one step at a time.                                          *)
LEMMA MutexInit == Init => StateMutexHeld
BY DEF Init, StateMutexHeld, InDriver

LEMMA MutexStep ==
  TypeOK /\ Serves /\ StateMutexHeld /\ [Next]_vars => StateMutexHeld'
<1> SUFFICES ASSUME TypeOK, Serves, StateMutexHeld, [Next]_vars,
                    NEW u \in Uarts
             PROVE  /\ InDriver(u)' => stateMtx'[u] = "rpc"
                    /\ stateMtx'[u] = "rpc" => InDriver(u)' \/ u \notin pinst'
                    /\ stateMtx'[u] = "irq"
                         <=> irqPc'[u] \in {"handle", "unlock"}
  BY DEF StateMutexHeld
<1> DEFINE Goal == /\ InDriver(u)' => stateMtx'[u] = "rpc"
                   /\ stateMtx'[u] = "rpc" => InDriver(u)' \/ u \notin pinst'
                   /\ stateMtx'[u] = "irq"
                        <=> irqPc'[u] \in {"handle", "unlock"}
<1>1. /\ InDriver(u) => stateMtx[u] = "rpc"
      /\ stateMtx[u] = "rpc" => InDriver(u) \/ u \notin pinst
      /\ stateMtx[u] = "irq" <=> irqPc[u] \in {"handle", "unlock"}
      /\ stateMtx[u] \in {"free", "rpc", "irq"}
      /\ \A x : stateMtx' = [stateMtx EXCEPT ![u] = x] => stateMtx'[u] = x
      /\ \A v \in Uarts : \A x : v # u /\ stateMtx' = [stateMtx EXCEPT ![v] = x]
           => stateMtx'[u] = stateMtx[u]
      /\ \A x : irqPc' = [irqPc EXCEPT ![u] = x] => irqPc'[u] = x
      /\ \A v \in Uarts : \A x : v # u /\ irqPc' = [irqPc EXCEPT ![v] = x]
           => irqPc'[u] = irqPc[u]
  BY DEF StateMutexHeld, TypeOK
<1>2. rpcPc # "idle" => call.uart \in Uarts
  BY DEF TypeOK, Calls
<1>3. rpcPc = "cdev" => call.uart \notin pinst
  BY DEF Serves
<1>4. ASSUME UNCHANGED <<stateMtx, irqPc, rpcPc, call, pinst>>
      PROVE  Goal
  BY <1>1, <1>4 DEF InDriver
<1>5. CASE UNCHANGED vars
  BY <1>4, <1>5 DEF vars, rpcVars, irqVars
<1>6. ASSUME NEW c \in Calls, RpcCall(c)
      PROVE  Goal
  BY <1>1, <1>6 DEF RpcCall, InDriver, irqVars
<1>7. CASE RpcLock
  BY <1>1, <1>2, <1>7 DEF RpcLock, InDriver, irqVars
<1>8. CASE RpcClock \/ RpcClocked
  BY <1>1, <1>8 DEF RpcClock, RpcClocked, InDriver, irqVars
<1>9. CASE RpcCdevInit \/ RpcCdevFails
  BY <1>1, <1>3, <1>9 DEF RpcCdevInit, RpcCdevFails, InDriver, irqVars
<1>10. CASE RpcXfer \/ RpcWait
  BY <1>1, <1>10 DEF RpcXfer, RpcWait, InDriver, irqVars
<1>11. CASE RpcUnlock
  BY <1>1, <1>2, <1>11 DEF RpcUnlock, InDriver, irqVars
<1>12. ASSUME NEW v \in Uarts,
              IrqAbort(v) \/ IrqLock(v) \/ IrqHandle(v) \/ IrqUnlock(v)
              \/ \E d \in Dir : IrqTest(v, d) \/ IrqPost(v, d)
       PROVE  Goal
  <2>1. UNCHANGED <<rpcPc, call, pinst>>
    BY <1>12 DEF IrqAbort, IrqLock, IrqHandle, IrqUnlock, IrqTest, IrqPost,
                 rpcVars
  <2>2. CASE IrqAbort(v) \/ IrqLock(v)
    BY <1>1, <2>1, <2>2 DEF IrqAbort, IrqLock, InDriver
  <2>3. CASE IrqHandle(v)
    BY <1>1, <2>1, <2>3 DEF IrqHandle, InDriver
  <2>4. CASE IrqUnlock(v)
    BY <1>1, <2>1, <2>4 DEF IrqUnlock, InDriver
  <2>5. ASSUME NEW d \in Dir, IrqTest(v, d) \/ IrqPost(v, d)
        PROVE  Goal
    BY <1>1, <2>1, <2>5 DEF IrqTest, IrqPost, InDriver, Post, After, Dir
  <2> QED BY <1>12, <2>2, <2>3, <2>4, <2>5
<1>13. ASSUME NEW v \in Uarts, NEW d \in Dir, Interrupt(v, d)
       PROVE  Goal
  BY <1>4, <1>13 DEF Interrupt, rpcVars
<1>14. ASSUME UNCHANGED uartVars
       PROVE  Goal
  BY <1>4, <1>14 DEF uartVars, rpcVars, irqVars
<1> QED
  BY <1>5, <1>6, <1>7, <1>8, <1>9, <1>10, <1>11, <1>12, <1>13, <1>14
  DEF Next, RpcStep, IrqStep

-----------------------------------------------------------------------------
IInv == TypeOK /\ SlotInv /\ Serves /\ StateMutexHeld

LEMMA Invariance == Spec => []IInv
<1>1. Init => IInv
  BY TypeInit, SlotInit, ServesInit, MutexInit DEF IInv
<1>2. IInv /\ [Next]_vars => IInv'
  BY TypeStep, SlotStep, ServesStep, MutexStep DEF IInv
<1> QED BY <1>1, <1>2, PTL DEF Spec

LEMMA CarInvariance == ASSUME NoPlainWrites PROVE Spec => []CarInv
<1>1. Init => CarInv
  BY CarInit
<1>2. IInv /\ CarInv /\ [Next]_vars => CarInv'
  BY CarStepInv DEF IInv
<1> QED BY <1>1, <1>2, Invariance, PTL DEF Spec

(* Types hold in every reachable state: the driver's counts stay within    *)
(* the request.                                                            *)
THEOREM TypeCorrect == Spec => []TypeOK
<1>1. IInv => TypeOK
  BY DEF IInv
<1> QED BY Invariance, <1>1, PTL

(* Exactly one wake-up is on its way for each call that waits.             *)
THEOREM OneWakeupAwaited == Spec => []WakeupAwaited
<1>1. IInv => WakeupAwaited
  BY SlotInvAwaited DEF IInv
<1> QED BY Invariance, <1>1, PTL

(* The count a call reads without the lock is that of a request that is    *)
(* over: at least one byte, no more than were asked for, and all of them   *)
(* for a write (tk1_uart_write, tk1_uart_read).                            *)
THEOREM CallReturnsOwnCount == Spec => []OwnCount
<1>1. IInv => OwnCount
  <2> SUFFICES ASSUME IInv, rpcPc = "wait", syncMtx[Slot] = 1
               PROVE  /\ requested[Slot] = 0
                      /\ transfered[Slot] \in 1 .. call.nbytes
                      /\ call.dir = "write" => transfered[Slot] = call.nbytes
    BY DEF OwnCount
  <2>1. call.uart \in Uarts /\ call.dir \in Dir /\ requested[Slot] \in Nat
    BY UartAssumption DEF IInv, TypeOK, Calls, Slot, Dir
  <2>2. OneWakeup(call.uart, call.dir) /\ CountInv(call.uart, call.dir)
    BY <2>1 DEF IInv, SlotInv
  <2> QED BY <2>1, <2>2 DEF OneWakeup, CountInv, Slot
<1> QED BY Invariance, <1>1, PTL

(* No device is used that is not set up, and none that is set up is undone *)
(* by the other component's call, nor by a guest that leaves the plain     *)
(* registers alone (clkcar.c, fwd_driver.c).                               *)
THEOREM UsedDevicesReady ==
  ASSUME "plain" \notin GuestRegisters PROVE Spec => []DevicesReady
<1>1. CarInv => DevicesReady
  BY DEF CarInv, ReadyInv
<1>2. Spec => []CarInv
  BY CarInvariance DEF NoPlainWrites
<1> QED BY <1>1, <1>2, PTL

SwitchesInReset == \A d \in Uarts \cup {Spi1} : src'[d] # src[d] => d \in rst

(* Clock sources are switched while the device is in reset, which a guest  *)
(* that leaves the plain registers alone does not end (clock_uart_init,    *)
(* clkcar_spi_clk_init).                                                   *)
THEOREM SourceSwitchedInReset ==
  ASSUME "plain" \notin GuestRegisters PROVE Spec => SwitchedInReset
<1>1. IInv /\ CarInv /\ [Next]_vars => [SwitchesInReset]_vars
  <2> SUFFICES ASSUME IInv, CarInv, Next PROVE SwitchesInReset
    BY DEF vars, carVars, guestVars, SwitchesInReset
  <2> USE DEF SwitchesInReset
  <2>1. CASE UNCHANGED src
    BY <2>1
  <2>2. ASSUME CarWrite, src' # src PROVE SwitchesInReset
    BY <2>2, Facts, UartChanges, SpiChanges
    DEF CarWrite, IInv, TypeOK, ClkCarTypeOK, CarInv, Progress
  <2>3. ASSUME NEW x \in Device, GuestSource(x) PROVE SwitchesInReset
    BY <2>3, Facts DEF GuestSource, allow_source, IInv, TypeOK, ClkCarTypeOK
  <2>4. Next => UNCHANGED src \/ (CarWrite /\ src' # src)
                  \/ \E x \in Device : GuestSource(x)
    BY DEF Next, RpcCall, RpcStep, RpcLock, RpcClock, RpcClocked, RpcCdevInit,
           RpcCdevFails, RpcXfer, RpcUnlock, RpcWait, IrqStep, IrqAbort,
           IrqLock, IrqHandle, IrqUnlock, IrqTest, IrqPost, Interrupt, CarStep,
           SpiCall, SpiReturn, CarRead, GuestStep, GuestWrite, carVars,
           guestVars
  <2> QED BY <2>1, <2>2, <2>3, <2>4
<1>2. Spec => []CarInv
  BY CarInvariance DEF NoPlainWrites
<1> QED BY Invariance, <1>1, <1>2, PTL DEF Spec, SwitchedInReset, SwitchesInReset

(* The interface thread and the interrupt thread of a UART are never both  *)
(* in its driver, and the mutex is given back on every path but that of a  *)
(* failed initialisation.                                                  *)
THEOREM MutexGivenBack == Spec => []StateMutexHeld
<1>1. IInv => StateMutexHeld
  BY DEF IInv
<1> QED BY Invariance, <1>1, PTL

(* The registers that a step may change are those of the device that is    *)
(* set up and of the guest's devices.                                      *)
LEMMA BitsKeptStep ==
  NoPlainWrites /\ TypeOK /\ CarInv /\ [Next]_vars => BitsKept
<1> SUFFICES ASSUME NoPlainWrites, TypeOK, CarInv, [Next]_vars PROVE BitsKept
  OBVIOUS
<1>1. ASSUME UNCHANGED <<rst, enb>>
      PROVE  BitsKept
  BY <1>1 DEF BitsKept
<1>2. CASE CarWrite
  BY <1>2, BitsWrittenBack DEF BitsKept, CarInv
<1>3. ASSUME NEW bank, NEW register \in GuestRegisters, NEW value,
             GuestWrite(bank, register, value)
      PROVE  BitsKept
  BY <1>3, GuestOthers DEF BitsKept
<1>4. ASSUME NEW x \in Device, GuestSource(x)
      PROVE  BitsKept
  BY <1>1, <1>4 DEF GuestSource
<1>5. CASE UNCHANGED vars
  BY <1>1, <1>5 DEF vars, carVars, guestVars
<1>6. Next => \/ UNCHANGED <<rst, enb>>
              \/ CarWrite
              \/ GuestStep
  BY DEF Next, RpcCall, RpcStep, RpcLock, RpcClock, RpcClocked, RpcCdevInit,
         RpcCdevFails, RpcXfer, RpcUnlock, RpcWait, IrqStep, IrqAbort,
         IrqLock, IrqHandle, IrqUnlock, IrqTest, IrqPost, Interrupt, CarStep,
         SpiCall, SpiReturn, CarRead, carVars, guestVars
<1> QED BY <1>1, <1>2, <1>3, <1>4, <1>5, <1>6, GuestSteps

(* Nobody's clock or reset is changed behind its back, although whole      *)
(* registers are read, and written back later, while the guest writes to   *)
(* the set and clear registers (clkcar.c, allow_enbrst).                   *)
THEOREM RegistersWrittenBack ==
  ASSUME "plain" \notin GuestRegisters PROVE Spec => OtherBitsKept
<1>1. IInv /\ CarInv /\ [Next]_vars => [BitsKept]_vars
  BY BitsKeptStep DEF IInv, NoPlainWrites
<1>2. Spec => []CarInv
  BY CarInvariance DEF NoPlainWrites
<1> QED BY Invariance, <1>1, <1>2, PTL DEF Spec, OtherBitsKept
=============================================================================
