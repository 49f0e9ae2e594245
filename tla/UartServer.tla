----------------------------- MODULE UartServer -----------------------------
(***************************************************************************)
(* The UART component (components/tk1_uart/src/tk1_uart.c): one interface  *)
(* thread, which serves the calls for all UARTs and sleeps until the       *)
(* transfer is done, and one interrupt thread per UART, which moves the    *)
(* bytes and wakes it.  The first call for a UART has the clock and reset  *)
(* component set the device up.                                            *)
(*                                                                         *)
(* The driver of the platform library is outside the repository: a request *)
(* it has accepted moves bytes at each interrupt and calls back once, a    *)
(* write when all are moved and a read when all or fewer are (the tests    *)
(* read 512 bytes and go on with those they get, tk1_uart_test.c 41-48 and *)
(* 213-222); with no request it may call back too.  It may enable the      *)
(* device's interrupts before it returns the instance.                     *)
(***************************************************************************)
EXTENDS ClkCar

CONSTANTS MaxBytes,   \* bound: bytes of a call
          Failures,   \* what may go wrong: "cdev_init", "cdev_xfer",
                      \*   "early_irq"
          NoCall

ASSUME UartAssumption ==
  /\ MaxBytes \in Nat \ {0}
  /\ Failures \subseteq {"cdev_init", "cdev_xfer", "early_irq"}
  /\ NoCall \notin [uart : Uarts, dir : {"write", "read"}, nbytes : Nat]

Dir == {"write", "read"}
Calls == [uart : Uarts, dir : Dir, nbytes : 1 .. MaxBytes]

VARIABLES
  rpcPc,      \* interface thread: "idle", "lock", "clock", "clocked", "cdev",
              \*   "xfer", "unlock", "wait"
  call,       \* the call it serves
  ret,        \* ret of tk1_uart_write or tk1_uart_read: "ok" or "err"
  pinst,      \* UARTs whose instance is initialised
  stateMtx,   \* state_mtx of each UART: "free", "rpc" or "irq"
  syncMtx,    \* write_sync_mtx and read_sync_mtx: 1 when unlocked
  release,    \* do_release_write_sync_mutex, do_release_read_sync_mutex
  requested,  \* bytes_requested of each descriptor, 0 without a request
  transfered, \* bytes_transfered of each descriptor
  irqPc,      \* interrupt threads: "wait", "handle", "unlock", "write",
              \*   "write_post", "read", "read_post", "aborted"
  irqFor      \* interrupts the device raises: subsets of Dir

rpcVars == <<rpcPc, call, ret, pinst>>
descVars == <<requested, transfered>>
irqVars == <<irqPc, irqFor>>
vars == <<carVars, rpcVars, stateMtx, syncMtx, release, descVars, irqVars>>

TypeOK ==
  /\ ClkCarTypeOK
  /\ rpcPc \in {"idle", "lock", "clock", "clocked", "cdev", "xfer", "unlock",
                "wait"}
  /\ call \in Calls \cup {NoCall}
  /\ rpcPc # "idle" => call # NoCall
  /\ ret \in {"ok", "err"}
  /\ pinst \subseteq Uarts
  /\ stateMtx \in [Uarts -> {"free", "rpc", "irq"}]
  /\ syncMtx \in [Uarts \X Dir -> {0, 1}]
  /\ release \in [Uarts \X Dir -> {0, 1}]
  /\ requested \in [Uarts \X Dir -> 0 .. MaxBytes]
  /\ transfered \in [Uarts \X Dir -> 0 .. MaxBytes]
  /\ irqPc \in [Uarts -> {"wait", "handle", "unlock", "write", "write_post",
                          "read", "read_post", "aborted"}]
  /\ irqFor \in [Uarts -> SUBSET Dir]

(* Without the locks at the end of tk1_uart__init.                         *)
Init_Unlocked ==
  /\ ClkCarInit
  /\ rpcPc = "idle" /\ call = NoCall /\ ret = "ok" /\ pinst = {}
  /\ stateMtx = [u \in Uarts |-> "free"]
  /\ syncMtx = [s \in Uarts \X Dir |-> 1]
  /\ release = [s \in Uarts \X Dir |-> 0]
  /\ requested = [s \in Uarts \X Dir |-> 0]
  /\ transfered = [s \in Uarts \X Dir |-> 0]
  /\ irqPc = [u \in Uarts |-> "wait"]
  /\ irqFor = [u \in Uarts |-> {}]

(* tk1_uart__init locks every sync mutex.                                  *)
Init ==
  /\ ClkCarInit
  /\ rpcPc = "idle" /\ call = NoCall /\ ret = "ok" /\ pinst = {}
  /\ stateMtx = [u \in Uarts |-> "free"]
  /\ syncMtx = [s \in Uarts \X Dir |-> 0]
  /\ release = [s \in Uarts \X Dir |-> 0]
  /\ requested = [s \in Uarts \X Dir |-> 0]
  /\ transfered = [s \in Uarts \X Dir |-> 0]
  /\ irqPc = [u \in Uarts |-> "wait"]
  /\ irqFor = [u \in Uarts |-> {}]
-----------------------------------------------------------------------------
(* tk1_uart_write and tk1_uart_read, which differ in their direction.      *)

Slot == <<call.uart, call.dir>>

RpcCall(c) ==
  /\ rpcPc = "idle"
  /\ call' = c
  /\ rpcPc' = "lock"
  /\ UNCHANGED <<carVars, ret, pinst, stateMtx, syncMtx, release, descVars,
                 irqVars>>

RpcLock ==
  /\ rpcPc = "lock"
  /\ stateMtx[call.uart] = "free"
  /\ stateMtx' = [stateMtx EXCEPT ![call.uart] = "rpc"]
  /\ rpcPc' = IF call.uart \in pinst THEN "xfer" ELSE "clock"
  /\ UNCHANGED <<carVars, call, ret, pinst, syncMtx, release, descVars,
                 irqVars>>

RpcClock ==
  /\ rpcPc = "clock"
  /\ CarAccept(call.uart)
  /\ rpcPc' = "clocked"
  /\ UNCHANGED <<guestVars, spiUp, call, ret, pinst, stateMtx, syncMtx,
                 release, descVars, irqVars>>

RpcClocked ==
  /\ rpcPc = "clocked"
  /\ carDev # call.uart
  /\ rpcPc' = "cdev"
  /\ UNCHANGED <<carVars, call, ret, pinst, stateMtx, syncMtx, release,
                 descVars, irqVars>>

RpcCdevInit ==
  /\ rpcPc = "cdev"
  /\ pinst' = pinst \cup {call.uart}
  /\ rpcPc' = "xfer"
  /\ UNCHANGED <<carVars, call, ret, stateMtx, syncMtx, release, descVars,
                 irqVars>>

(* Without an instance the call returns -1, and state_mtx stays locked.    *)
RpcCdevFails ==
  /\ rpcPc = "cdev"
  /\ "cdev_init" \in Failures
  /\ rpcPc' = "idle"
  /\ call' = NoCall
  /\ UNCHANGED <<carVars, ret, pinst, stateMtx, syncMtx, release, descVars,
                 irqVars>>

(* One byte more than the call asks for.                                   *)
RpcXfer_OneMore ==
  /\ rpcPc = "xfer"
  /\ rpcPc' = "unlock"
  /\ ret' = "ok"
  /\ requested' = [requested EXCEPT ![Slot] = call.nbytes + 1]
  /\ transfered' = [transfered EXCEPT ![Slot] = 0]
  /\ UNCHANGED <<carVars, call, pinst, stateMtx, syncMtx, release, irqVars>>

RpcXfer ==
  /\ rpcPc = "xfer"
  /\ rpcPc' = "unlock"
  /\ \/ /\ ret' = "ok"
        /\ requested' = [requested EXCEPT ![Slot] = call.nbytes]
        /\ transfered' = [transfered EXCEPT ![Slot] = 0]
     \/ /\ "cdev_xfer" \in Failures
        /\ ret' = "err"
        /\ UNCHANGED descVars
  /\ UNCHANGED <<carVars, call, pinst, stateMtx, syncMtx, release, irqVars>>

(* The error return comes before the unlock.                               *)
RpcUnlock_Late ==
  /\ rpcPc = "unlock"
  /\ IF ret = "ok"
     THEN /\ stateMtx' = [stateMtx EXCEPT ![call.uart] = "free"]
          /\ rpcPc' = "wait"
          /\ UNCHANGED <<call, ret>>
     ELSE rpcPc' = "idle" /\ call' = NoCall /\ ret' = "ok" /\ UNCHANGED stateMtx
  /\ UNCHANGED <<carVars, pinst, syncMtx, release, descVars, irqVars>>

RpcUnlock ==
  /\ rpcPc = "unlock"
  /\ stateMtx' = [stateMtx EXCEPT ![call.uart] = "free"]
  /\ IF ret = "ok"
     THEN rpcPc' = "wait" /\ UNCHANGED <<call, ret>>
     ELSE rpcPc' = "idle" /\ call' = NoCall /\ ret' = "ok"
  /\ UNCHANGED <<carVars, pinst, syncMtx, release, descVars, irqVars>>

(* Returns transfered[Slot], without state_mtx; the next request starts    *)
(* from 0.                                                                 *)
RpcWait ==
  /\ rpcPc = "wait"
  /\ syncMtx[Slot] = 1
  /\ syncMtx' = [syncMtx EXCEPT ![Slot] = 0]
  /\ transfered' = [transfered EXCEPT ![Slot] = 0]
  /\ rpcPc' = "idle"
  /\ call' = NoCall
  /\ UNCHANGED <<carVars, ret, pinst, stateMtx, release, requested, irqVars>>

RpcStep ==
  \/ RpcLock \/ RpcClock \/ RpcClocked \/ RpcCdevInit \/ RpcCdevFails
  \/ RpcXfer \/ RpcUnlock \/ RpcWait
-----------------------------------------------------------------------------
(* tk1_uart_irq_handler, and the interrupts of the device.                 *)

(* assert(mydev->pinst != NULL) fails.                                     *)
IrqAbort(u) ==
  /\ irqPc[u] = "wait"
  /\ irqFor[u] # {}
  /\ u \notin pinst
  /\ irqPc' = [irqPc EXCEPT ![u] = "aborted"]
  /\ UNCHANGED <<carVars, rpcVars, stateMtx, syncMtx, release, descVars,
                 irqFor>>

IrqLock(u) ==
  /\ irqPc[u] = "wait"
  /\ irqFor[u] # {}
  /\ u \in pinst
  /\ stateMtx[u] = "free"
  /\ stateMtx' = [stateMtx EXCEPT ![u] = "irq"]
  /\ irqPc' = [irqPc EXCEPT ![u] = "handle"]
  /\ UNCHANGED <<carVars, rpcVars, syncMtx, release, descVars, irqFor>>

(* The callback does not look at bytes_requested.                          *)
CallBack_Always(asked, flag) == 1

(* tk1_uart_write_cb and tk1_uart_read_cb: a call back without a request   *)
(* is ignored.                                                             *)
CallBack(asked, flag) == IF asked > 0 THEN 1 ELSE flag

(* A read is over with any bytes, a write with all of them.                *)
MayEnd(s, n) == n = requested[s] \/ (s[2] = "read" /\ n > 0)

(* ps_cdev_handle_irq: for each interrupt raised, some bytes of the        *)
(* request move; with the last of them, before that for a read, and        *)
(* without a request, the callback is called.                              *)
IrqHandle(u) ==
  /\ irqPc[u] = "handle"
  /\ irqPc' = [irqPc EXCEPT ![u] = "unlock"]
  /\ irqFor' = [irqFor EXCEPT ![u] = {}]
  /\ \E done \in [irqFor[u] -> 0 .. MaxBytes], over \in SUBSET ({u} \X irqFor[u]) :
       LET served == {u} \X irqFor[u]
       IN  /\ \A s \in served :
                /\ IF requested[s] = 0 THEN done[s[2]] = 0
                   ELSE done[s[2]] \in transfered[s] + 1 .. requested[s]
                /\ done[s[2]] = requested[s] => s \in over
                /\ s \in over => MayEnd(s, done[s[2]])
           /\ release' = [s \in Uarts \X Dir |->
                IF s \in over THEN CallBack(requested[s], release[s])
                               ELSE release[s]]
           /\ transfered' = [s \in Uarts \X Dir |->
                IF s \in served /\ requested[s] > 0
                THEN done[s[2]] ELSE transfered[s]]
           /\ requested' = [s \in Uarts \X Dir |->
                IF s \in over THEN 0 ELSE requested[s]]
  /\ UNCHANGED <<carVars, rpcVars, stateMtx, syncMtx>>

IrqUnlock(u) ==
  /\ irqPc[u] = "unlock"
  /\ stateMtx' = [stateMtx EXCEPT ![u] = "free"]
  /\ irqPc' = [irqPc EXCEPT ![u] = "write"]
  /\ UNCHANGED <<carVars, rpcVars, syncMtx, release, descVars, irqFor>>

(* After the read flag the interrupt is acknowledged.                      *)
After(d) == IF d = "write" THEN "read" ELSE "wait"
Post(d) == IF d = "write" THEN "write_post" ELSE "read_post"

(* The flag is tested and cleared without state_mtx.                       *)
IrqTest(u, d) ==
  /\ irqPc[u] = d
  /\ irqPc' = [irqPc EXCEPT ![u] = IF release[<<u, d>>] = 1 THEN Post(d)
                                                        ELSE After(d)]
  /\ release' = [release EXCEPT ![<<u, d>>] = 0]
  /\ UNCHANGED <<carVars, rpcVars, stateMtx, syncMtx, descVars, irqFor>>

IrqPost(u, d) ==
  /\ irqPc[u] = Post(d)
  /\ syncMtx' = [syncMtx EXCEPT ![<<u, d>>] = 1]
  /\ irqPc' = [irqPc EXCEPT ![u] = After(d)]
  /\ UNCHANGED <<carVars, rpcVars, stateMtx, release, descVars, irqFor>>

IrqStep(u) ==
  \/ IrqAbort(u) \/ IrqLock(u) \/ IrqHandle(u) \/ IrqUnlock(u)
  \/ \E d \in Dir : IrqTest(u, d) \/ IrqPost(u, d)

(* The device has room for bytes, or bytes have arrived.                   *)
Interrupt(u, d) ==
  /\ \/ u \in pinst
     \/ "early_irq" \in Failures /\ rpcPc = "cdev" /\ call.uart = u
  /\ d \notin irqFor[u]
  /\ irqFor' = [irqFor EXCEPT ![u] = @ \cup {d}]
  /\ UNCHANGED <<carVars, rpcVars, stateMtx, syncMtx, release, descVars,
                 irqPc>>
-----------------------------------------------------------------------------
uartVars == <<rpcVars, stateMtx, syncMtx, release, descVars, irqVars>>

Next ==
  \/ \E c \in Calls : RpcCall(c)
  \/ RpcStep
  \/ \E u \in Uarts : IrqStep(u) \/ \E d \in Dir : Interrupt(u, d)
  \/ CarStep /\ UNCHANGED uartVars
  \/ GuestStep /\ UNCHANGED uartVars

(* Every thread runs, a transmitter drains; nothing is assumed of calls,   *)
(* of the guest and of bytes that arrive.  The kernel queues the threads   *)
(* that wait for a mutex in order, hence strong fairness of taking one.    *)
Fairness ==
  /\ WF_vars(RpcStep) /\ SF_vars(RpcLock)
  /\ WF_vars(CarStep /\ UNCHANGED uartVars)
  /\ \A u \in Uarts : /\ WF_vars(IrqStep(u)) /\ SF_vars(IrqLock(u))
                      /\ WF_vars(requested[<<u, "write">>] > 0
                                   /\ Interrupt(u, "write"))

Spec == Init /\ [][Next]_vars /\ Fairness
-----------------------------------------------------------------------------
Awaited(u, d) ==
  /\ rpcPc \in {"unlock", "wait"}
  /\ ret = "ok"
  /\ call.uart = u
  /\ call.dir = d

(* Where the wake-up of a call can be.                                     *)
Wakeup == {"request", "flag", "post", "mutex"}

Wakeups(u, d) ==
  {w \in Wakeup : \/ w = "request" /\ requested[<<u, d>>] > 0
                  \/ w = "flag" /\ release[<<u, d>>] = 1
                  \/ w = "post" /\ irqPc[u] = Post(d)
                  \/ w = "mutex" /\ syncMtx[<<u, d>>] = 1}

(* A call that waits has exactly one wake-up to come: its request in the   *)
(* driver, the flag of the callback, the interrupt thread about to unlock  *)
(* the sync mutex, or the unlocked mutex; and nobody else has one.  So no  *)
(* call returns on the completion of another, and none is missed           *)
(* (tk1_uart_irq_handler against tk1_uart_write and tk1_uart_read).        *)
WakeupAwaited ==
  \A u \in Uarts, d \in Dir :
    /\ Awaited(u, d) => \E w \in Wakeup : Wakeups(u, d) = {w}
    /\ ~ Awaited(u, d) => Wakeups(u, d) = {}

(* The number a call returns, which it reads without state_mtx, is that of *)
(* a request that is over, so no interrupt can be changing it: at least    *)
(* one byte, no more than were asked for, and all of them for a write      *)
(* (tk1_uart_write and tk1_uart_read, the last line of each).              *)
OwnCount ==
  rpcPc = "wait" /\ syncMtx[Slot] = 1 =>
    /\ requested[Slot] = 0
    /\ transfered[Slot] \in 1 .. call.nbytes
    /\ call.dir = "write" => transfered[Slot] = call.nbytes

(* A UART is only used, and the SPI component only goes on, with the       *)
(* device out of reset, clocked and on the clock source its setup wrote,   *)
(* whatever the other component's call does to the shared registers, and   *)
(* whatever a guest that leaves the plain registers alone does to them     *)
(* (clkcar.c, allow_enbrst and allow_source of fwd_driver.c).              *)
DevicesReady ==
  /\ \A u \in pinst : Ready(u)
  /\ rpcPc = "cdev" => Ready(call.uart)
  /\ spiUp = "yes" => Ready(Spi1)

(* The clock source of a driver's device is only switched while the device *)
(* is held in reset (clock_uart_init, clkcar_spi_clk_init), by a guest     *)
(* that leaves the plain registers alone.                                  *)
SwitchedInReset ==
  [][\A d \in Uarts \cup {Spi1} : src'[d] # src[d] => d \in rst]_vars

(* The bits of the other devices of a register are kept, in which the      *)
(* interface thread writes back what it read a step ago while the guest    *)
(* writes to the set and clear registers (clkcar.c 103-132, allow_enbrst   *)
(* of fwd_driver.c): but for the guest's own, only the device being set up *)
(* changes.                                                                *)
BitsKept ==
  \A d \in Device \ (GuestDevices \cup {carDev}) :
    (d \in rst' <=> d \in rst) /\ (d \in enb' <=> d \in enb)

OtherBitsKept == [][BitsKept]_vars

(* state_mtx is held by the thread that is in the driver, so the two never *)
(* are together, and given back on every path: a UART whose mutex nobody   *)
(* will give back is one whose initialisation failed.                      *)
InDriver(u) ==
  /\ rpcPc \in {"clock", "clocked", "cdev", "xfer", "unlock"}
  /\ call.uart = u

StateMutexHeld ==
  \A u \in Uarts :
    /\ InDriver(u) => stateMtx[u] = "rpc"
    /\ stateMtx[u] = "rpc" => InDriver(u) \/ u \notin pinst
    /\ stateMtx[u] = "irq" <=> irqPc[u] \in {"handle", "unlock"}

(* A write returns, unless its UART's initialisation has failed before,    *)
(* which kept state_mtx, or an interrupt came during it, which stopped the *)
(* interrupt thread.                                                       *)
InitFailed(u) == u \notin pinst /\ stateMtx[u] = "rpc"

WritesReturn ==
  \A u \in Uarts :
    rpcPc = "lock" /\ call.uart = u /\ call.dir = "write"
      ~> \/ rpcPc = "idle"
         \/ rpcPc = "lock" /\ InitFailed(u)
         \/ irqPc[u] = "aborted"
=============================================================================
