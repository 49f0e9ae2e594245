# TLA+ verification of the DARPA-bsp components

DARPA-bsp is the board support of an seL4/CAmkES system on the NVIDIA Tegra K1:
device components (CAN, SPI, GPIO, UART, clocks, time server) written in C, one
CAmkES component each, and the applications that use them.  This directory
holds TLA+ models of the components' logic, TLC configurations that check them
on small instances, and proofs of the most important results for every
instance.

Contents: 1 inventory; 2 modules; 3 how the models correspond to the code;
4 runs; 5 fairness; 6 proofs; 7 where code and comments disagree; 8 what is not
modelled; 9 plan.

## 1. Inventory

| component | state | operations | hard behaviour | what makes it correct |
|---|---|---|---|---|
| **CAN message queues** `can/src/queue.c` | two rings (`head`, `tail`, slots, spinlock) | `tx/rx_queue_push`, `tx/rx_queue_pop` | full and empty are tested before the lock is taken; frames are copied byte by byte | each queue is a bounded FIFO: whole frames, in order, none lost, refusals only when really full or empty |
| **CAN driver** `can/src/dev.c`, `irq.c`, `prio.c` | `xmit_stopped`, `txb_lock`, `txb_cache`, `queue_lock` | client calls (`can_send`, `can_recv`, `can_sendto`, `can_abort`, filter calls) on the RPC thread; `irq_handler` on the notification thread | two threads over one controller, unlocked tests, restart of transmission, semaphore against queue | no frame left in a queue with nobody to fetch it; no wake-up lost; order; no pending buffer overwritten |
| **MCP2515 access** `can/src/spi_cmd.c`, `controller.c` | the controller's flags, buffers, filters, mode | one SPI instruction each; `load_txb`, `recv_rxb`, `txb_status`, filters, baud rate | the controller changes its flags at any moment; register arithmetic in narrow integers | instructions do to the registers what their callers mean |
| **GPIO** `gpio/src/gpio.c` | edge latch and mask of the CAN interrupt; two output pins | group 5 interrupt, `CANIntAck_handler`, chip select | interrupt, notification and acknowledge are three separate steps | one token per interrupt, no interrupt lost |
| **SPI** `spi/src/spi.c` | current slave, bus, `bus_sem`, `spi_mutex`, the data port | `spi_transfer`, `spi_transfer_byte`, interrupt | completion callback against the waiting caller; refused and failed transfers; one data port for two client threads | a call returns with its own transfer's status; an instruction is atomic for its caller |
| **Time server** `TimeServerNVTMR/src/time_server.c` | clock, sorted list of timers, completed bits | one-shot, periodic, stop, completed, time; tick | pointer list shared by clients and interrupt thread; periodic re-insertion | list = active timers, sorted; no timer forgotten, none early by more than a tick |
| **UART server** `tk1_uart/src/tk1_uart.c` | descriptor, `state_mtx`, two sync mutexes, release flags | `write`, `read`, interrupt with callbacks | lock hand-over from interrupt to caller, failure paths | a caller is woken exactly once and returns the count of its own request; no lock kept |
| **Clocks** `clkcar/src/clkcar.c`, `fwd_driver.c` | reset, clock-enable and clock source registers | SPI and UART clock initialisation on the interface thread; the guest's accesses on the `gen_fwd` thread | read-modify-write of shared registers in steps, no lock, two threads | a driver's device is out of reset, clocked and on its source when it is used; sources are switched in reset only |
| UART forwarding driver, time client, connector templates, test applications, `vm`, `timer_tk1` | none of their own | | | |

How they interact: the CAN component calls SPI (`spi_transfer`) for every controller
access; the controller's INT pin raises the GPIO component's group 5 interrupt,
which emits the notification `CAN1Int` to the CAN component, whose handler answers
with `CANIntAck`; the CAN component notifies its client with `txb0_ack` ..
`txb2_ack`.  SPI and UART call the clock component once, at initialisation.  The
virtual machine reaches the clock and UART registers through the components'
`gen_fwd` interfaces.  The time server notifies its clients by badge.

`PROJECT.json` lists every component with its status and every hazard at the
line of code where it bites, with the property that covers it or the reason
why none does yet.

## 2. Modules

| module | what it is |
|---|---|
| `BoundedFifo` | abstract: what a message queue promises a producer and a consumer |
| `MessageQueue` | `queue.c`, one step per access to the ring; implements `BoundedFifo` |
| `MessageQueue_proof` | its proofs |
| `GpioCanInt` | the CAN interrupt in `gpio.c` |
| `Mcp2515` | the controller as `spi_cmd.c` reaches it, and the bus; extends `GpioCanInt` because the pin follows the flags |
| `CanDriver` | `dev.c`, `irq.c`, `prio.c` and the helpers of `controller.c` they call; extends `Mcp2515`, so it is the composition of driver, controller, GPIO and bus |
| `CanDriver_proof` | types, the two token invariants, and the wake-up protocol of `start_xmit` and `transmit_message`, proved |
| `CanFrames_proof` | the cache of priorities of `can_sendto` and the order of received frames, proved |
| `TimerService` | abstract: armed timers as a set of deadlines, served by ticks that no client call can split |
| `TimeServer` | `time_server.c`, with its clients' notifications and the hardware timer; implements `TimerService` |
| `TimeServer_proof` | its proofs: how early a timer can be, the completions, the list, the refinement |
| `BitTiming` | `set_baudrate` and `hw_set_bit_timing`: the search, the register widths, and how the controller reads the registers |
| `CanMode` | the controller's operation mode, switched by the setup and the filter calls of `dev.c` against frames on the bus |
| `CanFilter` | `CanMode` with the registers these calls write: the bit timing and the acceptance filters (`set_rx_filter`, `clear_rx_filter`, `clear_filter_mask`), one SPI instruction at a time, over registers with their widths; extends `CanMode` and `BitTiming` |
| `CanFilter_proof` | its proofs, and what `set_baudrate` makes of the usual rates |
| `CanMode_proof` | its proofs |
| `SpiInstruction` | abstract: an SPI instruction takes effect at most once, at one moment, and fetches the reply of that moment unless its transfer failed |
| `SpiTransfer` | `spi_cmd.c` over the data port, `spi.c` with its interface and interrupt threads, and the bus; implements `SpiInstruction` |
| `SpiTransfer_proof` | its proofs |
| `ClkCar` | `clkcar.c` and the clock component's `fwd_driver.c` |
| `UartServer` | `tk1_uart.c` and its device; extends `ClkCar`, so it is the composition of UART, clock component, the SPI component's start and the guest |
| `UartServer_proof` | its proofs, the clock component's among them |
| `MCMessageQueue`, `MCCanDriver`, `MCTimeServer`, `MCCanFilter`, `MCSpiTransfer`, `MCUartServer` | values of the constants for TLC |

## 3. Correspondence

**Message queue.**  Thread positions `prodPc` and `consPc` name the statement a
thread is about to execute.  The full test (`PushCheck`) and the lock
(`PushLock`) are separate steps, as in `queue.c`; the copy of a frame has a
begin and an end, and in between the slot holds a value that is no frame.  The
sequence `Queued` of the slots from `head` to `tail` is the refinement mapping
to the FIFO.

**CAN driver.**  `rpcPc` is the position of the RPC thread, `intPc` that of
`irq_handler`.  One step is one SPI instruction (justified by `SpiTransfer`: it
takes effect at one moment; failed transfers are left out here),
one queue operation (justified by `MessageQueue`: a call takes effect at one
instant), or one access to a variable the threads share.  In particular

- `start_xmit` is `XmitTest` (unlocked), `XmitLock`, then per buffer
  `XmitProbe`, `XmitTrigger`, `XmitStarted`, then `XmitUnlock`;
- `transmit_message` is `IntTxClear`, then per buffer `IntTxAck`, `IntTxPop`
  and either `IntTxLoad` or `IntTxStop`, then `IntTxRts`; `intTx` is the set of
  buffers still to be looked at, `intRts` the ones to be requested;
- `receive_message` is `IntRxRead`, `IntRxPush`, `IntRxPost` per buffer;
- `can_sendto` is `Sendto`, `SendtoStatus`, `SendtoPriority`, then the three
  loops of `get_frame_priority`, then `SendtoRanked`, `SendtoLoad`,
  `SendtoSetPrio` and `SendtoRts`.  The loops run over `rpcTodo`, the iterations
  left; an iteration reads the shared cache in one step (`SendtoZero`,
  `SendtoRank`, `SendtoReprioritise`) and writes an entry, or a buffer's
  priority, in the next (`SendtoWriteEntry`, `SendtoBitModify`), so that the
  handler may clear entries between any two of them;
- `load_txb` is two instructions on either side: `SendtoLoad` and
  `SendtoSetPrio`, `IntTxLoad` and `IntTxSetPrio`.

Frames are numbered in the order in which they are offered or arrive; their
identifiers are the constant `CanId`, their payload is left out.  `Ops` is the
set of calls the client makes, `AckedBufs` the transmit buffers it reuses only
after their `txbN_ack`.

Three points where the model follows the code against the intention:
`PreviousPending` is constantly false because `TXBCTRL(i) & TXBCTRL_TXREQ`
(irq.c 134) is register 0 for every i; `mcp2515_read_rxb` reads RXB0 whatever
index it is given (spi_cmd.c 299); `IntRxPost` posts after a dropped frame too.

Undefined or open behaviour is a choice: `canid`, `exide` and `priority` share
a word, so the write-back of a ranking may bring back an entry the interrupt
handler has cleared (`SendtoWriteEntry` writes the entry as it was read, or as it
is now if the compiler reads it again); a LOAD TX BUFFER to a pending buffer may or
may not replace its contents (`mcp2515_load_txb`).

The group 5 interrupt of `gpio.c` has both its branches: for an interrupt of the
CAN pin the handler notifies and leaves the interrupt masked (`GpioIrq`), for any
other it clears the latch, whatever has come since it looked, and unmasks
(`GpioIrqOther`, `GpioOtherClear`).  `OtherIrqs` says whether the group has such
interrupts.

**Operation mode.**  In `CanMode` `pc` is the position of the RPC thread in
`can_setup`, `can_setup_loopback` or a filter call (`call` says which); `reqop`
is the mode requested in CANCTRL, `opmod` the one in CANSTAT.  `set_mode` changes
the request only; the controller follows (`SwitchMode`) while no frame is on the
wire, so a request may be replaced before it took effect.  A wait is a step that
is enabled once `get_mode` has the answer; the reset ends by itself
(`Restarted`).

**Configuration.**  `CanFilter` has every access that these calls make in
between.  `filter`, `mask` and `cnf` are the controller's registers, `given` what
the client was told; `access` is the next instruction of a filter call, with the
loop variables `maskIdx` and `filtIdx`.  The filter calls do not wait for
configuration mode, so each access finds the controller in that mode or not yet
(`Configurable`): if not, the registers are read as 0 and keep their contents.
`CurMask` is the mask as `set_rx_filter` reads it back, cut to `uint8_t`;
`is_filter_empty` is never true of filter 3, whose addresses lie over `CANSTAT`
and `CANCTRL`.  From this follow two things that no property forbids: only
filters 0, 1, 2, 4 and 5 are ever given out, and mask 1, once set, is released by
`can_disable_filtering` or a new setup only.  `can_setup` or
`can_setup_loopback` is the client's first call, as in the test application; it
writes the registers `set_baudrate` computes.  `BitTiming` follows the
computation with its roundings and byte widths, and decodes the registers as the
data sheet does, so that the rate can be compared with what the controller makes
of it.

**SPI.**  `pc` is the position of each thread of the CAN component inside a
function of `spi_cmd.c`: `Lock` (`spi_lock`), `Load` (the writes to `txbuf`),
the call, `Fetch` (the read of `rxbuf`; the result of `spi_transfer` is dropped,
as in the code) and `Unlock`.  An instruction is its opcode, its two byte
counts, the position at which the function looks for the reply, and what it
writes; the controller is one register.  `srvPc` is `do_spi_transfer`, `irqPc`
is `spi1_int_handle`, and `spi_handle_irq` of the platform library goes on with
the next chunk, completes, or fails (`IrqHandle`).  `Shift` moves a chunk over
the wire.  In the refinement mapping an instruction is executed when its last
chunk is, and its reply is where it then travels: on the wire, in `rxbuf`, in
the caller's variable.

**UART and clocks.**  `rpcPc` is the interface thread in `tk1_uart_write` or
`tk1_uart_read` (`call.dir` says which), `irqPc` the interrupt thread of each
UART in `tk1_uart_irq_handler`.  The driver of the platform library is the
number of bytes requested and transferred for each direction; an interrupt
moves some of them.  A write is over, and calls back, when all its bytes have
moved, a read after any number of them (`MayEnd`): the tests ask for 512 bytes
and go on with the smaller count that `tk1_uart_read` returns
(`tk1_uart_test.c` 41-48, 213-222).  The first call for a UART goes through the
clock component (`RpcClock`, `RpcClocked`); when `ps_cdev_init` fails the call
returns and `stateMtx` stays taken, as in the code.  With `"early_irq"` in
`Failures` the device may interrupt during that initialisation, before `pinst` is
assigned: the assertion of line 115 then stops the interrupt thread (`IrqAbort`).

In `ClkCar` each change of a register is a read and a write apart, the
value held in `carReg` in between; a register is the set of a bank's devices
whose bit is 1.  `GuestStep` may come between any two steps.  A bank has three
registers each for resets and clocks: in the set and the clear one a zero bit
changes nothing, in the plain one (RST_DEVICES, CLK_OUT_ENB) every bit is
written (`Written`).  `fwd_driver.c` does not tell them apart; which of them the
guest writes is the constant `GuestRegisters`.  The table of the platform
library decides which addresses accept a write at all.  `Ready` asks for exactly
the source register that a setup leaves behind, `SetupSource`.  For the SPI
controller that is not always the one intended: clkcar.c 72-75 ORs source 6 into
what is there, and if the boot loader has left bit 29 set, as in the run, the
field becomes 7.

**Time server.**  `list` is the record of `timer_head` and of `prev` and `next` of
every timer; `remove_timer` and `insert_timer` are functions on it, pointer writes
and stale pointers included.  A client's call runs under the mutex `time_server`
from its first read to its last write, so it is one step, enabled while the
interrupt thread does not hold the mutex (`Unlocked`).  The interrupt thread is
`IrqStart` (lock, clock), then per due timer `SignalEmit` (the notification) and
`SignalClient` (bit, removal, re-insertion), `SignalDone`, `IrqClear`
(`timer_handle_irq`) and `IrqUnlock`.  Notifications are one bit per client; the
callback of the model's clients then asks for and clears their bits
(`ClientCallback`, `_completed`).  It is the model's own: the repository's client
(`client.c` 21-26) only prints when it is notified.  The hardware timer ticks at any
moment, also while a tick is served; such a tick is cleared uncounted by `IrqClear`,
which makes the clock late.  `hw_due` is a history variable: the time of the
hardware timer for which a client has asked.  Refinement mapping: the active timers
with their deadlines and periods, and `serving` while `signal_clients` runs.

What the controller and the bus do (`TxDone`, `RxArrive`, `RaiseFault`, the
INT pin) is external: it is modelled from the way `src/` uses the chip.  The
pin is low while an enabled flag is set, and the GPIO controller latches the
falling edge only (`GPIO_DIR_IRQ_FALL`).

## 4. Runs

| run | instance | shows |
|---|---|---|
| `queue` | ring of 4 slots, 2 frames | types, `QueuedFramesWhole`, `CallsReturn`, implements `BoundedFifo` |
| `can_transfer` | 2 TX buffers, RXB0, 3 frames sent, 2 received, queues of 1 frame, other interrupts of the group; `can_send` and `can_recv` | types, `EveryBufferArmed`, `QueuedFrameInCycle`, `TokensCoverFrames`, `ReceivedInOrder`, `OneInterruptInFlight`, `InterruptAcknowledged`, `QueuedFrameFetched` |
| `can_sendto` | 3 TX buffers, 3 frames, bus faults and wake-ups; `can_sendto`, `can_abort`, `can_recv_rxb`; the client waits for the acknowledge of buffers 0 and 1, not of 2 | `PendingIsCached` |
| `timer_clients` | 2 clients with 1 timer each, 2 ticks of 2 units, delays and periods 1 and 3, absolute deadline 2 | types, `ListWellFormed`, `NoLostCompletion`, `AtMostATickEarly`, `ServingEnds`, `DueTimersServed`, implements `TimerService` |
| `can_config` | all five calls, 4 filter calls at most; 4 requests: a standard mask in the low byte, one of all 11 bits, one of the upper 3, an extended one; rates 125000 and 500000 | types, `ConfigTypeOK`, `TimingInConfigMode`, `CallsReturn`, `LastCallSettles` |
| `spi` | 2 threads, a read with the reply at position 1, one at 2, a write; transfers of 1 and 2 interrupts, refused and failed ones | types, `CompletionAwaited`, implements `SpiInstruction`, `InstructionsReturn` |
| `uart` | one UART in a bank with a device of the guest and one of nobody's, the SPI controller in a second bank with another of nobody's; calls of 1 and 2 bytes, both failures, an early interrupt; a guest that writes the set and clear registers | types, `WakeupAwaited`, `OwnCount`, `DevicesReady`, `StateMutexHeld`, `SwitchedInReset`, `OtherBitsKept`, `WritesReturn` |
| `can_load_pending`, `can_lost_interrupt`, `can_priority`, `can_filter`, `clk_guest` | small instances | the disagreements of section 7 |

Why the bounds are enough.  A ring of four slots wraps, is full with three frames
and empty, and lets the two threads overtake each other by a whole turn. Two
transmit buffers are the least for which one buffer may stop while another is
loaded; with more frames than buffers and a queue of one frame, `can_send` finds the
queue full, retries, and restarts a stopped transmission.  Two arriving frames and a
queue of one make the receive queue overflow and the controller's own buffer
overflow.  Three buffers are the chip's number and make the ranking non-trivial,
with one equal-priority and one most urgent frame.  Two timers have a head and an
end of the list to take out and put into; longer lists, with a middle, are the
proof's (section 6), which covers `ListWellFormed` and the refinement for any number
of timers.  With two clients a period shorter than a tick completes twice in one
tick and meets equal deadlines, a longer one skips a tick, and the absolute deadline
may be past, present or future when it is set. The four masks of `can_config` are
one that the driver reads back whole, one that it reads back short, one of which it
reads back nothing and one of extended identifiers, for two mask registers: requests
are refused, filters are shared and masks are taken over.  Four filter calls fill a
mask, exhaust its filters and go on to the next; setups, which start everything
anew, are not bounded, nor are frames on the bus.  One of the two rates comes out
exact and one does not; the search is a computation on one number, so more rates add
no interleaving, and which rates come out right is a theorem (section 6).  In `spi`
two interrupts are the least with a transfer that goes on after one, and two threads
the number that the CAN component has.  In `uart` one UART shares its bank with a
guest's and a foreign device, so that one register has all three kinds of bits; the
SPI component's setup goes through the same interface thread.  A call of two bytes
may need one interrupt or two, and interrupts come at any moment, also without a
request. The proofs of section 6 do not depend on these bounds.

Deadlock checking is off in `uart`, where a failed initialisation stops the
interface thread, and in the CAN runs: when the client has offered its last
frame and the bus is silent the system rests.  `InterruptAcknowledged` and
`QueuedFrameFetched` say instead that what has begun ends.

Each property of a passing run has a mutated definition beside the definition it
mutates (commented "Mutant", or named after it with a suffix), with which the run
fails.

## 5. Fairness

The queue is fair for each thread's own steps, the CAN driver for the RPC
thread, the interrupt thread and the GPIO component: seL4 schedules each
runnable thread, and each has its own CAmkES control thread.  A step that
waits (a spinlock, the semaphore) is not enabled, so weak fairness does not
assume that a waiting thread gets through.  Nothing is assumed of the client
(it need not call) nor of the bus (no frame need ever go out).  Only
`QueuedFrameFetched` needs a bus that goes on: weak fairness of the transmission
of a pending frame is the premise in the property itself.  Its conclusion also
admits that an interrupt is lost, which happens (`NoLostInterrupt`, section 7).

In the time server the interrupt thread and the hardware timer (up to its bound)
are fair, the clients are not: `DueTimersServed` holds whatever they do.

In `CanMode`, and in `CanFilter`, which extends it, the RPC thread is fair and the
reset ends; a frame on the wire ends, and the controller enters a requested mode in
one of the pauses between frames (strong fairness, for the next frame may begin at
once): that is what the chip promises, and what the waits of `can_setup_loopback`
rely on.  The client need not call.

In `SpiTransfer` every thread and the bus are fair, and taking `spi_lock` and
`spi_mutex` is strongly fair: both are CAmkES mutexes, seL4 notifications whose
waiting threads the kernel queues in order, so that a thread cannot be passed
over for ever.  In `UartServer` the same is assumed of `state_mtx`, of the
threads and of the clock component, and of the device only that a transmitter
with a request drains.  Nothing is assumed of calls, of the guest and of bytes
that arrive, so `WritesReturn` is about writes only and a read may wait for
ever; its premise is that the interface thread has accepted the call.

## 6. Proofs

Every safety property of the passing runs, invariant or action property, is
proved for all values of the constants; where a theorem is about some clients or
guests only, its hypothesis is named below and met by the run.

`MessageQueue_proof` proves, for every ring size and set of frames, `TypeOK`,
`QueuedFramesWhole` and `ImplementsFifo`.  The inductive
invariant `IInv` adds who holds the lock, and that what an unlocked test found
stays true: only the other thread can change it, and it only makes room
(`RoomStays`) or adds frames (`FrameStays`).

`CanDriver_proof` proves, for all values of the constants, `TypeOK`
(strengthened by the ranges of loop variables inside their loops),
`OneInterruptInFlight` and `TokensCoverFrames`.  `StepKinds` says which steps
move a token at all; the rest of the argument is about those.

The second part of `CanDriver_proof` proves `EveryBufferArmed` and
`QueuedFrameInCycle`.  A buffer is
*armed* when its interrupt is due, is being handled, or will follow from its
transmission.  The invariant says that `start_xmit`, inside its critical
section, has armed every buffer it has passed (`PassedArmed`), that the
handler's private copy of the flags agrees with the controller
(`HandlerInv`), and that `txb_lock` marks the critical section (`LockInv`); a
buffer leaves the cycle only by setting `xmit_stopped`.  For the queue,
*served* buffers are the armed ones except the one whose pop has just come back
empty.  While a frame is queued, every buffer `start_xmit` has passed is served
(`PassedServed`), and before and after `start_xmit` at least one is
(`QueueServed`).  The step that matters is the handler setting `xmit_stopped`
although a frame was pushed after its empty pop: if the flag was clear, every
other buffer is armed, so another one is still to look at the queue.  That needs two
buffers (`TwoBuffers`; with one buffer TLC finds a frame left behind; the chip has
three) and a client that does not abort (`NoAbort`: `can_abort` takes a buffer
out of the cycle and leaves `xmit_stopped` clear).  The theorem says that a
buffer's flag is set or its frame in transmission, not that an interrupt comes of
it: an interrupt may be lost (section 7).  What follows when none is, that the
frame is fetched, is `QueuedFrameFetched`, which stays with TLC.

`CanFrames_proof` proves three properties, each for the clients it is about.
`PendingIsCached`, for clients that do not use `can_send` (`NoSend`: with it the
handler loads buffers of its own accord, without an entry) and frame identifiers
above 0 (`ValidIds`: 0 marks an entry that is not valid): an acknowledged buffer is
in exactly one place, idle, in transmission, in an interrupt to come, in the
handler's hands or in an acknowledge to the client (`OnePlace`), so the handler that
clears a cache entry cannot clear the one of a frame loaded since; and the entry of
such a buffer is valid when a ranking reads it, so it is when it is written back
(`EntryRead`).  `ReceivedInOrder`, for clients of `can_recv` and frames that are
routed to RXB0 (`OnlyQueue`): from the bus over the buffer, the handler's copy, the
ring and the semaphore to the client the arrival numbers ascend, also when frames
are dropped at an overflow. `FramesTakenOnce` draws from the same invariant what
holds of irq.c 153, "3 -- Both": as long as no frame is routed to RXB1, none is
taken twice (section 8).

`TimeServer_proof` proves `AtMostATickEarly`, `NoLostCompletion`, `TypeOK`,
`ListWellFormed`, `ServingEnds` and the whole of `ImplementsTimerService`.  The
first compares, at each completion, the hardware's time with what the client asked
for (`hw_due`).  A delay is added to the server's clock, which is behind the
hardware by the ticks that were lost and by one that may be pending; what is lost
stays lost, because `IrqClear` lets no tick be counted twice (`ClockInv`), so only
the pending one can make the timer early (`DueInv`).  Nothing better holds: with a
tick pending a timer of one unit completes before any time has passed.  The second
needs that between notification and bit the client is notified or about to ask
(`CompletionInv`): it cannot ask, because the mutex is held.  For the list the
invariant says that some function `p` on the naturals, a timer below `k` and NULL
from there on, is what one meets on following `next`, with `prev` its inverse
(`Lists`), that it holds exactly the active timers, each once (`Holds`), by deadline
(`Sorted`).  `RemoveLists` and `InsertLists` show that the writes to the neighbours'
pointers remove and insert one element of `p`; `NodeIs` that the recursive walk
`Node` is `p`, from a least counterexample in place of an induction.  With it every
step of the server is a step of `TimerService` or hidden from it: the head is the
earliest timer (`HeadFirst`), so `SignalClient` expires it and `SignalDone` leaves
nothing that is due.  `ServingEnds` is the variant of the loop of `signal_clients`:
while a tick is served no timer gets more overdue, because the mutex keeps the calls
out, and every round makes the head of the list less overdue, because a period is at
least 1 and the head is really due (`Listed`).  This is the safety core of
`DueTimersServed`, whose conclusion from it and from fairness stays with TLC.

`CanFilter_proof` shows that `CanFilter` implements `CanMode`
(`ConfigImplementsMode`): each access of a filter call is a step of `CanMode` or
hidden from it.  So `TimingInConfigMode`, proved in `CanMode_proof`, holds with
all the accesses in between (`ConfigTimingInConfig`).  `ConfigTypeOK` needs that
the position in a filter call and the filter it is about agree: what is written
is the first filter of a mask or one that was read as empty, and filter 3, whose
addresses are those of the control registers, is neither, in whatever mode the
controller is.  It also needs that the search of `set_baudrate` ends at a number
of quanta it has tried (`TqNumOK`, from the well-foundedness of the natural
numbers).

That held filters are kept is false (section 7), and so is that `set_baudrate`
meets every rate.  What it does with the usual rates is computed from the
definitions: `RatesMet` says that 40000, 50000, 125000, 200000, 250000 and 1000000
come out exactly, with legal segments and the sample point at 65 to 75 percent
of the bit, and `RateMissed` that 500000 becomes a bit of 48 oscillator ticks
although one of 40 exists.  The first goes through `ExactRate`: at 16 quanta or
fewer that divide the bit without rest nothing is left to round
(`DivRoundExact`), and the segments fit their fields and are read back as they
were written (`SegmentsRight`, `RegistersRight`).

`CanMode_proof` proves `TypeOK` and `TimingInConfigMode` for every set
of calls.  The invariant `RequestStands` is worth a theorem of its own
(`WaitsForRequestedMode`): whoever polls for a mode has requested that mode, and
no filter call's request has come in between, so a wait can only end with
the right mode; and a call returns with the mode it is to end in requested.
`LastCallSettles` and `CallsReturn` add that the controller follows.

`SpiTransfer_proof` proves `TypeOK`, `CompletionAwaited` and
`ImplementsSpiInstruction` (its safety part is all of `SpiInstruction`'s
specification) for every number of threads, values and chunks.  The inductive
invariant adds the owners of the two locks, that only the holder of `spi_lock`
is between `Load` and `Unlock` and is the one the interface thread serves, that
`txbuf` is its instruction, and that after the last chunk the reply is on the
wire until the interrupt thread takes it.  Each action is then a step of
`SpiInstruction` or a stutter, one leaf per action.

`UartServer_proof` proves the seven safety properties of the run `uart` for every
number of UARTs, every number of bytes, and every layout of devices over banks.
`DevicesReady`, `SwitchedInReset` and `OtherBitsKept` are about a guest that does
not write the plain registers, which is a hypothesis of their theorems (`"plain"
\notin GuestRegisters`); without it they are false, for `GuestBlocked` is (section
7).  `MutexGivenBack` states the lock's discipline, which the others rest on: the
mutex is with the thread that is in the driver, and only a failed initialisation
keeps it.  `CallReturnsOwnCount` is about any count a read may return.
`WakeupAwaited` needs who holds `state_mtx` and that the flag, the post and the
mutex of a direction exclude each other.  The clock component's part says how far a
setup has come: after each change, which of the device's bits are set, and that
`carReg` agrees with the register on every bit that the guest may not change.  That
is why its unlocked read-modify-write is harmless to the drivers: between the read
and the write only bits of the guest can change, and what is lost is a change of the
guest's.  `RegistersWrittenBack` says that in full: no step changes a bit of a
device that is neither the one being set up nor the guest's, because what the read
has found of them is still so at the write (`BitsWrittenBack`).

The assumptions on constants are `SizeAssumption`, `TornAssumption`, `ChipAssumption`,
`DriverAssumption`, `GpioAssumption`, `FilterAssumption`, `ModeAssumption`,
`TimeServerAssumption`, `SpiAssumption`, `ClkCarAssumption` and `UartAssumption`, in
the modules that declare the constants.

Model-checked only, because liveness is out of the prover's reach:
`CallsReturn` (of the queue and of `CanMode`), `InterruptAcknowledged`,
`QueuedFrameFetched`,
`DueTimersServed`, `LastCallSettles`, `InstructionsReturn` and `WritesReturn`.
The properties of section 7 are false.

## 7. Where code and comments disagree

Each has a run that TLC refutes, and an entry under `findings`:

- `NoLoadWhilePending`: irq.c 133 "Make sure the previous message is sent." --
  the wait reads register 0 and never waits.
- `NoLostInterrupt`: irq.c 185-190 -- a flag set while the handler runs keeps
  the pin low; the acknowledge clears the edge latch and no edge follows.
- `PendingPriorityOrder`: prio.c 12 "Work out the frame priority based on CAN
  ID." -- an entry outlives its frame until the handler clears it, and a valid
  entry gives the next frame in that buffer the highest priority.
- `HeldFiltersKept`: controller.c 350 "Some of the filter are in use, the mask
  has to be the same, otherwise the old filters would be corrupted." -- the mask
  read back goes through a `uint8_t` (327, 333).  Of 0x700 nothing is left: the
  mask counts as empty, and the next `can_set_filter` writes its mask and its
  identifier over those a client holds.  In the run's trace all of this is done in
  configuration mode.  With masks in the low byte only, the property fails as
  well, in another way: the mode is requested and not waited for, an access that
  comes too early reads 0, and filter 0 is given out again (319, "NOTE: Only works
  in configuration mode."; `Requests` with masks below 256 in `can_filter.cfg`
  show it).
- `GuestBlocked`: fwd_driver.c 83-84 "Allows read and write access to all but
  blocks write access if SPI1 or UARTB devices are affected" -- `allow_enbrst`
  looks at the bits of the value that are 1, and the whole value is written (209).
  That is right for the set and clear registers.  In the plain RST_DEVICES and
  CLK_OUT_ENB a 0 bit is written too: the value 0, which passes, ends the reset or
  stops the clock of every device of the bank.

## 8. Not modelled

Byte layout of frames and registers, pin multiplexing,
logging, the device drivers of the platform library (external), generated glue.
`can_setup` is done when `CanDriver` starts; what the
interrupt handler's SPI instructions do while a setup or a filter call has the
controller in another mode is left out.  A frame's `prio` as given by the client of
`can_send` is taken as 0.  In the time server: times do not wrap at 2^64,
`the_timer_time` (a read without the mutex) has no step, a call with a timer
number out of range changes nothing, clients do not ask for a period of 0 (the
server would serve it for ever), and `post_init` knows its timer number (with
another it returns with the mutex held).

Met while modelling and left without a run of their own:

- irq.c 153, "@rx: RXB bits(0 -- None, 1 -- RXB0, 2 -- RXB1, 3 -- Both)":
  `mcp2515_read_rxb` sends mask 0 whatever buffer is asked for (spi_cmd.c 299), so
  for a frame in RXB1 the contents of RXB0 go into the queue, a frame twice, and
  RXB1 is never emptied (`NoFrameTwice` fails with `RxBufs` = {0, 1}).
- A client of both `can_send` and `can_sendto` can overwrite a pending buffer: the
  handler loads idle buffers between `txb_status` and `load_txb`.  Nothing says how
  the two calls are to share the buffers; no run has such a client.
- clkcar.c 72-75: the SPI clock source is ORed into the register, and is source 6
  only if the boot loader has left bit 29 at 0 (section 3).
- `PendingPriorityOrder` fails in two more ways.  A client that waits for every
  acknowledge (`AckedBufs` = {0, 1, 2}) does not escape: the ranking writes back
  the word of an entry that the handler has cleared in between (prio.c 52), and
  the buffer's next frame gets the highest priority.  And the entry of a frame with
  id 0 counts as invalid (prio.c 37) and is left out when the priorities are
  written again (three frames with ids 0, 3 and 2).  Both show when
  `can_priority.cfg` is given these values.
- controller.c 215, "Find the BRP and number of TQ with minimum timing error.":
  the error of a number of quanta is measured against the 50 ns of one oscillator
  period, but a quantum is a multiple of two periods.  For 500000 the search
  settles on 8 quanta of 6 periods, 416.7 kbit/s, where 10 quanta of 4 are exact;
  100000, 400000 and 800000 are off as well.  From 17 quanta on phseg1 is above 8 and
  no longer fits its field; its top bit lands in the bit that asks for triple
  sampling.
- controller.c 370 and 404, "NOTE: Only works in configuration mode.": clearing
  and disabling do not wait for the mode either, and with a frame on the wire
  change nothing, while the client takes its filter for released.
- After an overflow of the receive queue `queue_lock` has been posted for a
  frame that was dropped, and `can_recv` returns with no frame filled in; this is
  part of `CanDriver`, and no property excludes it.
- The interface thread of the UART component serves all UARTs and sleeps in a
  call, so a read without bytes keeps every other call waiting; a call for 0
  bytes is never woken (`CallBack`) and is left out by `Calls`.

In the SPI component, `spi_transfer_byte` and the branch for id 99 have no
caller, and the preparation of the slave at the first transfer has no effect on
the protocol.  Of the clock component's forwarding, reads by the guest and PLL
registers are left out; the UART
component's `fwd_driver.c` passes accesses to UARTD through and keeps nothing.

## 9. Plan

1. Done: queues, CAN driver with controller and GPIO, their proofs.
2. Done: time server, its refinement, and the proofs of its list and of the
   refinement.
3. Done: `CanMode`, `CanFilter` over it, and their proofs.  Left: the interrupt handler
   against a filter call that has taken the controller off the bus.
4. Done: `SpiTransfer`, `ClkCar` and `UartServer`, their refinement and proofs.
   Left: two clients of the UART component with calls in flight at once, the
   guest's access to UARTD.
5. Done: proofs of `ReceivedInOrder` and of the cache of `can_sendto`.
   Left: the same cache for clients that use `can_send` too.
6. Done: proofs of every safety property that a passing run checks.  Left: the
   state from which each liveness property follows by fairness, as an
   invariant, the way `ServingEnds` is for the tick: for `WritesReturn` the
   bytes still to be drained, for `InstructionsReturn` the chunks still to be
   moved.
7. Left: failed SPI transfers in `CanDriver`: what the driver makes of a register
   it has read as garbage.
