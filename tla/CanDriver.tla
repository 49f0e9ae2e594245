------------------------------ MODULE CanDriver ------------------------------
(***************************************************************************)
(* The CAN driver component (components/can): its two threads, the client  *)
(* calls of dev.c on the RPC thread and irq_handler of irq.c on the        *)
(* notification thread, over one MCP2515 and one GPIO interrupt line.      *)
(*                                                                         *)
(* A step is one SPI instruction (spi_lock makes it atomic), one queue     *)
(* operation (MessageQueue shows that it takes effect at one instant), or  *)
(* one access to a variable the threads share.  Initially can__init and    *)
(* can_setup are done: the client calls them once, before anything else.   *)
(***************************************************************************)
EXTENDS Mcp2515

CONSTANTS QSize,       \* MSG_QUEUE_SIZE; a queue holds QSize - 1 frames
          CanId,       \* CanId[n]: the identifier of the client's n-th frame
          Ops,         \* the calls this client makes
          AckedBufs    \* the TX buffers it reuses only after their txbN_ack

ASSUME DriverAssumption ==
  /\ QSize \in Nat \ {0}
  /\ CanId \in [1 .. MaxSend -> Nat]
  /\ Ops \subseteq {"send", "recv", "sendto", "abort", "recv_rxb"}
  /\ AckedBufs \subseteq Txb

VARIABLES txq, rxq,      \* the message queues, oldest frame first
          queue_lock,    \* the semaphore can_recv waits on
          xmit_stopped,  \* TX interrupts have to be started by hand
          txb_lock,      \* "free" or the thread that holds it
          txb_cache,     \* what prio.c remembers of each TX buffer's frame
          acked          \* TX buffers whose txbN_ack the client has seen

VARIABLES rpcPc,         \* where the RPC thread is
          rpcFrame,      \* the frame it sends
          rpcTxb,        \* txb_idx, or the loop variable of start_xmit
          rpcRet,        \* what tx_queue_push returned: accepted or not
          rpcTodo,       \* iterations left of get_frame_priority's loop:
                         \*   pairs of buffers, a single buffer twice
          rpcIdx,        \* the cache entry it is working on
          rpcEntry,      \* what it read there
          rpcPrio,       \* frame.prio
          offered        \* number of frames the client has offered

VARIABLES intPc,         \* where irq_handler is
          intTx, intRx, intFault,  \* the flags it read from CANINTF
          intEflg,       \* the overflow flags it read from EFLG
          intTxb,        \* the loop variable of transmit_message
          intFrame,      \* its stack frame
          intRts,        \* the buffers it has loaded
          delivered      \* frames handed to the client, in order

queueVars == <<txq, rxq, queue_lock>>
xmitVars == <<xmit_stopped, txb_lock>>
cacheVars == <<txb_cache, acked>>
sendtoVars == <<rpcTodo, rpcIdx, rpcEntry, rpcPrio>>
rpcVars == <<rpcPc, rpcFrame, rpcTxb, rpcRet, sendtoVars, offered>>
intVars == <<intPc, intTx, intRx, intFault, intEflg, intTxb, intFrame, intRts>>
vars == <<gpioVars, chipVars, queueVars, xmitVars, cacheVars, rpcVars,
          intVars, delivered>>

(* struct canid_cache; exide is left out.                                  *)
CacheEntry == [canid : Nat, priority : 0 .. 3]
NoEntry == [canid |-> 0, priority |-> 0]

IntIdle ==
  /\ intPc = "wait"
  /\ intTx = {} /\ intRx = {} /\ intFault = {} /\ intEflg = {}
  /\ intTxb = 0 /\ intFrame = 0 /\ intRts = {}

Init ==
  /\ GpioInit
  /\ Mcp2515Init
  /\ txq = <<>> /\ rxq = <<>>
  /\ queue_lock = 0
  /\ xmit_stopped = TRUE
  /\ txb_lock = "free"
  /\ txb_cache = [b \in Txb |-> NoEntry]
  /\ acked = Txb
  /\ rpcPc = "idle"
  /\ rpcFrame = 0 /\ rpcTxb = 0 /\ rpcRet = FALSE
  /\ rpcTodo = {} /\ rpcIdx = 0 /\ rpcEntry = NoEntry /\ rpcPrio = 0
  /\ offered = 0
  /\ IntIdle
  /\ delivered = <<>>

-----------------------------------------------------------------------------
(* can_send: push and start_xmit, again and again until the push succeeds. *)

Send ==
  /\ "send" \in Ops
  /\ rpcPc = "idle"
  /\ offered < MaxSend
  /\ offered' = offered + 1
  /\ rpcFrame' = offered + 1
  /\ rpcPc' = "push"
  /\ UNCHANGED <<gpioVars, chipVars, queueVars, xmitVars, cacheVars, rpcTxb,
                 rpcRet, sendtoVars, intVars, delivered>>

(* Mutant: the queue is not tested for full.                               *)
SendPush_NoFullTest ==
  /\ rpcPc = "push"
  /\ rpcRet' = TRUE
  /\ txq' = Append(txq, rpcFrame)
  /\ rpcPc' = "test"
  /\ UNCHANGED <<gpioVars, chipVars, rxq, queue_lock, xmitVars, cacheVars,
                 rpcFrame, rpcTxb, sendtoVars, offered, intVars, delivered>>

(* tx_queue_push.                                                          *)
SendPush ==
  /\ rpcPc = "push"
  /\ rpcRet' = (Len(txq) < QSize - 1)
  /\ txq' = IF Len(txq) < QSize - 1 THEN Append(txq, rpcFrame) ELSE txq
  /\ rpcPc' = "test"
  /\ UNCHANGED <<gpioVars, chipVars, rxq, queue_lock, xmitVars, cacheVars,
                 rpcFrame, rpcTxb, sendtoVars, offered, intVars, delivered>>

SendAgainOrReturn == IF rpcRet THEN "idle" ELSE "push"

(* start_xmit reads xmit_stopped before it takes txb_lock.                 *)
XmitTest ==
  /\ rpcPc = "test"
  /\ rpcPc' = IF xmit_stopped THEN "lock" ELSE SendAgainOrReturn
  /\ UNCHANGED <<gpioVars, chipVars, queueVars, xmitVars, cacheVars, rpcFrame,
                 rpcTxb, rpcRet, sendtoVars, offered, intVars, delivered>>

XmitLock ==
  /\ rpcPc = "lock"
  /\ txb_lock = "free"
  /\ txb_lock' = "rpc"
  /\ rpcTxb' = 0
  /\ rpcPc' = "probe"
  /\ UNCHANGED <<gpioVars, chipVars, queueVars, xmit_stopped, cacheVars,
                 rpcFrame, rpcRet, sendtoVars, offered, intVars, delivered>>

(* Reads TXBnCTRL.TXREQ of one buffer.                                     *)
XmitProbe ==
  /\ rpcPc = "probe"
  /\ rpcTxb \in Txb
  /\ IF rpcTxb \in txreq
     THEN rpcTxb' = rpcTxb + 1 /\ UNCHANGED rpcPc
     ELSE rpcPc' = "trigger" /\ UNCHANGED rpcTxb
  /\ UNCHANGED <<gpioVars, chipVars, queueVars, xmitVars, cacheVars, rpcFrame,
                 rpcRet, sendtoVars, offered, intVars, delivered>>

(* Sets the TX interrupt flag of an empty buffer by hand ...               *)
XmitTrigger ==
  /\ rpcPc = "trigger"
  /\ SetTxif(rpcTxb)
  /\ rpcPc' = "started"
  /\ UNCHANGED <<gpioRest, txChipVars, rxChipVars, queueVars, xmitVars,
                 cacheVars, rpcFrame, rpcTxb, rpcRet, sendtoVars, offered,
                 intVars, delivered>>

(* Mutant: only the first empty buffer is started.                         *)
XmitStarted_FirstOnly ==
  /\ rpcPc = "started"
  /\ xmit_stopped' = FALSE
  /\ rpcTxb' = TXB_NUM
  /\ rpcPc' = "probe"
  /\ UNCHANGED <<gpioVars, chipVars, queueVars, txb_lock, cacheVars, rpcFrame,
                 rpcRet, sendtoVars, offered, intVars, delivered>>

(* ... and clears xmit_stopped.                                            *)
XmitStarted ==
  /\ rpcPc = "started"
  /\ xmit_stopped' = FALSE
  /\ rpcTxb' = rpcTxb + 1
  /\ rpcPc' = "probe"
  /\ UNCHANGED <<gpioVars, chipVars, queueVars, txb_lock, cacheVars, rpcFrame,
                 rpcRet, sendtoVars, offered, intVars, delivered>>

(* Mutant: the lock is kept.                                               *)
XmitUnlock_Forgotten ==
  /\ rpcPc = "probe"
  /\ rpcTxb = TXB_NUM
  /\ rpcTxb' = 0
  /\ rpcPc' = SendAgainOrReturn
  /\ UNCHANGED <<gpioVars, chipVars, queueVars, xmitVars, cacheVars,
                 rpcFrame, rpcRet, sendtoVars, offered, intVars, delivered>>

XmitUnlock ==
  /\ rpcPc = "probe"
  /\ rpcTxb = TXB_NUM
  /\ txb_lock' = "free"
  /\ rpcTxb' = 0
  /\ rpcPc' = SendAgainOrReturn
  /\ UNCHANGED <<gpioVars, chipVars, queueVars, xmit_stopped, cacheVars,
                 rpcFrame, rpcRet, sendtoVars, offered, intVars, delivered>>

-----------------------------------------------------------------------------
(* can_recv and can_recv_rxb.                                              *)

Recv ==
  /\ "recv" \in Ops
  /\ rpcPc = "idle"
  /\ rpcPc' = "sem"
  /\ UNCHANGED <<gpioVars, chipVars, queueVars, xmitVars, cacheVars, rpcFrame,
                 rpcTxb, rpcRet, sendtoVars, offered, intVars, delivered>>

(* queue_lock_wait.                                                        *)
RecvWait ==
  /\ rpcPc = "sem"
  /\ queue_lock > 0
  /\ queue_lock' = queue_lock - 1
  /\ rpcPc' = "pop"
  /\ UNCHANGED <<gpioVars, chipVars, txq, rxq, xmitVars, cacheVars, rpcFrame,
                 rpcTxb, rpcRet, sendtoVars, offered, intVars, delivered>>

(* rx_queue_pop; its result is not looked at.                              *)
RecvPop ==
  /\ rpcPc = "pop"
  /\ IF rxq = <<>>
     THEN UNCHANGED <<rxq, delivered>>
     ELSE /\ delivered' = Append(delivered, Head(rxq))
          /\ rxq' = Tail(rxq)
  /\ rpcPc' = "idle"
  /\ UNCHANGED <<gpioVars, chipVars, txq, queue_lock, xmitVars, cacheVars,
                 rpcFrame, rpcTxb, rpcRet, sendtoVars, offered, intVars>>

(* Reads a receive buffer past the queue.                                  *)
RecvRxb ==
  /\ "recv_rxb" \in Ops
  /\ rpcPc = "idle"
  /\ \E idx \in {0, 1} : mcp2515_read_rxb(idx)
  /\ UNCHANGED <<gpioRest, txChipVars, rxChipVars, queueVars, xmitVars,
                 cacheVars, rpcVars, intVars, delivered>>

-----------------------------------------------------------------------------
(* can_sendto and can_abort: a transmit buffer of the client's choice.     *)

Sendto ==
  /\ "sendto" \in Ops
  /\ rpcPc = "idle"
  /\ offered < MaxSend
  /\ \E b \in Txb :
       /\ b \in AckedBufs => b \in acked
       /\ rpcTxb' = b
  /\ offered' = offered + 1
  /\ rpcFrame' = offered + 1
  /\ rpcPc' = "status"
  /\ UNCHANGED <<gpioVars, chipVars, queueVars, xmitVars, cacheVars, rpcRet,
                 sendtoVars, intVars, delivered>>

(* txb_status: only an IDLE buffer is used.  A client that waits for the   *)
(* acknowledge starts waiting here.                                        *)
SendtoStatus ==
  /\ rpcPc = "status"
  /\ IF rpcTxb \in txreq
     THEN /\ rpcPc' = "idle"
          /\ rpcTxb' = 0
          /\ UNCHANGED acked
     ELSE /\ rpcPc' = "prio"
          /\ acked' = acked \ {rpcTxb}
          /\ UNCHANGED rpcTxb
  /\ UNCHANGED <<gpioVars, chipVars, queueVars, xmitVars, txb_cache, rpcFrame,
                 rpcRet, sendtoVars, offered, intVars, delivered>>

canid_cache_is_valid(b) == txb_cache[b].canid # 0

(* The iterations of a loop over the buffers and of the ranking, in their  *)
(* order.                                                                  *)
EachBuffer == {<<b, b>> : b \in Txb}
EachPair == {q \in Txb \X Txb : q[1] < q[2]}

Before(q, r) == q[1] < r[1] \/ (q[1] = r[1] /\ q[2] <= r[2])
NextIteration(q) == q \in rpcTodo /\ \A r \in rpcTodo : Before(q, r)

(* get_frame_priority.  A valid entry means "pending": -1, which is 3 in   *)
(* the two bits of frame.prio.  Otherwise the canid is stored.             *)
SendtoPriority ==
  /\ rpcPc = "prio"
  /\ IF canid_cache_is_valid(rpcTxb)
     THEN /\ rpcPrio' = 3
          /\ rpcPc' = "load"
          /\ UNCHANGED <<txb_cache, rpcTodo>>
     ELSE /\ txb_cache' = [txb_cache EXCEPT ![rpcTxb].canid = CanId[rpcFrame]]
          /\ rpcTodo' = EachBuffer
          /\ rpcPc' = "zero"
          /\ UNCHANGED rpcPrio
  /\ UNCHANGED <<gpioVars, chipVars, queueVars, xmitVars, acked, rpcFrame,
                 rpcTxb, rpcRet, rpcIdx, rpcEntry, offered, intVars,
                 delivered>>

(* Reads entry b, to write its priority or to use it.                      *)
ReadEntry(b) == rpcIdx' = b /\ rpcEntry' = txb_cache[b]

(* The three loops read an entry: the first to zero its priority, ...      *)
SendtoZero ==
  /\ rpcPc = "zero"
  /\ \E q \in Txb \X Txb : /\ NextIteration(q)
                            /\ ReadEntry(q[1])
                            /\ rpcTodo' = rpcTodo \ {q}
  /\ rpcPc' = "zeroed"
  /\ UNCHANGED <<gpioVars, chipVars, queueVars, xmitVars, cacheVars, rpcFrame,
                 rpcTxb, rpcRet, rpcPrio, offered, intVars, delivered>>

(* ... the second to count in it the buffers with a larger canid, ...      *)
SendtoRank ==
  /\ rpcPc = "rank"
  /\ \E q \in Txb \X Txb :
       /\ NextIteration(q)
       /\ rpcTodo' = rpcTodo \ {q}
       /\ IF txb_cache[q[1]].canid = txb_cache[q[2]].canid
          THEN UNCHANGED <<rpcPc, rpcIdx, rpcEntry>>
          ELSE /\ ReadEntry(IF txb_cache[q[1]].canid < txb_cache[q[2]].canid
                            THEN q[1] ELSE q[2])
               /\ rpcPc' = "ranked"
  /\ UNCHANGED <<gpioVars, chipVars, queueVars, xmitVars, cacheVars, rpcFrame,
                 rpcTxb, rpcRet, rpcPrio, offered, intVars, delivered>>

(* ... and write it.  canid and priority share a word: the whole entry is  *)
(* written, as it was read before, or now if the compiler reads it again.  *)
(* So an entry the interrupt handler has cleared meanwhile may come back.  *)
SendtoWriteEntry ==
  /\ rpcPc \in {"zeroed", "ranked"}
  /\ \E entry \in {rpcEntry, txb_cache[rpcIdx]} :
       txb_cache' = [txb_cache EXCEPT ![rpcIdx] =
                      [canid |-> entry.canid,
                       priority |-> IF rpcPc = "zeroed" THEN 0
                                    ELSE (entry.priority + 1) % 4]]
  /\ rpcPc' = IF rpcPc = "zeroed" THEN "zero" ELSE "rank"
  /\ rpcIdx' = 0 /\ rpcEntry' = NoEntry
  /\ UNCHANGED <<gpioVars, chipVars, queueVars, xmitVars, acked, rpcFrame,
                 rpcTxb, rpcRet, rpcTodo, rpcPrio, offered, intVars,
                 delivered>>

(* The next loop, when one is over.                                        *)
SendtoNextLoop ==
  /\ rpcPc \in {"zero", "rank"}
  /\ rpcTodo = {}
  /\ IF rpcPc = "zero"
     THEN rpcPc' = "rank" /\ rpcTodo' = EachPair
     ELSE rpcPc' = "reprio" /\ rpcTodo' = EachBuffer \ {<<rpcTxb, rpcTxb>>}
  /\ UNCHANGED <<gpioVars, chipVars, queueVars, xmitVars, cacheVars, rpcFrame,
                 rpcTxb, rpcRet, rpcIdx, rpcEntry, rpcPrio, offered, intVars,
                 delivered>>

(* The third loop writes the priority of the other valid entries ...       *)
SendtoReprioritise ==
  /\ rpcPc = "reprio"
  /\ \E q \in Txb \X Txb :
       /\ NextIteration(q)
       /\ rpcTodo' = rpcTodo \ {q}
       /\ IF canid_cache_is_valid(q[1])
          THEN ReadEntry(q[1]) /\ rpcPc' = "bitmod"
          ELSE UNCHANGED <<rpcPc, rpcIdx, rpcEntry>>
  /\ UNCHANGED <<gpioVars, chipVars, queueVars, xmitVars, cacheVars, rpcFrame,
                 rpcTxb, rpcRet, rpcPrio, offered, intVars, delivered>>

(* ... with BIT MODIFY of TXBnCTRL.TXP.                                    *)
SendtoBitModify ==
  /\ rpcPc = "bitmod"
  /\ txp' = [txp EXCEPT ![rpcIdx] = rpcEntry.priority]
  /\ rpcPc' = "reprio"
  /\ rpcIdx' = 0 /\ rpcEntry' = NoEntry
  /\ UNCHANGED <<gpioVars, intfVars, rxChipVars, txreq, txb, queueVars,
                 xmitVars, cacheVars, rpcFrame, rpcTxb, rpcRet, rpcTodo,
                 rpcPrio, offered, intVars, delivered>>

SendtoRanked ==
  /\ rpcPc = "reprio"
  /\ rpcTodo = {}
  /\ rpcPrio' = txb_cache[rpcTxb].priority
  /\ rpcPc' = "load"
  /\ UNCHANGED <<gpioVars, chipVars, queueVars, xmitVars, cacheVars, rpcFrame,
                 rpcTxb, rpcRet, rpcTodo, rpcIdx, rpcEntry, offered, intVars,
                 delivered>>

(* load_txb: LOAD TX BUFFER, then BIT MODIFY of TXP.                       *)
SendtoLoad ==
  /\ rpcPc = "load"
  /\ mcp2515_load_txb(rpcTxb, rpcFrame)
  /\ rpcPc' = "loaded"
  /\ UNCHANGED <<gpioVars, intfVars, rxChipVars, txreq, txp, queueVars,
                 xmitVars, cacheVars, rpcFrame, rpcTxb, rpcRet, sendtoVars,
                 offered, intVars, delivered>>

SendtoSetPrio ==
  /\ rpcPc = "loaded"
  /\ txp' = [txp EXCEPT ![rpcTxb] = rpcPrio]
  /\ rpcPc' = "rts"
  /\ UNCHANGED <<gpioVars, intfVars, rxChipVars, txreq, txb, queueVars,
                 xmitVars, cacheVars, rpcFrame, rpcTxb, rpcRet, sendtoVars,
                 offered, intVars, delivered>>

SendtoRts ==
  /\ rpcPc = "rts"
  /\ mcp2515_rts({rpcTxb})
  /\ rpcPc' = "idle"
  /\ rpcTxb' = 0
  /\ rpcPrio' = 0
  /\ UNCHANGED <<gpioVars, intfVars, rxChipVars, txb, txp, queueVars,
                 xmitVars, cacheVars, rpcFrame, rpcRet, rpcTodo, rpcIdx,
                 rpcEntry, offered, intVars, delivered>>

(* abort_tx clears TXREQ; the controller sets no TX flag for it.           *)
Abort ==
  /\ "abort" \in Ops
  /\ rpcPc = "idle"
  /\ \E b \in Txb : txreq' = txreq \ {b}
  /\ UNCHANGED <<gpioVars, intfVars, rxChipVars, txb, txp, queueVars,
                 xmitVars, cacheVars, rpcVars, intVars, delivered>>
-----------------------------------------------------------------------------
(* irq_handler, on the flags it read once at its start.                    *)

intRest == <<queueVars, xmitVars, cacheVars, rpcVars, delivered>>

AfterRx0 == IF 1 \in intRx THEN "rx1" ELSE "ack"
AfterTx == IF 0 \in intRx THEN "rx0" ELSE AfterRx0
AfterError == IF intTx # {} THEN "txclear" ELSE AfterTx
AfterWake == IF "ERR" \in intFault THEN "eflg" ELSE AfterError

(* Waits for CAN1Int, then reads CANINTF.                                  *)
IntStart ==
  /\ intPc = "wait"
  /\ canInt
  /\ canInt' = FALSE
  /\ intPc' = "flags"
  /\ UNCHANGED <<gpioPending, irqMasked, canIntAck, gpioPc, chipVars, intRest,
                 intTx, intRx, intFault, intEflg, intTxb, intFrame, intRts>>

IntFlags ==
  /\ intPc = "flags"
  /\ intTx' = txif /\ intRx' = rxif /\ intFault' = fault
  /\ intPc' = "faults"
  /\ UNCHANGED <<gpioVars, chipVars, intRest, intEflg, intTxb, intFrame,
                 intRts>>

(* report_message_error and the WAKIF branch: the mode is not listen-only, *)
(* so each only clears its flag.                                           *)
IntFault ==
  /\ intPc = "faults"
  /\ intFault \ {"ERR"} # {}
  /\ LET f == IF "MERR" \in intFault THEN "MERR" ELSE "WAK"
     IN /\ ClearFault(f)
        /\ intFault' = intFault \ {f}
  /\ UNCHANGED <<gpioRest, txChipVars, rxChipVars, intRest, intPc, intTx,
                 intRx, intEflg, intTxb, intFrame, intRts>>

IntFaultsDone ==
  /\ intPc = "faults"
  /\ intFault \ {"ERR"} = {}
  /\ intPc' = AfterWake
  /\ UNCHANGED <<gpioVars, chipVars, intRest, intTx, intRx, intFault, intEflg,
                 intTxb, intFrame, intRts>>

(* report_error: read EFLG, clear the overflow flags read, clear ERRIF.    *)
IntReadEflg ==
  /\ intPc = "eflg"
  /\ intEflg' = eflg
  /\ intPc' = IF eflg # {} THEN "ovr" ELSE "errif"
  /\ UNCHANGED <<gpioVars, chipVars, intRest, intTx, intRx, intFault, intTxb,
                 intFrame, intRts>>

IntClearOverflow ==
  /\ intPc = "ovr"
  /\ eflg' = eflg \ intEflg
  /\ intEflg' = {}
  /\ intPc' = "errif"
  /\ UNCHANGED <<gpioVars, intfVars, txChipVars, rxb, arrived, intRest, intTx,
                 intRx, intFault, intTxb, intFrame, intRts>>

IntClearError ==
  /\ intPc = "errif"
  /\ ClearFault("ERR")
  /\ intFault' = {}
  /\ intPc' = AfterError
  /\ UNCHANGED <<gpioRest, txChipVars, rxChipVars, intRest, intTx, intRx,
                 intEflg, intTxb, intFrame, intRts>>

(* transmit_message: clear the TX flags that were read, then go through    *)
(* the buffers from the highest to the lowest.  intTx is what is left.     *)
IntTxClear ==
  /\ intPc = "txclear"
  /\ ClearTxif(intTx)
  /\ intPc' = "txbuf"
  /\ UNCHANGED <<gpioRest, txChipVars, rxChipVars, intRest, intTx, intRx,
                 intFault, intEflg, intTxb, intFrame, intRts>>

NextTxb ==
  /\ intTx' = intTx \ {intTxb}
  /\ intTxb' = 0
  /\ intPc' = IF intTx' = {} THEN "txrts" ELSE "txbuf"

(* Mutant: the whole cache is cleared.                                     *)
IntTxAck_ClearAll ==
  /\ intPc = "txbuf"
  /\ \E b \in intTx :
       /\ \A c \in intTx : c <= b
       /\ intTxb' = b
       /\ txb_cache' = [c \in Txb |-> NoEntry]
       /\ acked' = acked \cup {b}
  /\ intPc' = "txpop"
  /\ UNCHANGED <<gpioVars, chipVars, queueVars, xmitVars, rpcVars, delivered,
                 intTx, intRx, intFault, intEflg, intFrame, intRts>>

(* canid_clear_cache and txbN_ack_emit.                                    *)
IntTxAck ==
  /\ intPc = "txbuf"
  /\ \E b \in intTx :
       /\ \A c \in intTx : c <= b
       /\ intTxb' = b
       /\ txb_cache' = [txb_cache EXCEPT ![b] = NoEntry]
       /\ acked' = acked \cup {b}
  /\ intPc' = "txpop"
  /\ UNCHANGED <<gpioVars, chipVars, queueVars, xmitVars, rpcVars, delivered,
                 intTx, intRx, intFault, intEflg, intFrame, intRts>>

(* Mutant: the buffer is left without stopping the transmission.           *)
IntTxPop_NoStop ==
  /\ intPc = "txpop"
  /\ IF txq = <<>>
     THEN NextTxb /\ UNCHANGED <<txq, intFrame>>
     ELSE /\ intFrame' = Head(txq)
          /\ txq' = Tail(txq)
          /\ intPc' = "txload"
          /\ UNCHANGED <<intTx, intTxb>>
  /\ UNCHANGED <<gpioVars, chipVars, rxq, queue_lock, xmitVars, cacheVars,
                 rpcVars, delivered, intRx, intFault, intEflg, intRts>>

(* tx_queue_pop.                                                           *)
IntTxPop ==
  /\ intPc = "txpop"
  /\ IF txq = <<>>
     THEN intPc' = "stop" /\ UNCHANGED <<txq, intFrame>>
     ELSE /\ intFrame' = Head(txq)
          /\ txq' = Tail(txq)
          /\ intPc' = "txload"
  /\ UNCHANGED <<gpioVars, chipVars, rxq, queue_lock, xmitVars, cacheVars,
                 rpcVars, delivered, intTx, intRx, intFault, intEflg, intTxb,
                 intRts>>

(* The loop that is to wait for TXREQ reads register TXBCTRL(i) & TXREQ,   *)
(* which is register 0 (RXF0SIDH) for every i.  Outside configuration mode *)
(* that register reads 0: the loop never waits.                            *)
PreviousPending(b) == FALSE

(* load_txb: LOAD TX BUFFER ...                                            *)
IntTxLoad ==
  /\ intPc = "txload"
  /\ ~PreviousPending(intTxb)
  /\ mcp2515_load_txb(intTxb, intFrame)
  /\ intPc' = "txprio"
  /\ UNCHANGED <<gpioVars, intfVars, rxChipVars, txreq, txp, intRest, intTx,
                 intRx, intFault, intEflg, intTxb, intFrame, intRts>>

(* ... and BIT MODIFY of TXP, with the prio of can_send's frame, say LOW.  *)
IntTxSetPrio ==
  /\ intPc = "txprio"
  /\ txp' = [txp EXCEPT ![intTxb] = 0]
  /\ intRts' = intRts \cup {intTxb}
  /\ intFrame' = 0
  /\ NextTxb
  /\ UNCHANGED <<gpioVars, intfVars, rxChipVars, txreq, txb, intRest, intRx,
                 intFault, intEflg>>

(* xmit_stopped = 1 under txb_lock.                                        *)
IntTxStop ==
  /\ intPc = "stop"
  /\ txb_lock = "free"
  /\ xmit_stopped' = TRUE
  /\ NextTxb
  /\ UNCHANGED <<gpioVars, chipVars, queueVars, txb_lock, cacheVars, rpcVars,
                 delivered, intRx, intFault, intEflg, intFrame, intRts>>

IntTxRts ==
  /\ intPc = "txrts"
  /\ mcp2515_rts(intRts)
  /\ intRts' = {}
  /\ intPc' = AfterTx
  /\ UNCHANGED <<gpioVars, intfVars, rxChipVars, txb, txp, intRest, intTx,
                 intRx, intFault, intEflg, intTxb, intFrame>>

(* receive_message: recv_rxb(0) and recv_rxb(1), each with its push and    *)
(* its post.                                                               *)
IntRxRead ==
  /\ intPc \in {"rx0", "rx1"}
  /\ LET idx == IF intPc = "rx0" THEN 0 ELSE 1
     IN /\ mcp2515_read_rxb(idx)
        /\ intFrame' = RxbRead(idx)
        /\ intRx' = intRx \ {idx}
  /\ intPc' = "rxpush"
  /\ UNCHANGED <<gpioRest, txChipVars, rxChipVars, intRest, intTx, intFault,
                 intEflg, intTxb, intRts>>

(* Mutant: the post is missing.                                            *)
IntRxPush_NoPost ==
  /\ intPc = "rxpush"
  /\ rxq' = IF Len(rxq) < QSize - 1 THEN Append(rxq, intFrame) ELSE rxq
  /\ intFrame' = 0
  /\ intPc' = AfterRx0
  /\ UNCHANGED <<gpioVars, chipVars, txq, queue_lock, xmitVars, cacheVars,
                 rpcVars, delivered, intTx, intRx, intFault, intEflg, intTxb,
                 intRts>>

(* rx_queue_push; a frame that finds the queue full is dropped.            *)
IntRxPush ==
  /\ intPc = "rxpush"
  /\ rxq' = IF Len(rxq) < QSize - 1 THEN Append(rxq, intFrame) ELSE rxq
  /\ intFrame' = 0
  /\ intPc' = "rxpost"
  /\ UNCHANGED <<gpioVars, chipVars, txq, queue_lock, xmitVars, cacheVars,
                 rpcVars, delivered, intTx, intRx, intFault, intEflg, intTxb,
                 intRts>>

(* queue_lock_post, whether the push succeeded or not.                     *)
IntRxPost ==
  /\ intPc = "rxpost"
  /\ queue_lock' = queue_lock + 1
  /\ intPc' = AfterRx0
  /\ UNCHANGED <<gpioVars, chipVars, txq, rxq, xmitVars, cacheVars, rpcVars,
                 delivered, intTx, intRx, intFault, intEflg, intTxb, intFrame,
                 intRts>>

(* Int_reg_callback and IntAck_emit.                                       *)
IntAckEmit ==
  /\ intPc = "ack"
  /\ canIntAck' = TRUE
  /\ intPc' = "wait"
  /\ UNCHANGED <<gpioPending, irqMasked, canInt, gpioPc, chipVars, intRest,
                 intTx, intRx, intFault, intEflg, intTxb, intFrame, intRts>>

-----------------------------------------------------------------------------
RpcCall == Send \/ Recv \/ RecvRxb \/ Sendto \/ Abort

XmitStep ==
  \/ XmitTest \/ XmitLock \/ XmitProbe \/ XmitTrigger \/ XmitStarted
  \/ XmitUnlock

SendtoStep ==
  \/ SendtoStatus \/ SendtoPriority
  \/ SendtoZero \/ SendtoRank \/ SendtoWriteEntry \/ SendtoNextLoop
  \/ SendtoReprioritise \/ SendtoBitModify \/ SendtoRanked
  \/ SendtoLoad \/ SendtoSetPrio \/ SendtoRts

RpcStep == SendPush \/ XmitStep \/ RecvWait \/ RecvPop \/ SendtoStep

IntTxStep ==
  \/ IntTxClear \/ IntTxAck \/ IntTxPop \/ IntTxLoad \/ IntTxSetPrio
  \/ IntTxStop \/ IntTxRts

IntStep ==
  \/ IntStart \/ IntFlags \/ IntFault \/ IntFaultsDone
  \/ IntReadEflg \/ IntClearOverflow \/ IntClearError
  \/ IntTxStep
  \/ IntRxRead \/ IntRxPush \/ IntRxPost
  \/ IntAckEmit

(* The bus and the gpio component leave the driver's own state alone.      *)
driverVars == <<queueVars, xmitVars, cacheVars, rpcVars, intVars, delivered>>

Environment ==
  \/ BusNext /\ UNCHANGED driverVars
  \/ GpioNext /\ UNCHANGED <<chipVars, driverVars>>

Next == RpcCall \/ RpcStep \/ IntStep \/ Environment

Spec == Init /\ [][Next]_vars

(* Threads that can run do run; the client need not call and the bus need  *)
(* not move.                                                               *)
FairSpec ==
  /\ Spec
  /\ WF_vars(RpcStep)
  /\ WF_vars(IntStep)
  /\ WF_vars(GpioNext /\ UNCHANGED <<chipVars, driverVars>>)

-----------------------------------------------------------------------------
RpcPcs == {"idle", "push", "test", "lock", "probe", "trigger", "started",
           "sem", "pop", "status", "prio", "zero", "zeroed", "rank", "ranked",
           "reprio", "bitmod", "load", "loaded", "rts"}

IntPcs == {"wait", "flags", "faults", "eflg", "ovr", "errif", "txclear",
           "txbuf", "txpop", "txload", "txprio", "stop", "txrts", "rx0",
           "rx1", "rxpush", "rxpost", "ack"}

TypeOK ==
  /\ GpioTypeOK
  /\ Mcp2515TypeOK
  /\ txq \in Seq(TxFrame) /\ Len(txq) < QSize
  /\ rxq \in Seq(RxFrame) /\ Len(rxq) < QSize
  /\ queue_lock \in Nat
  /\ xmit_stopped \in BOOLEAN
  /\ txb_lock \in {"free", "rpc"}
  /\ txb_cache \in [Txb -> CacheEntry]
  /\ acked \subseteq Txb
  /\ rpcPc \in RpcPcs
  /\ rpcFrame \in TxFrame
  /\ rpcTxb \in 0 .. TXB_NUM
  /\ rpcRet \in BOOLEAN
  /\ rpcTodo \subseteq Txb \X Txb
  /\ rpcIdx \in Txb
  /\ rpcEntry \in CacheEntry
  /\ rpcPrio \in 0 .. 3
  /\ offered \in TxFrame
  /\ intPc \in IntPcs
  /\ intTx \subseteq Txb
  /\ intRx \subseteq {0, 1}
  /\ intFault \subseteq {"MERR", "WAK", "ERR"}
  /\ intEflg \subseteq {0, 1}
  /\ intTxb \in Txb
  /\ intFrame \in TxFrame \cup RxFrame
  /\ intRts \subseteq Txb
  /\ delivered \in Seq(RxFrame)

(* A buffer is served when a TX interrupt for it is due, is being handled  *)
(* or will follow from its transmission; InHand are the buffers whose flag *)
(* transmit_message has cleared and which it has not finished with.        *)
InHand ==
  IF intPc \in {"txclear", "txbuf", "txpop", "txload", "txprio", "stop"}
  THEN intTx ELSE {}

Armed == txif \cup txreq \cup intRts \cup InHand

(* While xmit_stopped is clear EVERY transmit buffer is in the cycle of    *)
(* interrupt, load and transmission: a buffer leaves it only by setting    *)
(* xmit_stopped, and start_xmit, which clears it, puts every empty buffer  *)
(* back.  (Inside its critical section start_xmit has come to rpcTxb.)     *)
EveryBufferArmed ==
  ~xmit_stopped /\ txb_lock = "free" => Txb \subseteq Armed

(* When can_send has returned and the handler is done, a frame left in the *)
(* TX queue has a buffer left in that cycle: one whose flag is set or that *)
(* is in transmission.  The handler finds the queue empty and sets         *)
(* xmit_stopped in two steps, and start_xmit tests xmit_stopped without    *)
(* the lock (irq.c 132-141, 260).  That a flag makes an interrupt is       *)
(* another matter (NoLostInterrupt).                                       *)
QueuedFrameInCycle ==
  txq # <<>> /\ rpcPc = "idle" /\ intPc = "wait" => txif \cup txreq # {}

(* can_recv cannot sleep on queue_lock while a frame it could have is in   *)
(* the RX queue: every queued frame has its post, given or about to be     *)
(* given, although pushes and posts are separate steps.                    *)
One(condition) == IF condition THEN 1 ELSE 0

TokensCoverFrames ==
  Len(rxq) <= queue_lock + One(rpcPc = "pop") + One(intPc = "rxpost")

(* Frames reach can_recv in the order in which they arrived and at most    *)
(* once: the ones delivered, queued, in the handler's hands and in RXB0.   *)
Pipeline ==
  delivered \o rxq \o (IF intPc = "rxpush" THEN <<intFrame>> ELSE <<>>)
            \o (IF 0 \in rxif THEN <<rxb[0]>> ELSE <<>>)

ReceivedInOrder ==
  \A i, j \in 1 .. Len(Pipeline) : i < j => Pipeline[i] < Pipeline[j]

(* From the masked GPIO interrupt to its acknowledge there is exactly one  *)
(* token: CAN1Int, the handler, CANIntAck, or whoever acknowledges.  So no *)
(* notification is emitted while pending (it would be lost), and the       *)
(* callback never runs twice for one interrupt.                            *)
OneInterruptInFlight ==
  One(canInt) + One(intPc # "wait") + One(canIntAck) + One(gpioPc # "idle")
    = One(irqMasked)

(* The handler and the acknowledge always finish, although the handler     *)
(* spins on txb_lock, which the client's thread takes in start_xmit.       *)
InterruptAcknowledged == irqMasked ~> ~irqMasked

(* As long as the client waits for txbN_ack, the cache get_frame_priority  *)
(* ranks by has an entry for every buffer pending transmission, although   *)
(* the interrupt handler clears entries while they are being ranked.       *)
PendingIsCached == \A b \in txreq \cap AckedBufs : canid_cache_is_valid(b)

(* "Make sure the previous message is sent." (irq.c 133)                   *)
NoLoadWhilePending == intPc = "txload" => intTxb \notin txreq

(* "Put RXB into message queue. @rx: ... 3 -- Both" (irq.c 151-153): a     *)
(* frame goes into the queue once.                                         *)
NoFrameTwice ==
  LET taken == delivered \o rxq
               \o (IF intPc = "rxpush" THEN <<intFrame>> ELSE <<>>)
  IN \A i, j \in 1 .. Len(taken) : i # j => taken[i] # taken[j]

(* While a controller flag asks for service, an interrupt is latched or    *)
(* being handled (irq.c 185-190: flags that change inside the handler must *)
(* not be acknowledged by mistake).                                        *)
NoLostInterrupt ==
  PinLow(txif, rxif, fault) => gpioPending \/ irqMasked

(* On a bus that goes on transmitting, a frame in the TX queue is fetched  *)
(* from it sooner or later, unless an interrupt is lost (can_send,         *)
(* start_xmit and transmit_message).                                       *)
Queued(n) == \E i \in 1 .. Len(txq) : txq[i] = n

QueuedFrameFetched ==
  WF_vars(\E b \in Txb : TxDone(b) /\ UNCHANGED driverVars)
    => \A n \in 1 .. MaxSend : Queued(n) ~> ~Queued(n) \/ ~NoLostInterrupt

(* "Work out the frame priority based on CAN ID." (prio.c 12): of two      *)
(* pending buffers the one with the smaller id goes first.                 *)
PendingPriorityOrder ==
  rpcPc = "idle" =>
    \A b, c \in txreq : CanId[txb[b]] < CanId[txb[c]] => txp[b] >= txp[c]
=============================================================================
