--------------------------- MODULE CanDriver_proof ---------------------------
(***************************************************************************)
(* For every number of frames, transmit buffers and queue slots: the CAN   *)
(* driver keeps its types, has one token per interrupt, and leaves no      *)
(* queued frame without a buffer in the interrupt cycle.                   *)
(***************************************************************************)
EXTENDS CanDriver, FiniteSetTheorems, SequenceTheorems, TLAPS

(* The types, part by part, with what the types of one step rest on: loop  *)
(* variables are buffer indices inside their loops, and a stack frame      *)
(* holds what it was filled with.                                          *)
QueuesOK ==
  /\ txq \in Seq(TxFrame) /\ Len(txq) < QSize
  /\ rxq \in Seq(RxFrame) /\ Len(rxq) < QSize
  /\ queue_lock \in Nat
  /\ delivered \in Seq(RxFrame)

SharedOK ==
  /\ xmit_stopped \in BOOLEAN
  /\ txb_lock \in {"free", "rpc"}
  /\ txb_cache \in [Txb -> CacheEntry]
  /\ acked \subseteq Txb

RpcOK ==
  /\ rpcPc \in RpcPcs
  /\ rpcFrame \in TxFrame
  /\ rpcTxb \in 0 .. TXB_NUM
  /\ rpcRet \in BOOLEAN
  /\ rpcTodo \subseteq Txb \X Txb
  /\ rpcIdx \in Txb
  /\ rpcEntry \in CacheEntry
  /\ rpcPrio \in 0 .. 3
  /\ offered \in TxFrame
  /\ rpcPc \in {"trigger", "started", "status", "prio", "zero", "zeroed",
                "rank", "ranked", "reprio", "bitmod", "load", "loaded",
                "rts"} => rpcTxb \in Txb
  /\ rpcPc \in {"status", "prio"} => rpcFrame \in 1 .. MaxSend

IntOK ==
  /\ intPc \in IntPcs
  /\ intTx \subseteq Txb
  /\ intRx \subseteq {0, 1}
  /\ intFault \subseteq {"MERR", "WAK", "ERR"}
  /\ intEflg \subseteq {0, 1}
  /\ intTxb \in Txb
  /\ intFrame \in TxFrame \cup RxFrame
  /\ intRts \subseteq Txb
  /\ intPc = "txload" => intFrame \in TxFrame
  /\ intPc = "rxpush" => intFrame \in RxFrame

TypeInv ==
  /\ GpioTypeOK /\ Mcp2515TypeOK
  /\ QueuesOK /\ SharedOK /\ RpcOK /\ IntOK

LEMMA TypeInvTypeOK == TypeInv => TypeOK
BY DEF TypeInv, TypeOK, QueuesOK, SharedOK, RpcOK, IntOK

LEMMA ConstantFacts ==
  /\ TXB_NUM \in Nat /\ TXB_NUM > 0
  /\ MaxSend \in Nat /\ MaxRecv \in Nat
  /\ QSize \in Nat /\ QSize > 0
  /\ 0 \in Txb /\ 0 \in TxFrame /\ 0 \in RxFrame
BY ChipAssumption, DriverAssumption DEF Txb, TxFrame, RxFrame

(* Cache entries, and the iterations of the loops over them.               *)
LEMMA EntryType ==
  /\ NoEntry \in CacheEntry
  /\ \A canid \in Nat, priority \in 0 .. 3 :
       [canid |-> canid, priority |-> priority] \in CacheEntry
  /\ \A e \in CacheEntry : e.canid \in Nat /\ e.priority \in 0 .. 3
  /\ \A e \in CacheEntry : (e.priority + 1) % 4 \in 0 .. 3
  /\ \A e \in CacheEntry, n \in Nat : [e EXCEPT !.canid = n] \in CacheEntry
BY DEF CacheEntry, NoEntry

LEMMA IterationType ==
  /\ EachBuffer \subseteq Txb \X Txb
  /\ EachPair \subseteq Txb \X Txb
  /\ \A q \in Txb \X Txb : q[1] \in Txb /\ q[2] \in Txb
BY DEF EachBuffer, EachPair

(* Reading an entry.                                                       *)
LEMMA ReadType ==
  ASSUME SharedOK, NEW b \in Txb, ReadEntry(b)
  PROVE  rpcIdx' \in Txb /\ rpcEntry' \in CacheEntry
BY DEF ReadEntry, SharedOK

(* Counting frames and buffers stays within their ranges.                  *)
LEMMA NumberFacts ==
  /\ \A n \in TxFrame : n < MaxSend => n + 1 \in TxFrame /\ n + 1 \in 1 .. MaxSend
  /\ \A n \in RxFrame : n < MaxRecv => n + 1 \in RxFrame
  /\ \A b \in Txb : b \in 0 .. TXB_NUM /\ b + 1 \in 0 .. TXB_NUM
  /\ \A n \in 1 .. MaxSend : n \in TxFrame /\ CanId[n] \in Nat
  /\ 0 \in 0 .. TXB_NUM
BY ConstantFacts, DriverAssumption DEF TxFrame, RxFrame, Txb

LEMMA InitType == Init => TypeInv
<1> SUFFICES ASSUME Init PROVE TypeInv
  OBVIOUS
<1>1. <<>> \in Seq(TxFrame) /\ <<>> \in Seq(RxFrame) /\ Len(<<>>) = 0
  BY EmptySeq
<1>2. GpioTypeOK /\ Mcp2515TypeOK
  BY ConstantFacts DEF Init, GpioInit, Mcp2515Init, GpioTypeOK, Mcp2515TypeOK
<1>3. QueuesOK /\ IntOK
  BY <1>1, ConstantFacts DEF Init, IntIdle, QueuesOK, IntOK, IntPcs
<1>4. SharedOK
  BY EntryType DEF Init, SharedOK
<1>5. RpcOK
  <2>1. /\ rpcPc = "idle" /\ rpcRet \in BOOLEAN
        /\ rpcFrame = 0 /\ rpcTxb = 0 /\ rpcPrio = 0 /\ offered = 0
        /\ rpcIdx \in Txb /\ rpcEntry \in CacheEntry
        /\ rpcTodo \subseteq Txb \X Txb
    BY ConstantFacts, EntryType DEF Init
  <2> QED BY <2>1, ConstantFacts, NumberFacts DEF RpcOK, RpcPcs
<1> QED BY <1>2, <1>3, <1>4, <1>5 DEF TypeInv

(* A change of the flags keeps their types and the latch a Boolean.        *)
LEMMA FlagsType ==
  ASSUME TypeInv, NEW tx \in SUBSET Txb, NEW rx \in SUBSET {0, 1},
         NEW flt \in SUBSET {"MERR", "WAK", "ERR"}, SetFlags(tx, rx, flt)
  PROVE  /\ txif' \subseteq Txb /\ rxif' \subseteq {0, 1}
         /\ fault' \subseteq {"MERR", "WAK", "ERR"}
         /\ UNCHANGED gpioRest => GpioTypeOK'
BY DEF SetFlags, PinChange, TypeInv, GpioTypeOK, gpioRest

(* The handler's next step after each of its parts.                        *)
LEMMA AfterType ==
  /\ AfterRx0 \in {"rx1", "ack"}
  /\ AfterTx \in {"rx0", "rx1", "ack"}
  /\ AfterError \in {"txclear", "rx0", "rx1", "ack"}
  /\ AfterWake \in {"eflg", "txclear", "rx0", "rx1", "ack"}
BY DEF AfterRx0, AfterTx, AfterError, AfterWake

(* A queue that a frame joins or leaves.                                   *)
LEMMA QueueType ==
  ASSUME NEW S, NEW q \in Seq(S), Len(q) < QSize
  PROVE  /\ \A f \in S : Len(q) < QSize - 1 =>
              Append(q, f) \in Seq(S) /\ Len(Append(q, f)) < QSize
         /\ q # <<>> => /\ Head(q) \in S
                       /\ Tail(q) \in Seq(S) /\ Len(Tail(q)) < QSize
BY ConstantFacts

(* Writing an entry back.                                                  *)
LEMMA WrittenEntry ==
  ASSUME SharedOK, RpcOK, SendtoWriteEntry
  PROVE  \E e \in CacheEntry : txb_cache' = [txb_cache EXCEPT ![rpcIdx] = e]
<1> DEFINE New(entry) == [canid |-> entry.canid,
                          priority |-> IF rpcPc = "zeroed" THEN 0
                                       ELSE (entry.priority + 1) % 4]
<1>1. PICK entry \in {rpcEntry, txb_cache[rpcIdx]} :
        txb_cache' = [txb_cache EXCEPT ![rpcIdx] = New(entry)]
  BY DEF SendtoWriteEntry
<1>2. entry \in CacheEntry
  BY <1>1 DEF RpcOK, SharedOK
<1>3. New(entry) \in CacheEntry
  <2>1. (entry.priority + 1) % 4 \in 0 .. 3 /\ entry.canid \in Nat
    BY <1>2, EntryType
  <2>2. (IF rpcPc = "zeroed" THEN 0 ELSE (entry.priority + 1) % 4) \in 0 .. 3
    BY <2>1
  <2> QED BY <2>1, <2>2, EntryType
<1> HIDE DEF New
<1> QED BY <1>1, <1>3

(* What a step leaves alone keeps its type.                                *)
LEMMA Untouched ==
  ASSUME TypeInv
  PROVE  /\ UNCHANGED gpioVars => GpioTypeOK'
         /\ UNCHANGED chipVars => Mcp2515TypeOK'
         /\ UNCHANGED <<queueVars, delivered>> => QueuesOK'
         /\ UNCHANGED <<xmitVars, cacheVars>> => SharedOK'
         /\ UNCHANGED rpcVars => RpcOK'
         /\ UNCHANGED intVars => IntOK'
<1> USE DEF TypeInv
<1>1. UNCHANGED gpioVars => GpioTypeOK'
  BY DEF gpioVars, GpioTypeOK
<1>2. UNCHANGED chipVars => Mcp2515TypeOK'
  BY DEF chipVars, intfVars, txChipVars, rxChipVars, Mcp2515TypeOK
<1>3. UNCHANGED <<queueVars, delivered>> => QueuesOK'
  BY DEF queueVars, QueuesOK
<1>4. UNCHANGED <<xmitVars, cacheVars>> => SharedOK'
  BY DEF xmitVars, cacheVars, SharedOK
<1>5. UNCHANGED rpcVars => RpcOK'
  BY DEF rpcVars, sendtoVars, RpcOK
<1>6. UNCHANGED intVars => IntOK'
  BY DEF intVars, IntOK
<1> QED BY <1>1, <1>2, <1>3, <1>4, <1>5, <1>6

-----------------------------------------------------------------------------
LEMMA NextType == TypeInv /\ [Next]_vars => TypeInv'
<1> SUFFICES ASSUME TypeInv, [Next]_vars PROVE TypeInv'
  OBVIOUS
<1> USE DEF TypeInv
<1>1. ASSUME Send PROVE TypeInv'
  <2>1. RpcOK'
    BY <1>1, NumberFacts DEF Send, RpcOK, rpcVars, sendtoVars, RpcPcs
  <2> QED BY <1>1, <2>1, Untouched DEF Send
<1>2. ASSUME SendPush PROVE TypeInv'
  <2>1. QueuesOK'
    BY <1>2, QueueType DEF SendPush, QueuesOK, queueVars, RpcOK
  <2>2. RpcOK'
    BY <1>2 DEF SendPush, RpcOK, rpcVars, sendtoVars, RpcPcs
  <2> QED BY <1>2, <2>1, <2>2, Untouched DEF SendPush
<1>3. ASSUME XmitTest PROVE TypeInv'
  <2>1. RpcOK'
    BY <1>3 DEF XmitTest, RpcOK, rpcVars, sendtoVars, RpcPcs,
       SendAgainOrReturn
  <2> QED BY <1>3, <2>1, Untouched DEF XmitTest
<1>4. ASSUME XmitLock PROVE TypeInv'
  <2>1. SharedOK'
    BY <1>4 DEF XmitLock, SharedOK, xmitVars, cacheVars
  <2>2. RpcOK'
    BY <1>4, ConstantFacts, NumberFacts DEF XmitLock, RpcOK, rpcVars,
       sendtoVars, RpcPcs
  <2> QED BY <1>4, <2>1, <2>2, Untouched DEF XmitLock
<1>5. ASSUME XmitProbe PROVE TypeInv'
  <2>1. RpcOK'
    BY <1>5, NumberFacts DEF XmitProbe, RpcOK, rpcVars, sendtoVars, RpcPcs
  <2> QED BY <1>5, <2>1, Untouched DEF XmitProbe
<1>6. ASSUME XmitTrigger PROVE TypeInv'
  <2>1. /\ txif' \subseteq Txb /\ rxif' \subseteq {0, 1}
       /\ fault' \subseteq {"MERR", "WAK", "ERR"} /\ GpioTypeOK'
    BY <1>6, FlagsType DEF XmitTrigger, SetTxif, Mcp2515TypeOK, RpcOK
  <2>2. Mcp2515TypeOK'
    BY <1>6, <2>1 DEF XmitTrigger, Mcp2515TypeOK, chipVars, intfVars,
       txChipVars, rxChipVars
  <2>3. RpcOK'
    BY <1>6 DEF XmitTrigger, RpcOK, rpcVars, sendtoVars, RpcPcs
  <2> QED BY <1>6, <2>1, <2>2, <2>3, Untouched DEF XmitTrigger
<1>7. ASSUME XmitStarted PROVE TypeInv'
  <2>1. SharedOK'
    BY <1>7 DEF XmitStarted, SharedOK, xmitVars, cacheVars
  <2>2. RpcOK'
    BY <1>7, NumberFacts DEF XmitStarted, RpcOK, rpcVars, sendtoVars, RpcPcs
  <2> QED BY <1>7, <2>1, <2>2, Untouched DEF XmitStarted
<1>8. ASSUME XmitUnlock PROVE TypeInv'
  <2>1. SharedOK'
    BY <1>8 DEF XmitUnlock, SharedOK, xmitVars, cacheVars
  <2>2. RpcOK'
    BY <1>8, NumberFacts DEF XmitUnlock, RpcOK, rpcVars, sendtoVars, RpcPcs,
       SendAgainOrReturn
  <2> QED BY <1>8, <2>1, <2>2, Untouched DEF XmitUnlock
<1>9. ASSUME Recv PROVE TypeInv'
  <2>1. RpcOK'
    BY <1>9 DEF Recv, RpcOK, rpcVars, sendtoVars, RpcPcs
  <2> QED BY <1>9, <2>1, Untouched DEF Recv
<1>10. ASSUME RecvWait PROVE TypeInv'
  <2>1. QueuesOK'
    BY <1>10 DEF RecvWait, QueuesOK, queueVars
  <2>2. RpcOK'
    BY <1>10 DEF RecvWait, RpcOK, rpcVars, sendtoVars, RpcPcs
  <2> QED BY <1>10, <2>1, <2>2, Untouched DEF RecvWait
<1>11. ASSUME RecvPop PROVE TypeInv'
  <2>1. QueuesOK'
    <3>1. CASE rxq = <<>>
      BY <1>11, <3>1 DEF RecvPop, QueuesOK, queueVars
    <3>2. CASE rxq # <<>>
      <4>1. Head(rxq) \in RxFrame /\ Tail(rxq) \in Seq(RxFrame)
            /\ Len(Tail(rxq)) < QSize
        BY <3>2, QueueType DEF QueuesOK
      <4>2. Append(delivered, Head(rxq)) \in Seq(RxFrame)
        BY <4>1 DEF QueuesOK
      <4> QED BY <1>11, <3>2, <4>1, <4>2 DEF RecvPop, QueuesOK, queueVars
    <3> QED BY <3>1, <3>2
  <2>2. RpcOK'
    BY <1>11 DEF RecvPop, RpcOK, rpcVars, sendtoVars, RpcPcs
  <2> QED BY <1>11, <2>1, <2>2, Untouched DEF RecvPop
<1>12. ASSUME RecvRxb PROVE TypeInv'
  <2>1. /\ txif' \subseteq Txb /\ rxif' \subseteq {0, 1}
       /\ fault' \subseteq {"MERR", "WAK", "ERR"} /\ GpioTypeOK'
    BY <1>12, FlagsType DEF RecvRxb, mcp2515_read_rxb, Mcp2515TypeOK
  <2>2. Mcp2515TypeOK'
    BY <1>12, <2>1 DEF RecvRxb, Mcp2515TypeOK, chipVars, intfVars,
       txChipVars, rxChipVars
  <2> QED BY <1>12, <2>1, <2>2, Untouched DEF RecvRxb
<1>13. ASSUME Sendto PROVE TypeInv'
  <2>1. RpcOK'
    BY <1>13, NumberFacts DEF Sendto, RpcOK, rpcVars, sendtoVars, RpcPcs
  <2> QED BY <1>13, <2>1, Untouched DEF Sendto
<1>14. ASSUME SendtoStatus PROVE TypeInv'
  <2>1. SharedOK'
    BY <1>14 DEF SendtoStatus, SharedOK, xmitVars, cacheVars
  <2>2. RpcOK'
    BY <1>14, NumberFacts DEF SendtoStatus, RpcOK, rpcVars, sendtoVars,
       RpcPcs
  <2> QED BY <1>14, <2>1, <2>2, Untouched DEF SendtoStatus
<1>15. ASSUME SendtoPriority PROVE TypeInv'
  <2>1. SharedOK'
    <3>1. rpcTxb \in Txb /\ CanId[rpcFrame] \in Nat
      BY <1>15, NumberFacts DEF SendtoPriority, RpcOK
    <3>2. [txb_cache[rpcTxb] EXCEPT !.canid = CanId[rpcFrame]] \in CacheEntry
      BY <3>1, EntryType DEF SharedOK
    <3> QED BY <1>15, <3>1, <3>2 DEF SendtoPriority, SharedOK, xmitVars,
               cacheVars
  <2>2. RpcOK'
    BY <1>15, IterationType DEF SendtoPriority, RpcOK, rpcVars, sendtoVars,
       RpcPcs
  <2> QED BY <1>15, <2>1, <2>2, Untouched DEF SendtoPriority
<1>16. ASSUME SendtoZero PROVE TypeInv'
  <2>1. rpcIdx' \in Txb /\ rpcEntry' \in CacheEntry /\ rpcTodo' \subseteq rpcTodo
    BY <1>16, ReadType, IterationType DEF SendtoZero
  <2>2. RpcOK'
    BY <1>16, <2>1 DEF SendtoZero, RpcOK, RpcPcs
  <2> QED BY <1>16, <2>2, Untouched DEF SendtoZero
<1>17. ASSUME SendtoRank PROVE TypeInv'
  <2>1. /\ rpcIdx' \in Txb /\ rpcEntry' \in CacheEntry
        /\ rpcTodo' \subseteq rpcTodo /\ rpcPc' \in {"rank", "ranked"}
    BY <1>17, ReadType, IterationType DEF SendtoRank, RpcOK
  <2>2. RpcOK'
    BY <1>17, <2>1 DEF SendtoRank, RpcOK, RpcPcs
  <2> QED BY <1>17, <2>2, Untouched DEF SendtoRank
<1>18. ASSUME SendtoWriteEntry PROVE TypeInv'
  <2>1. SharedOK'
    <3>1. PICK e \in CacheEntry : txb_cache' = [txb_cache EXCEPT ![rpcIdx] = e]
      BY <1>18, WrittenEntry
    <3> QED BY <1>18, <3>1 DEF SendtoWriteEntry, SharedOK, xmitVars
  <2>2. RpcOK'
    BY <1>18, EntryType, ConstantFacts DEF SendtoWriteEntry, RpcOK, RpcPcs
  <2> QED BY <1>18, <2>1, <2>2, Untouched DEF SendtoWriteEntry
<1>19. ASSUME SendtoNextLoop PROVE TypeInv'
  <2>1. RpcOK'
    BY <1>19, IterationType DEF SendtoNextLoop, RpcOK, RpcPcs
  <2> QED BY <1>19, <2>1, Untouched DEF SendtoNextLoop
<1>20. ASSUME SendtoReprioritise PROVE TypeInv'
  <2>1. /\ rpcIdx' \in Txb /\ rpcEntry' \in CacheEntry
        /\ rpcTodo' \subseteq rpcTodo /\ rpcPc' \in {"reprio", "bitmod"}
    BY <1>20, ReadType, IterationType DEF SendtoReprioritise, RpcOK
  <2>2. RpcOK'
    BY <1>20, <2>1 DEF SendtoReprioritise, RpcOK, RpcPcs
  <2> QED BY <1>20, <2>2, Untouched DEF SendtoReprioritise
<1>21. ASSUME SendtoBitModify PROVE TypeInv'
  <2>1. Mcp2515TypeOK'
    BY <1>21, EntryType DEF SendtoBitModify, Mcp2515TypeOK, intfVars,
       rxChipVars, RpcOK
  <2>2. RpcOK'
    BY <1>21, EntryType, ConstantFacts DEF SendtoBitModify, RpcOK, RpcPcs
  <2> QED BY <1>21, <2>1, <2>2, Untouched DEF SendtoBitModify
<1>22. ASSUME SendtoRanked PROVE TypeInv'
  <2>1. txb_cache[rpcTxb].priority \in 0 .. 3
    BY <1>22, EntryType DEF SendtoRanked, RpcOK, SharedOK
  <2>2. RpcOK'
    BY <1>22, <2>1 DEF SendtoRanked, RpcOK, RpcPcs
  <2> QED BY <1>22, <2>2, Untouched DEF SendtoRanked
<1>23. ASSUME SendtoLoad PROVE TypeInv'
  <2>1. Mcp2515TypeOK'
    BY <1>23 DEF SendtoLoad, Mcp2515TypeOK, intfVars, rxChipVars,
       mcp2515_load_txb, RpcOK
  <2>2. RpcOK'
    BY <1>23 DEF SendtoLoad, RpcOK, sendtoVars, RpcPcs
  <2> QED BY <1>23, <2>1, <2>2, Untouched DEF SendtoLoad
<1>24. ASSUME SendtoSetPrio PROVE TypeInv'
  <2>1. Mcp2515TypeOK'
    BY <1>24 DEF SendtoSetPrio, Mcp2515TypeOK, intfVars, rxChipVars, RpcOK
  <2>2. RpcOK'
    BY <1>24 DEF SendtoSetPrio, RpcOK, sendtoVars, RpcPcs
  <2> QED BY <1>24, <2>1, <2>2, Untouched DEF SendtoSetPrio
<1>25. ASSUME SendtoRts PROVE TypeInv'
  <2>1. Mcp2515TypeOK'
    BY <1>25 DEF SendtoRts, Mcp2515TypeOK, chipVars, intfVars, txChipVars,
       rxChipVars, mcp2515_rts, RpcOK
  <2>2. RpcOK'
    BY <1>25, NumberFacts DEF SendtoRts, RpcOK, RpcPcs
  <2> QED BY <1>25, <2>1, <2>2, Untouched DEF SendtoRts
<1>26. ASSUME Abort PROVE TypeInv'
  <2>1. Mcp2515TypeOK'
    BY <1>26 DEF Abort, Mcp2515TypeOK, chipVars, intfVars, txChipVars,
       rxChipVars
  <2> QED BY <1>26, <2>1, Untouched DEF Abort
<1>27. ASSUME IntStart PROVE TypeInv'
  <2>1. GpioTypeOK'
    BY <1>27 DEF IntStart, GpioTypeOK, gpioRest, gpioVars
  <2>2. IntOK'
    BY <1>27 DEF IntStart, IntOK, intVars, IntPcs
  <2> QED BY <1>27, <2>1, <2>2, Untouched DEF IntStart, intRest
<1>28. ASSUME IntFlags PROVE TypeInv'
  <2>1. IntOK'
    BY <1>28 DEF IntFlags, IntOK, intVars, IntPcs, Mcp2515TypeOK
  <2> QED BY <1>28, <2>1, Untouched DEF IntFlags, intRest
<1>29. ASSUME IntFault PROVE TypeInv'
  <2>1. /\ txif' \subseteq Txb /\ rxif' \subseteq {0, 1}
       /\ fault' \subseteq {"MERR", "WAK", "ERR"} /\ GpioTypeOK'
    BY <1>29, FlagsType DEF IntFault, ClearFault, Mcp2515TypeOK
  <2>2. Mcp2515TypeOK'
    BY <1>29, <2>1 DEF IntFault, Mcp2515TypeOK, chipVars, intfVars,
       txChipVars, rxChipVars
  <2>3. IntOK'
    BY <1>29 DEF IntFault, IntOK, intVars, IntPcs
  <2> QED BY <1>29, <2>1, <2>2, <2>3, Untouched DEF IntFault, intRest
<1>30. ASSUME IntFaultsDone PROVE TypeInv'
  <2>1. IntOK'
    BY <1>30, AfterType DEF IntFaultsDone, IntOK, intVars, IntPcs
  <2> QED BY <1>30, <2>1, Untouched DEF IntFaultsDone, intRest
<1>31. ASSUME IntReadEflg PROVE TypeInv'
  <2>1. IntOK'
    BY <1>31 DEF IntReadEflg, IntOK, intVars, IntPcs, Mcp2515TypeOK
  <2> QED BY <1>31, <2>1, Untouched DEF IntReadEflg, intRest
<1>32. ASSUME IntClearOverflow PROVE TypeInv'
  <2>1. Mcp2515TypeOK'
    BY <1>32 DEF IntClearOverflow, Mcp2515TypeOK, chipVars, intfVars,
       txChipVars, rxChipVars
  <2>2. IntOK'
    BY <1>32 DEF IntClearOverflow, IntOK, intVars, IntPcs
  <2> QED BY <1>32, <2>1, <2>2, Untouched DEF IntClearOverflow, intRest
<1>33. ASSUME IntClearError PROVE TypeInv'
  <2>1. /\ txif' \subseteq Txb /\ rxif' \subseteq {0, 1}
       /\ fault' \subseteq {"MERR", "WAK", "ERR"} /\ GpioTypeOK'
    BY <1>33, FlagsType DEF IntClearError, ClearFault, Mcp2515TypeOK
  <2>2. Mcp2515TypeOK'
    BY <1>33, <2>1 DEF IntClearError, Mcp2515TypeOK, chipVars, intfVars,
       txChipVars, rxChipVars
  <2>3. IntOK'
    BY <1>33, AfterType DEF IntClearError, IntOK, intVars, IntPcs
  <2> QED BY <1>33, <2>1, <2>2, <2>3, Untouched DEF IntClearError, intRest
<1>34. ASSUME IntTxClear PROVE TypeInv'
  <2>1. /\ txif' \subseteq Txb /\ rxif' \subseteq {0, 1}
       /\ fault' \subseteq {"MERR", "WAK", "ERR"} /\ GpioTypeOK'
    BY <1>34, FlagsType DEF IntTxClear, ClearTxif, Mcp2515TypeOK
  <2>2. Mcp2515TypeOK'
    BY <1>34, <2>1 DEF IntTxClear, Mcp2515TypeOK, chipVars, intfVars,
       txChipVars, rxChipVars
  <2>3. IntOK'
    BY <1>34 DEF IntTxClear, IntOK, intVars, IntPcs
  <2> QED BY <1>34, <2>1, <2>2, <2>3, Untouched DEF IntTxClear, intRest
<1>35. ASSUME IntTxAck PROVE TypeInv'
  <2>1. SharedOK'
    BY <1>35, EntryType DEF IntTxAck, SharedOK, xmitVars, cacheVars, IntOK
  <2>2. IntOK'
    BY <1>35 DEF IntTxAck, IntOK, intVars, IntPcs
  <2> QED BY <1>35, <2>1, <2>2, Untouched DEF IntTxAck, intRest
<1>36. ASSUME IntTxPop PROVE TypeInv'
  <2>1. QueuesOK'
    BY <1>36, QueueType DEF IntTxPop, QueuesOK, queueVars
  <2>2. IntOK'
    BY <1>36, QueueType DEF IntTxPop, IntOK, intVars, IntPcs, QueuesOK
  <2> QED BY <1>36, <2>1, <2>2, Untouched DEF IntTxPop, intRest
<1>37. ASSUME IntTxLoad PROVE TypeInv'
  <2>1. Mcp2515TypeOK'
    BY <1>37 DEF IntTxLoad, Mcp2515TypeOK, chipVars, intfVars, txChipVars,
       rxChipVars, mcp2515_load_txb, IntOK
  <2>2. IntOK'
    BY <1>37, ConstantFacts DEF IntTxLoad, IntOK, intVars, IntPcs, NextTxb
  <2> QED BY <1>37, <2>1, <2>2, Untouched DEF IntTxLoad, intRest
<1>38. ASSUME IntTxSetPrio PROVE TypeInv'
  <2>1. Mcp2515TypeOK'
    BY <1>38 DEF IntTxSetPrio, Mcp2515TypeOK, intfVars, rxChipVars, IntOK
  <2>2. IntOK'
    BY <1>38, ConstantFacts DEF IntTxSetPrio, IntOK, IntPcs, NextTxb
  <2> QED BY <1>38, <2>1, <2>2, Untouched DEF IntTxSetPrio, intRest
<1>39. ASSUME IntTxStop PROVE TypeInv'
  <2>1. SharedOK'
    BY <1>39 DEF IntTxStop, SharedOK, xmitVars, cacheVars
  <2>2. IntOK'
    BY <1>39, ConstantFacts DEF IntTxStop, IntOK, intVars, IntPcs, NextTxb
  <2> QED BY <1>39, <2>1, <2>2, Untouched DEF IntTxStop, intRest
<1>40. ASSUME IntTxRts PROVE TypeInv'
  <2>1. Mcp2515TypeOK'
    BY <1>40 DEF IntTxRts, Mcp2515TypeOK, chipVars, intfVars, txChipVars,
       rxChipVars, mcp2515_rts, IntOK
  <2>2. IntOK'
    BY <1>40, AfterType DEF IntTxRts, IntOK, intVars, IntPcs
  <2> QED BY <1>40, <2>1, <2>2, Untouched DEF IntTxRts, intRest
<1>41. ASSUME IntRxRead PROVE TypeInv'
  <2>1. /\ txif' \subseteq Txb /\ rxif' \subseteq {0, 1}
       /\ fault' \subseteq {"MERR", "WAK", "ERR"} /\ GpioTypeOK'
    BY <1>41, FlagsType DEF IntRxRead, mcp2515_read_rxb, Mcp2515TypeOK
  <2>2. Mcp2515TypeOK'
    BY <1>41, <2>1 DEF IntRxRead, Mcp2515TypeOK, chipVars, intfVars,
       txChipVars, rxChipVars
  <2>3. IntOK'
    BY <1>41 DEF IntRxRead, IntOK, intVars, IntPcs, RxbRead, Mcp2515TypeOK
  <2> QED BY <1>41, <2>1, <2>2, <2>3, Untouched DEF IntRxRead, intRest
<1>42. ASSUME IntRxPush PROVE TypeInv'
  <2>1. QueuesOK'
    BY <1>42, QueueType DEF IntRxPush, QueuesOK, queueVars, IntOK
  <2>2. IntOK'
    BY <1>42, ConstantFacts DEF IntRxPush, IntOK, intVars, IntPcs
  <2> QED BY <1>42, <2>1, <2>2, Untouched DEF IntRxPush, intRest
<1>43. ASSUME IntRxPost PROVE TypeInv'
  <2>1. QueuesOK'
    BY <1>43 DEF IntRxPost, QueuesOK, queueVars
  <2>2. IntOK'
    BY <1>43, AfterType DEF IntRxPost, IntOK, intVars, IntPcs
  <2> QED BY <1>43, <2>1, <2>2, Untouched DEF IntRxPost, intRest
<1>44. ASSUME IntAckEmit PROVE TypeInv'
  <2>1. GpioTypeOK'
    BY <1>44 DEF IntAckEmit, GpioTypeOK, gpioRest, gpioVars
  <2>2. IntOK'
    BY <1>44 DEF IntAckEmit, IntOK, intVars, IntPcs
  <2> QED BY <1>44, <2>1, <2>2, Untouched DEF IntAckEmit, intRest
<1>45. ASSUME BusNext, UNCHANGED driverVars PROVE TypeInv'
  <2>1. ASSUME NEW b \in Txb, TxDone(b) PROVE TypeInv'
    <3>1. /\ txif' \subseteq Txb /\ rxif' \subseteq {0, 1}
          /\ fault' \subseteq {"MERR", "WAK", "ERR"} /\ GpioTypeOK'
      BY <2>1, FlagsType DEF TxDone, Mcp2515TypeOK
    <3>2. Mcp2515TypeOK'
      BY <2>1, <3>1, NumberFacts
         DEF TxDone, Mcp2515TypeOK, txChipVars, rxChipVars
    <3> QED BY <1>45, <3>1, <3>2, Untouched DEF driverVars
  <2>2. ASSUME NEW r \in {0, 1}, RxArrive(r) PROVE TypeInv'
    <3>1. /\ txif' \subseteq Txb /\ rxif' \subseteq {0, 1}
          /\ fault' \subseteq {"MERR", "WAK", "ERR"} /\ GpioTypeOK'
      BY <2>2, FlagsType DEF RxArrive, Mcp2515TypeOK
    <3>2. Mcp2515TypeOK'
      BY <2>2, <3>1, NumberFacts
         DEF RxArrive, Mcp2515TypeOK, txChipVars, rxChipVars
    <3> QED BY <1>45, <3>1, <3>2, Untouched DEF driverVars
  <2>3. ASSUME NEW f \in {"MERR", "WAK"}, RaiseFault(f) PROVE TypeInv'
    <3>1. /\ txif' \subseteq Txb /\ rxif' \subseteq {0, 1}
          /\ fault' \subseteq {"MERR", "WAK", "ERR"} /\ GpioTypeOK'
      BY <2>3, FlagsType DEF RaiseFault, Mcp2515TypeOK
    <3>2. Mcp2515TypeOK'
      BY <2>3, <3>1, NumberFacts
         DEF RaiseFault, Mcp2515TypeOK, txChipVars, rxChipVars
    <3> QED BY <1>45, <3>1, <3>2, Untouched DEF driverVars
  <2> QED BY <1>45, <2>1, <2>2, <2>3, ChipAssumption DEF BusNext
<1>46. ASSUME GpioNext, UNCHANGED <<chipVars, driverVars>> PROVE TypeInv'
  <2>1. GpioTypeOK'
    BY <1>46 DEF GpioNext, GpioIrq, GpioIrqOther, GpioOtherClear,
       GpioAckClear, GpioAckUnmask, GpioTypeOK
  <2> QED BY <1>46, <2>1, Untouched DEF driverVars
<1>47. ASSUME UNCHANGED vars PROVE TypeInv'
  BY <1>47, Untouched DEF vars
<1> QED
  BY <1>1, <1>2, <1>3, <1>4, <1>5, <1>6, <1>7, <1>8, <1>9, <1>10, <1>11,
     <1>12, <1>13, <1>14, <1>15, <1>16, <1>17, <1>18, <1>19, <1>20,
     <1>21, <1>22, <1>23, <1>24, <1>25, <1>26, <1>27, <1>28, <1>29,
     <1>30, <1>31, <1>32, <1>33, <1>34, <1>35, <1>36, <1>37, <1>38,
     <1>39, <1>40, <1>41, <1>42, <1>43, <1>44, <1>45, <1>46, <1>47
     DEF Next, RpcCall, RpcStep, XmitStep, SendtoStep, IntStep, IntTxStep,
         Environment

(* The driver never leaves its types: indices stay in the buffers, the     *)
(* queues below MSG_QUEUE_SIZE, priorities in their two bits.              *)
THEOREM TypeCorrect == Spec => []TypeOK
<1>1. Init => TypeInv
  BY InitType
<1>2. TypeInv /\ [Next]_vars => TypeInv'
  BY NextType
<1>3. TypeInv => TypeOK
  BY TypeInvTypeOK
<1> QED BY <1>1, <1>2, <1>3, PTL DEF Spec

-----------------------------------------------------------------------------
(* The tokens: which steps move one, and that no other step does.          *)

(* Nothing the two counting invariants speak of changes.                   *)
InterruptTokenKept ==
  /\ UNCHANGED gpioRest
  /\ intPc' = "wait" <=> intPc = "wait"

PostTokenKept ==
  /\ UNCHANGED <<rxq, queue_lock>>
  /\ rpcPc' = "pop" <=> rpcPc = "pop"
  /\ intPc' = "rxpost" <=> intPc = "rxpost"

LEMMA StepKinds ==
  ASSUME TypeInv, [Next]_vars
  PROVE  \/ InterruptTokenKept /\ PostTokenKept
         \/ /\ PostTokenKept
            /\ IntStart \/ IntAckEmit \/ (GpioNext /\ UNCHANGED intPc)
         \/ /\ InterruptTokenKept
            /\ RecvWait \/ RecvPop \/ IntRxPush \/ IntRxPost
<1> DEFINE Kept == InterruptTokenKept /\ PostTokenKept
<1> USE DEF InterruptTokenKept, PostTokenKept
<1>1. Send => Kept
  BY DEF Send, gpioVars, queueVars, sendtoVars, intVars, gpioRest
<1>2. SendPush => Kept
  BY DEF SendPush, gpioVars, sendtoVars, intVars, gpioRest, SendAgainOrReturn
<1>3. XmitTest => Kept
  BY DEF XmitTest, gpioVars, queueVars, sendtoVars, intVars, gpioRest,
     SendAgainOrReturn
<1>4. XmitLock => Kept
  BY DEF XmitLock, gpioVars, queueVars, sendtoVars, intVars, gpioRest
<1>5. XmitProbe => Kept
  BY DEF XmitProbe, gpioVars, queueVars, sendtoVars, intVars, gpioRest
<1>6. XmitTrigger => Kept
  BY DEF XmitTrigger, gpioRest, queueVars, sendtoVars, intVars
<1>7. XmitStarted => Kept
  BY DEF XmitStarted, gpioVars, queueVars, sendtoVars, intVars, gpioRest
<1>8. XmitUnlock => Kept
  BY DEF XmitUnlock, gpioVars, queueVars, sendtoVars, intVars, gpioRest,
     SendAgainOrReturn
<1>9. Recv => Kept
  BY DEF Recv, gpioVars, queueVars, sendtoVars, intVars, gpioRest
<1>10. RecvRxb => Kept
  BY DEF RecvRxb, gpioRest, queueVars, rpcVars, intVars
<1>11. Sendto => Kept
  BY DEF Sendto, gpioVars, queueVars, sendtoVars, intVars, gpioRest
<1>12. SendtoStatus => Kept
  BY DEF SendtoStatus, gpioVars, queueVars, sendtoVars, intVars, gpioRest
<1>13. SendtoPriority => Kept
  BY DEF SendtoPriority, gpioVars, queueVars, intVars, gpioRest
<1>14. SendtoZero \/ SendtoRank \/ SendtoWriteEntry => Kept
  BY DEF SendtoZero, SendtoRank, SendtoWriteEntry, gpioVars, queueVars,
     intVars, gpioRest
<1>15. SendtoNextLoop \/ SendtoReprioritise \/ SendtoBitModify => Kept
  BY DEF SendtoNextLoop, SendtoReprioritise, SendtoBitModify, gpioVars,
     queueVars, intVars, gpioRest
<1>16. SendtoRanked => Kept
  BY DEF SendtoRanked, gpioVars, queueVars, intVars, gpioRest
<1>17. SendtoLoad \/ SendtoSetPrio => Kept
  BY DEF SendtoLoad, SendtoSetPrio, gpioVars, queueVars, sendtoVars, intVars,
     gpioRest
<1>18. SendtoRts => Kept
  BY DEF SendtoRts, gpioVars, queueVars, intVars, gpioRest
<1>19. Abort => Kept
  BY DEF Abort, gpioVars, queueVars, rpcVars, intVars, gpioRest
<1>20. IntFlags => Kept
  BY DEF IntFlags, gpioVars, queueVars, rpcVars, intRest, gpioRest
<1>21. IntFault => Kept
  BY DEF IntFault, gpioRest, queueVars, rpcVars, intRest
<1>22. IntFaultsDone => Kept
  BY AfterType DEF IntFaultsDone, gpioVars, queueVars, rpcVars, intRest,
     gpioRest
<1>23. IntReadEflg => Kept
  BY DEF IntReadEflg, gpioVars, queueVars, rpcVars, intRest, gpioRest
<1>24. IntClearOverflow => Kept
  BY DEF IntClearOverflow, gpioVars, queueVars, rpcVars, intRest, gpioRest
<1>25. IntClearError => Kept
  BY AfterType DEF IntClearError, gpioRest, queueVars, rpcVars, intRest
<1>26. IntTxClear => Kept
  BY DEF IntTxClear, gpioRest, queueVars, rpcVars, intRest
<1>27. IntTxAck => Kept
  BY DEF IntTxAck, gpioVars, queueVars, rpcVars, gpioRest
<1>28. IntTxPop => Kept
  BY DEF IntTxPop, gpioVars, rpcVars, gpioRest
<1>29. IntTxLoad \/ IntTxSetPrio => Kept
  BY DEF IntTxLoad, IntTxSetPrio, gpioVars, queueVars, rpcVars, intRest,
     gpioRest, NextTxb
<1>30. IntTxStop => Kept
  BY DEF IntTxStop, gpioVars, queueVars, rpcVars, gpioRest, NextTxb
<1>31. IntTxRts => Kept
  BY AfterType DEF IntTxRts, gpioVars, queueVars, rpcVars, intRest, gpioRest
<1>32. IntRxRead => Kept
  BY DEF IntRxRead, gpioRest, queueVars, rpcVars, intRest
<1>33. IntStart => PostTokenKept
  BY DEF IntStart, intRest, queueVars, rpcVars
<1>34. IntAckEmit => PostTokenKept
  BY DEF IntAckEmit, intRest, queueVars, rpcVars
<1>35. RecvWait => InterruptTokenKept
  BY DEF RecvWait, gpioVars, gpioRest, intVars
<1>36. RecvPop => InterruptTokenKept
  BY DEF RecvPop, gpioVars, gpioRest, intVars
<1>37. IntRxPush => InterruptTokenKept
  BY DEF IntRxPush, gpioVars, gpioRest, intVars
<1>38. IntRxPost => InterruptTokenKept
  BY AfterType DEF IntRxPost, gpioVars, gpioRest, intVars
<1>39. BusNext /\ UNCHANGED driverVars => Kept
  BY DEF BusNext, TxDone, RxArrive, RaiseFault, driverVars, gpioRest,
         queueVars, rpcVars, intVars
<1>40. GpioNext /\ UNCHANGED <<chipVars, driverVars>>
       => PostTokenKept /\ UNCHANGED intPc
  BY DEF driverVars, queueVars, rpcVars, intVars
<1>41. UNCHANGED vars => Kept
  BY DEF vars, gpioVars, gpioRest, queueVars, rpcVars, intVars
<1> HIDE DEF InterruptTokenKept, PostTokenKept
<1> QED
  BY <1>1, <1>2, <1>3, <1>4, <1>5, <1>6, <1>7, <1>8, <1>9, <1>10, <1>11,
     <1>12, <1>13, <1>14, <1>15, <1>16, <1>17, <1>18, <1>19, <1>20, <1>21,
     <1>22, <1>23, <1>24, <1>25, <1>26, <1>27, <1>28, <1>29, <1>30, <1>31,
     <1>32, <1>33, <1>34, <1>35, <1>36, <1>37, <1>38, <1>39, <1>40, <1>41
     DEF Next, RpcCall, RpcStep, XmitStep, SendtoStep, IntStep, IntTxStep,
         Environment

LEMMA InterruptTokens ==
  ASSUME TypeInv, OneInterruptInFlight, [Next]_vars
  PROVE  OneInterruptInFlight'
<1> USE DEF OneInterruptInFlight, One, TypeInv, GpioTypeOK
<1>1. CASE InterruptTokenKept
  BY <1>1 DEF InterruptTokenKept, gpioRest
<1>2. CASE IntStart
  BY <1>2 DEF IntStart
<1>3. CASE IntAckEmit
  BY <1>3 DEF IntAckEmit
<1>4. CASE GpioNext /\ UNCHANGED intPc
  <2>1. CASE GpioIrq
    BY <1>4, <2>1 DEF GpioIrq
  <2>2. CASE GpioAckClear
    BY <1>4, <2>2 DEF GpioAckClear
  <2>3. CASE GpioAckUnmask
    BY <1>4, <2>3 DEF GpioAckUnmask
  <2>4. CASE GpioIrqOther
    BY <1>4, <2>4 DEF GpioIrqOther
  <2>5. CASE GpioOtherClear
    BY <1>4, <2>5 DEF GpioOtherClear
  <2> QED BY <1>4, <2>1, <2>2, <2>3, <2>4, <2>5 DEF GpioNext
<1> QED
  BY <1>1, <1>2, <1>3, <1>4, StepKinds

LEMMA PostTokens ==
  ASSUME TypeInv, TokensCoverFrames, [Next]_vars
  PROVE  TokensCoverFrames'
<1> USE DEF TokensCoverFrames, One
<1>0. queue_lock \in Nat /\ Len(rxq) \in Nat /\ rxq \in Seq(RxFrame)
  BY DEF TypeInv, QueuesOK
<1>1. CASE PostTokenKept
  BY <1>1 DEF PostTokenKept
<1>2. CASE RecvWait
  BY <1>0, <1>2 DEF RecvWait, intVars
<1>3. CASE RecvPop
  <2>1. rxq # <<>> => Len(Tail(rxq)) = Len(rxq) - 1
    BY <1>0
  <2>2. Len(rxq') <= Len(rxq) /\ (rxq # <<>> => Len(rxq') = Len(rxq) - 1)
    BY <1>0, <1>3, <2>1 DEF RecvPop
  <2>3. rxq = <<>> => Len(rxq') = 0
    BY <1>3 DEF RecvPop
  <2> QED BY <1>0, <1>3, <2>2, <2>3 DEF RecvPop, intVars
<1>4. CASE IntRxPush
  <2>1. Len(rxq') <= Len(rxq) + 1
    BY <1>0, <1>4 DEF IntRxPush
  <2>2. Len(rxq') \in Nat
    BY <1>0, <1>4 DEF IntRxPush
  <2> QED BY <1>0, <1>4, <2>1, <2>2 DEF IntRxPush, rpcVars
<1>5. CASE IntRxPost
  BY <1>0, <1>5, AfterType DEF IntRxPost, rpcVars
<1> QED BY <1>1, <1>2, <1>3, <1>4, <1>5, StepKinds

(* From the masked GPIO interrupt to its acknowledge there is one token,   *)
(* so no notification is emitted twice and none is lost as a second one.   *)
THEOREM InterruptTokenUnique == Spec => []OneInterruptInFlight
<1>1. Init => TypeInv /\ OneInterruptInFlight
  BY InitType DEF Init, GpioInit, IntIdle, OneInterruptInFlight, One
<1>2. TypeInv /\ OneInterruptInFlight /\ [Next]_vars
        => TypeInv' /\ OneInterruptInFlight'
  BY NextType, InterruptTokens
<1> QED BY <1>1, <1>2, PTL DEF Spec

(* can_recv never sleeps on its semaphore while a frame it could have is   *)
(* queued: the posts cover the frames in the RX queue.                     *)
THEOREM NoSleepOnFrames == Spec => []TokensCoverFrames
<1>1. Init => TypeInv /\ TokensCoverFrames
  BY InitType DEF Init, IntIdle, TokensCoverFrames, One
<1>2. TypeInv /\ TokensCoverFrames /\ [Next]_vars
        => TypeInv' /\ TokensCoverFrames'
  BY NextType, PostTokens
<1> QED BY <1>1, <1>2, PTL DEF Spec

-----------------------------------------------------------------------------
(* Between can_send and transmit_message: whenever xmit_stopped is clear   *)
(* every buffer is in the interrupt cycle, and while a frame is left in    *)
(* the TX queue some buffer is.  (That its flag makes an interrupt is not  *)
(* claimed: can_lost_interrupt shows one lost.)                            *)
(*                                                                         *)
(* The client must not use can_abort: it takes a buffer out of the cycle   *)
(* and leaves xmit_stopped clear.                                          *)
NoAbort == "abort" \notin Ops

(* start_xmit's critical section.                                          *)
Critical == {"probe", "trigger", "started"}

LockInv == txb_lock = "rpc" <=> rpcPc \in Critical

(* The buffers the handler has in intTx are flagged until it clears the    *)
(* flags, in its hands from then on, and all dealt with at the end.        *)
HandlerInv ==
  /\ intPc \in {"faults", "eflg", "ovr", "errif", "txclear"}
       => intTx \subseteq txif
  /\ intPc \in {"wait", "flags", "txrts", "rx0", "rx1", "rxpush", "rxpost",
                "ack"} => intTx = {}
  /\ intPc \in {"txpop", "txload", "txprio", "stop"} => intTxb \in intTx
  /\ intPc \notin {"txbuf", "txpop", "txload", "txprio", "stop", "txrts"}
       => intRts = {}

(* The buffers start_xmit has passed are armed.                            *)
Passed == {b \in Txb : b < rpcTxb \/ (b = rpcTxb /\ rpcPc = "started")}

PassedArmed == rpcPc \in Critical => Passed \subseteq Armed

ArmedInv == LockInv /\ HandlerInv /\ PassedArmed /\ EveryBufferArmed

(* The armed buffers that will look at the TX queue again: not the one     *)
(* whose pop has come back empty and which is about to stop.               *)
Served ==
  IF intPc = "stop"
  THEN txif \cup txreq \cup intRts \cup (intTx \ {intTxb})
  ELSE Armed

(* While a frame is queued, the buffers start_xmit has passed are served,  *)
(* and before and after start_xmit some buffer is.                         *)
PassedServed == txq # <<>> /\ rpcPc \in Critical => Passed \subseteq Served

QueueServed ==
  (/\ txq # <<>>
   /\ xmit_stopped
   /\ rpcPc \notin {"test", "lock"} \cup Critical) => Txb \cap Served # {}

-----------------------------------------------------------------------------
(* What a step can do to the cycle of the buffers.                         *)

(* Outside the handler flags and requests are only added or turned into    *)
(* one another.                                                            *)
Forward ==
  /\ txif \subseteq txif'
  /\ txif \cup txreq \subseteq txif' \cup txreq'
  /\ UNCHANGED intVars

CycleKept ==
  /\ HandlerInv'
  /\ Armed \subseteq Armed' \/ IntTxStop
  /\ Served \subseteq Served' \/ (IntTxPop /\ txq = <<>>)

LEMMA ForwardKeeps == HandlerInv /\ Forward => CycleKept
<1> SUFFICES ASSUME HandlerInv, Forward PROVE CycleKept
  OBVIOUS
<1> USE DEF Forward, intVars
<1>1. HandlerInv'
  BY DEF HandlerInv
<1>2. Armed \subseteq Armed'
  BY DEF Armed, InHand
<1>3. Served \subseteq Served'
  BY <1>2 DEF Served
<1> QED BY <1>1, <1>2, <1>3 DEF CycleKept

(* One buffer after another goes through the handler's loop.               *)
LEMMA LoopStep ==
  ASSUME HandlerInv, intPc \in {"txprio", "stop"}, NextTxb,
         UNCHANGED <<txif, txreq>>,
         intRts' = intRts \/ intRts' = intRts \cup {intTxb}
  PROVE  /\ HandlerInv'
         /\ Armed \ {intTxb} \subseteq Armed'
         /\ intTxb \in intRts' => Armed \subseteq Armed'
         /\ Armed \ {intTxb} \subseteq Served'
         /\ txif \cup txreq \cup intRts \subseteq Served'
         /\ intTxb \in intRts' => Armed \subseteq Served'
<1> USE DEF NextTxb
<1>1. HandlerInv'
  BY DEF HandlerInv
<1>2. /\ Armed = txif \cup txreq \cup intRts \cup intTx
      /\ Armed' = txif \cup txreq \cup intRts' \cup (intTx \ {intTxb})
  BY DEF Armed, InHand
<1>3. Served' = Armed'
  BY DEF Served
<1> QED BY <1>1, <1>2, <1>3

LEMMA CycleStep ==
  ASSUME TypeInv, HandlerInv, NoAbort, [Next]_vars
  PROVE  CycleKept
<1>1. Send => Forward
  BY DEF Forward, Send, chipVars, intfVars, txChipVars
<1>2. SendPush => Forward
  BY DEF Forward, SendPush, chipVars, intfVars, txChipVars
<1>3. XmitTest => Forward
  BY DEF Forward, XmitTest, chipVars, intfVars, txChipVars
<1>4. XmitLock => Forward
  BY DEF Forward, XmitLock, chipVars, intfVars, txChipVars
<1>5. XmitProbe => Forward
  BY DEF Forward, XmitProbe, chipVars, intfVars, txChipVars
<1>6. XmitTrigger => Forward
  BY DEF Forward, XmitTrigger, txChipVars, SetTxif, SetFlags
<1>7. XmitStarted => Forward
  BY DEF Forward, XmitStarted, chipVars, intfVars, txChipVars
<1>8. XmitUnlock => Forward
  BY DEF Forward, XmitUnlock, chipVars, intfVars, txChipVars
<1>9. Recv => Forward
  BY DEF Forward, Recv, chipVars, intfVars, txChipVars
<1>10. RecvWait => Forward
  BY DEF Forward, RecvWait, chipVars, intfVars, txChipVars
<1>11. RecvPop => Forward
  BY DEF Forward, RecvPop, chipVars, intfVars, txChipVars
<1>12. RecvRxb => Forward
  BY DEF Forward, RecvRxb, txChipVars, mcp2515_read_rxb, SetFlags
<1>13. Sendto => Forward
  BY DEF Forward, Sendto, chipVars, intfVars, txChipVars
<1>14. SendtoStatus => Forward
  BY DEF Forward, SendtoStatus, chipVars, intfVars, txChipVars
<1>15. SendtoPriority => Forward
  BY DEF Forward, SendtoPriority, chipVars, intfVars, txChipVars
<1>16. SendtoZero \/ SendtoRank \/ SendtoWriteEntry => Forward
  BY DEF Forward, SendtoZero, SendtoRank, SendtoWriteEntry, chipVars,
     intfVars, txChipVars
<1>17. SendtoNextLoop \/ SendtoReprioritise \/ SendtoBitModify => Forward
  BY DEF Forward, SendtoNextLoop, SendtoReprioritise, SendtoBitModify,
     chipVars, intfVars, txChipVars
<1>18. SendtoRanked => Forward
  BY DEF Forward, SendtoRanked, chipVars, intfVars, txChipVars
<1>19. SendtoLoad \/ SendtoSetPrio => Forward
  BY DEF Forward, SendtoLoad, SendtoSetPrio, intfVars
<1>20. SendtoRts => Forward
  BY DEF Forward, SendtoRts, intfVars, mcp2515_rts
<1>21. Abort => FALSE
  BY DEF Abort, NoAbort
<1>22. BusNext /\ UNCHANGED driverVars => Forward
  BY DEF BusNext, TxDone, RxArrive, RaiseFault, SetFlags, driverVars, Forward,
         txChipVars
<1>23. GpioNext /\ UNCHANGED <<chipVars, driverVars>> => Forward
  BY DEF driverVars, chipVars, intfVars, txChipVars, Forward
<1>24. UNCHANGED vars => Forward
  BY DEF vars, chipVars, intfVars, txChipVars, Forward
<1>25. IntStart => CycleKept
  <2> SUFFICES ASSUME IntStart PROVE CycleKept
    OBVIOUS
  <2>1. HandlerInv'
    BY DEF HandlerInv, IntStart, chipVars, intfVars, txChipVars
  <2>2. Armed \subseteq Armed'
    BY DEF HandlerInv, Armed, InHand, IntStart, chipVars, intfVars,
       txChipVars
  <2>3. Served = Armed /\ Served' = Armed'
    BY DEF Served, IntStart
  <2> QED BY <2>1, <2>2, <2>3 DEF CycleKept
<1>26. IntFlags => CycleKept
  <2> SUFFICES ASSUME IntFlags PROVE CycleKept
    OBVIOUS
  <2>1. HandlerInv'
    BY DEF HandlerInv, IntFlags, chipVars, intfVars, txChipVars
  <2>2. Armed \subseteq Armed'
    BY DEF HandlerInv, Armed, InHand, IntFlags, chipVars, intfVars,
       txChipVars
  <2>3. Served = Armed /\ Served' = Armed'
    BY DEF Served, IntFlags
  <2> QED BY <2>1, <2>2, <2>3 DEF CycleKept
<1>27. IntFault => CycleKept
  <2> SUFFICES ASSUME IntFault PROVE CycleKept
    OBVIOUS
  <2>1. HandlerInv'
    BY DEF HandlerInv, IntFault, txChipVars, ClearFault, SetFlags
  <2>2. Armed \subseteq Armed'
    BY DEF HandlerInv, Armed, InHand, IntFault, txChipVars, ClearFault,
       SetFlags
  <2>3. Served = Armed /\ Served' = Armed'
    BY DEF Served, IntFault
  <2> QED BY <2>1, <2>2, <2>3 DEF CycleKept
<1>28. IntFaultsDone => CycleKept
  <2> SUFFICES ASSUME IntFaultsDone PROVE CycleKept
    OBVIOUS
  <2>1. HandlerInv'
    BY AfterType DEF HandlerInv, IntFaultsDone, chipVars, intfVars,
       txChipVars, AfterWake, AfterError
  <2>2. Armed \subseteq Armed'
    BY AfterType DEF HandlerInv, Armed, InHand, IntFaultsDone, chipVars,
       intfVars, txChipVars, AfterWake, AfterError
  <2>3. Served = Armed /\ Served' = Armed'
    BY AfterType DEF Served, IntFaultsDone, AfterWake, AfterError
  <2> QED BY <2>1, <2>2, <2>3 DEF CycleKept
<1>29. IntReadEflg => CycleKept
  <2> SUFFICES ASSUME IntReadEflg PROVE CycleKept
    OBVIOUS
  <2>1. HandlerInv'
    BY DEF HandlerInv, IntReadEflg, chipVars, intfVars, txChipVars
  <2>2. Armed \subseteq Armed'
    BY DEF HandlerInv, Armed, InHand, IntReadEflg, chipVars, intfVars,
       txChipVars
  <2>3. Served = Armed /\ Served' = Armed'
    BY DEF Served, IntReadEflg
  <2> QED BY <2>1, <2>2, <2>3 DEF CycleKept
<1>30. IntClearOverflow => CycleKept
  <2> SUFFICES ASSUME IntClearOverflow PROVE CycleKept
    OBVIOUS
  <2>1. HandlerInv'
    BY DEF HandlerInv, IntClearOverflow, intfVars, txChipVars
  <2>2. Armed \subseteq Armed'
    BY DEF HandlerInv, Armed, InHand, IntClearOverflow, intfVars, txChipVars
  <2>3. Served = Armed /\ Served' = Armed'
    BY DEF Served, IntClearOverflow
  <2> QED BY <2>1, <2>2, <2>3 DEF CycleKept
<1>31. IntClearError => CycleKept
  <2> SUFFICES ASSUME IntClearError PROVE CycleKept
    OBVIOUS
  <2>1. HandlerInv'
    BY AfterType DEF HandlerInv, IntClearError, txChipVars, ClearFault,
       SetFlags, AfterError
  <2>2. Armed \subseteq Armed'
    BY AfterType DEF HandlerInv, Armed, InHand, IntClearError, txChipVars,
       ClearFault, SetFlags, AfterError
  <2>3. Served = Armed /\ Served' = Armed'
    BY AfterType DEF Served, IntClearError, AfterError
  <2> QED BY <2>1, <2>2, <2>3 DEF CycleKept
<1>32. IntTxClear => CycleKept
  <2> SUFFICES ASSUME IntTxClear PROVE CycleKept
    OBVIOUS
  <2>1. HandlerInv'
    BY DEF HandlerInv, IntTxClear, txChipVars, ClearTxif, SetFlags
  <2>2. Armed \subseteq Armed'
    BY DEF HandlerInv, Armed, InHand, IntTxClear, txChipVars, ClearTxif,
       SetFlags
  <2>3. Served = Armed /\ Served' = Armed'
    BY DEF Served, IntTxClear
  <2> QED BY <2>1, <2>2, <2>3 DEF CycleKept
<1>33. IntTxAck => CycleKept
  <2> SUFFICES ASSUME IntTxAck PROVE CycleKept
    OBVIOUS
  <2>1. HandlerInv'
    BY DEF HandlerInv, IntTxAck, chipVars, intfVars, txChipVars
  <2>2. Armed \subseteq Armed'
    BY DEF HandlerInv, Armed, InHand, IntTxAck, chipVars, intfVars,
       txChipVars
  <2>3. Served = Armed /\ Served' = Armed'
    BY DEF Served, IntTxAck
  <2> QED BY <2>1, <2>2, <2>3 DEF CycleKept
<1>34. IntTxPop => CycleKept
  <2> SUFFICES ASSUME IntTxPop PROVE CycleKept
    OBVIOUS
  <2>1. HandlerInv'
    BY DEF IntTxPop, HandlerInv, chipVars, intfVars, txChipVars
  <2>2. Armed' = Armed
    BY DEF IntTxPop, Armed, InHand, chipVars, intfVars, txChipVars
  <2>3. txq # <<>> => Served' = Armed' /\ Served = Armed
    BY DEF IntTxPop, Served
  <2> QED BY <2>1, <2>2, <2>3 DEF CycleKept
<1>35. IntTxLoad => CycleKept
  <2> SUFFICES ASSUME IntTxLoad PROVE CycleKept
    OBVIOUS
  <2>1. HandlerInv'
    BY DEF HandlerInv, IntTxLoad, intfVars
  <2>2. Armed \subseteq Armed'
    BY DEF HandlerInv, Armed, InHand, IntTxLoad, intfVars
  <2>3. Served = Armed /\ Served' = Armed'
    BY DEF Served, IntTxLoad
  <2> QED BY <2>1, <2>2, <2>3 DEF CycleKept
<1>42. IntTxSetPrio => CycleKept
  <2> SUFFICES ASSUME IntTxSetPrio PROVE CycleKept
    OBVIOUS
  <2>1. intTxb \in intTx
    BY DEF HandlerInv, IntTxSetPrio
  <2>2. Served = Armed
    BY DEF IntTxSetPrio, Served
  <2> QED BY <2>1, <2>2, LoopStep DEF CycleKept, IntTxSetPrio, intfVars
<1>36. IntTxStop => CycleKept
  <2> SUFFICES ASSUME IntTxStop PROVE CycleKept
    OBVIOUS
  <2>1. Served \ {intTxb} \subseteq Armed \ {intTxb}
    BY DEF IntTxStop, Served, Armed, InHand
  <2>2. intTxb \in Served => intTxb \in txif \cup txreq \cup intRts
    BY DEF IntTxStop, Served
  <2> QED
    BY <2>1, <2>2, LoopStep
       DEF CycleKept, IntTxStop, chipVars, intfVars, txChipVars
<1>37. IntTxRts => CycleKept
  <2> SUFFICES ASSUME IntTxRts PROVE CycleKept
    OBVIOUS
  <2>1. HandlerInv'
    BY AfterType DEF HandlerInv, IntTxRts, intfVars, mcp2515_rts
  <2>2. Armed \subseteq Armed'
    BY AfterType DEF HandlerInv, Armed, InHand, IntTxRts, intfVars,
       mcp2515_rts
  <2>3. Served = Armed /\ Served' = Armed'
    BY AfterType DEF Served, IntTxRts
  <2> QED BY <2>1, <2>2, <2>3 DEF CycleKept
<1>38. IntRxRead => CycleKept
  <2> SUFFICES ASSUME IntRxRead PROVE CycleKept
    OBVIOUS
  <2>1. HandlerInv'
    BY DEF HandlerInv, IntRxRead, txChipVars, mcp2515_read_rxb, SetFlags
  <2>2. Armed \subseteq Armed'
    BY DEF HandlerInv, Armed, InHand, IntRxRead, txChipVars,
       mcp2515_read_rxb, SetFlags
  <2>3. Served = Armed /\ Served' = Armed'
    BY DEF Served, IntRxRead
  <2> QED BY <2>1, <2>2, <2>3 DEF CycleKept
<1>39. IntRxPush => CycleKept
  <2> SUFFICES ASSUME IntRxPush PROVE CycleKept
    OBVIOUS
  <2>1. HandlerInv'
    BY AfterType DEF HandlerInv, IntRxPush, chipVars, intfVars, txChipVars
  <2>2. Armed \subseteq Armed'
    BY AfterType DEF HandlerInv, Armed, InHand, IntRxPush, chipVars,
       intfVars, txChipVars
  <2>3. Served = Armed /\ Served' = Armed'
    BY AfterType DEF Served, IntRxPush
  <2> QED BY <2>1, <2>2, <2>3 DEF CycleKept
<1>40. IntRxPost => CycleKept
  <2> SUFFICES ASSUME IntRxPost PROVE CycleKept
    OBVIOUS
  <2>1. HandlerInv'
    BY AfterType DEF HandlerInv, IntRxPost, chipVars, intfVars, txChipVars
  <2>2. Armed \subseteq Armed'
    BY AfterType DEF HandlerInv, Armed, InHand, IntRxPost, chipVars,
       intfVars, txChipVars
  <2>3. Served = Armed /\ Served' = Armed'
    BY AfterType DEF Served, IntRxPost
  <2> QED BY <2>1, <2>2, <2>3 DEF CycleKept
<1>41. IntAckEmit => CycleKept
  <2> SUFFICES ASSUME IntAckEmit PROVE CycleKept
    OBVIOUS
  <2>1. HandlerInv'
    BY DEF HandlerInv, IntAckEmit, chipVars, intfVars, txChipVars
  <2>2. Armed \subseteq Armed'
    BY DEF HandlerInv, Armed, InHand, IntAckEmit, chipVars, intfVars,
       txChipVars
  <2>3. Served = Armed /\ Served' = Armed'
    BY DEF Served, IntAckEmit
  <2> QED BY <2>1, <2>2, <2>3 DEF CycleKept
<1> QED
  BY <1>1, <1>2, <1>3, <1>4, <1>5, <1>6, <1>7, <1>8, <1>9, <1>10, <1>11,
     <1>12, <1>13, <1>14, <1>15, <1>16, <1>17, <1>18, <1>19, <1>20, <1>21,
     <1>22, <1>23, <1>24, <1>25, <1>26, <1>27, <1>28, <1>29, <1>30, <1>31,
     <1>32, <1>33, <1>34, <1>35, <1>36, <1>37, <1>38, <1>39, <1>40, <1>41,
     <1>42, ForwardKeeps
     DEF Next, RpcCall, RpcStep, XmitStep, SendtoStep, IntStep, IntTxStep,
         Environment

-----------------------------------------------------------------------------
(* Which steps concern the lock, xmit_stopped and the TX queue.            *)

Quiet ==
  /\ UNCHANGED <<txq, xmit_stopped, txb_lock>>
  /\ \/ UNCHANGED <<rpcPc, rpcTxb>>
     \/ /\ rpcPc \notin {"test", "lock"} \cup Critical
        /\ rpcPc' \notin {"test", "lock"} \cup Critical

LEMMA QuietSteps ==
  ASSUME [Next]_vars
  PROVE  Quiet \/ SendPush \/ XmitStep \/ IntTxPop \/ IntTxStop
<1>1. Send => Quiet
  BY DEF Quiet, Critical, Send, queueVars, xmitVars
<1>2. Recv => Quiet
  BY DEF Quiet, Critical, Recv, queueVars, xmitVars
<1>3. RecvWait => Quiet
  BY DEF Quiet, Critical, RecvWait, xmitVars
<1>4. RecvPop => Quiet
  BY DEF Quiet, Critical, RecvPop, xmitVars
<1>5. RecvRxb => Quiet
  BY DEF Quiet, Critical, RecvRxb, queueVars, xmitVars, rpcVars
<1>6. Sendto => Quiet
  BY DEF Quiet, Critical, Sendto, queueVars, xmitVars
<1>7. SendtoStatus => Quiet
  BY DEF Quiet, Critical, SendtoStatus, queueVars, xmitVars
<1>8. SendtoPriority => Quiet
  BY DEF Quiet, Critical, SendtoPriority, queueVars, xmitVars
<1>9. SendtoZero \/ SendtoRank \/ SendtoWriteEntry => Quiet
  BY DEF Quiet, Critical, SendtoZero, SendtoRank, SendtoWriteEntry, queueVars,
     xmitVars
<1>10. SendtoNextLoop \/ SendtoReprioritise \/ SendtoBitModify => Quiet
  BY DEF Quiet, Critical, SendtoNextLoop, SendtoReprioritise, SendtoBitModify,
     queueVars, xmitVars
<1>11. SendtoRanked => Quiet
  BY DEF Quiet, Critical, SendtoRanked, queueVars, xmitVars
<1>12. SendtoLoad \/ SendtoSetPrio => Quiet
  BY DEF Quiet, Critical, SendtoLoad, SendtoSetPrio, queueVars, xmitVars
<1>13. SendtoRts => Quiet
  BY DEF Quiet, Critical, SendtoRts, queueVars, xmitVars
<1>14. Abort => Quiet
  BY DEF Quiet, Critical, Abort, queueVars, xmitVars, rpcVars
<1>15. IntStart => Quiet
  BY DEF Quiet, IntStart, intRest, queueVars, xmitVars, rpcVars
<1>16. IntFlags => Quiet
  BY DEF Quiet, IntFlags, intRest, queueVars, xmitVars, rpcVars
<1>17. IntFault => Quiet
  BY DEF Quiet, IntFault, intRest, queueVars, xmitVars, rpcVars
<1>18. IntFaultsDone => Quiet
  BY DEF Quiet, IntFaultsDone, intRest, queueVars, xmitVars, rpcVars
<1>19. IntReadEflg => Quiet
  BY DEF Quiet, IntReadEflg, intRest, queueVars, xmitVars, rpcVars
<1>20. IntClearOverflow => Quiet
  BY DEF Quiet, IntClearOverflow, intRest, queueVars, xmitVars, rpcVars
<1>21. IntClearError => Quiet
  BY DEF Quiet, IntClearError, intRest, queueVars, xmitVars, rpcVars
<1>22. IntTxClear => Quiet
  BY DEF Quiet, IntTxClear, intRest, queueVars, xmitVars, rpcVars
<1>23. IntTxAck => Quiet
  BY DEF Quiet, IntTxAck, queueVars, xmitVars, rpcVars
<1>24. IntTxLoad \/ IntTxSetPrio => Quiet
  BY DEF Quiet, IntTxLoad, IntTxSetPrio, intRest, queueVars, xmitVars, rpcVars
<1>25. IntTxRts => Quiet
  BY DEF Quiet, IntTxRts, intRest, queueVars, xmitVars, rpcVars
<1>26. IntRxRead => Quiet
  BY DEF Quiet, IntRxRead, intRest, queueVars, xmitVars, rpcVars
<1>27. IntRxPush => Quiet
  BY DEF Quiet, IntRxPush, xmitVars, rpcVars
<1>28. IntRxPost => Quiet
  BY DEF Quiet, IntRxPost, xmitVars, rpcVars
<1>29. IntAckEmit => Quiet
  BY DEF Quiet, IntAckEmit, intRest, queueVars, xmitVars, rpcVars
<1>30. UNCHANGED driverVars \/ UNCHANGED vars => Quiet
  BY DEF Quiet, vars, driverVars, queueVars, xmitVars, rpcVars
<1> QED
  BY <1>1, <1>2, <1>3, <1>4, <1>5, <1>6, <1>7, <1>8, <1>9, <1>10, <1>11,
     <1>12, <1>13, <1>14, <1>15, <1>16, <1>17, <1>18, <1>19, <1>20, <1>21,
     <1>22, <1>23, <1>24, <1>25, <1>26, <1>27, <1>28, <1>29, <1>30
     DEF Next, RpcCall, RpcStep, SendtoStep, IntStep, IntTxStep, Environment

(* What start_xmit has passed after each of its steps.                     *)
LEMMA PassedStep ==
  ASSUME TypeInv
  PROVE  /\ XmitLock => Passed' = {}
         /\ XmitProbe => Passed' \subseteq Passed \cup (txreq \cap {rpcTxb})
         /\ XmitTrigger => Passed' \subseteq Passed \cup {rpcTxb}
         /\ XmitStarted => Passed' \subseteq Passed
         /\ XmitUnlock => Passed = Txb
<1>1. /\ rpcTxb \in Nat /\ TXB_NUM \in Nat
      /\ \A b \in Txb : b \in Nat /\ b < TXB_NUM
  BY ConstantFacts DEF TypeInv, RpcOK, Txb
<1>2. XmitLock => Passed' = {}
  BY <1>1 DEF XmitLock, Passed
<1>3. XmitProbe => Passed' \subseteq Passed \cup (txreq \cap {rpcTxb})
  <2>1. CASE rpcTxb \in txreq
    <3> SUFFICES ASSUME XmitProbe, NEW b \in Txb, b \in Passed'
                 PROVE  b < rpcTxb \/ b = rpcTxb
      BY <2>1 DEF Passed
    <3>1. rpcTxb' = rpcTxb + 1 /\ rpcPc' = "probe"
      BY <2>1 DEF XmitProbe
    <3> QED BY <1>1, <3>1 DEF Passed
  <2>2. CASE rpcTxb \notin txreq
    BY <1>1, <2>2 DEF XmitProbe, Passed
  <2> QED BY <2>1, <2>2
<1>4. XmitTrigger => Passed' \subseteq Passed \cup {rpcTxb}
  BY <1>1 DEF XmitTrigger, Passed
<1>5. XmitStarted => Passed' \subseteq Passed
  BY <1>1 DEF XmitStarted, Passed
<1>6. XmitUnlock => Passed = Txb
  BY <1>1 DEF XmitUnlock, Passed
<1> QED BY <1>2, <1>3, <1>4, <1>5, <1>6

LEMMA ArmedInit == Init => ArmedInv
BY DEF Init, IntIdle, ArmedInv, LockInv, HandlerInv, PassedArmed,
       EveryBufferArmed, Critical

LEMMA ArmedStep ==
  ASSUME TypeInv, ArmedInv, NoAbort, [Next]_vars
  PROVE  ArmedInv'
<1> USE DEF ArmedInv, LockInv, PassedArmed, EveryBufferArmed
<1>a. HandlerInv' /\ (Armed \subseteq Armed' \/ IntTxStop)
  BY CycleStep DEF CycleKept
<1>b. Armed \subseteq Armed' => (Passed \subseteq Armed => Passed \subseteq Armed')
  OBVIOUS
<1>1. CASE Quiet
  <2>1. UNCHANGED <<rpcPc, rpcTxb>> => Passed' = Passed
    BY DEF Passed
  <2>2. IntTxStop => rpcPc \notin Critical /\ xmit_stopped'
    BY DEF IntTxStop, Critical
  <2>3. IntTxStop => rpcPc' \notin Critical
    BY <2>2 DEF IntTxStop, rpcVars
  <2> QED BY <1>1, <1>a, <2>1, <2>2, <2>3 DEF Quiet
<1>2. CASE SendPush \/ XmitTest
  BY <1>2, <1>a DEF SendPush, XmitTest, SendAgainOrReturn, xmitVars, Critical,
                    IntTxStop, rpcVars
<1>3. CASE XmitLock
  BY <1>3, <1>a, PassedStep DEF XmitLock, Critical
<1>4. CASE XmitProbe
  <2>1. Passed' \subseteq Armed /\ txb_lock = "rpc" /\ rpcPc' \in Critical
    BY <1>4, PassedStep DEF XmitProbe, Critical, Armed
  <2>2. ~IntTxStop /\ txb_lock' = "rpc"
    BY <1>4, <2>1 DEF XmitProbe, IntTxStop, xmitVars
  <2> QED BY <1>a, <2>1, <2>2
<1>5. CASE XmitTrigger
  <2>1. Passed' \subseteq Armed \cup {rpcTxb} /\ rpcPc' \in Critical
    BY <1>5, PassedStep DEF XmitTrigger, Critical
  <2>2. txb_lock = "rpc" /\ txb_lock' = "rpc" /\ ~IntTxStop
    BY <1>5 DEF XmitTrigger, Critical, xmitVars, IntTxStop
  <2>3. rpcTxb \in Armed'
    BY <1>5 DEF XmitTrigger, SetTxif, SetFlags, Armed
  <2> QED BY <1>a, <2>1, <2>2, <2>3
<1>6. CASE XmitStarted
  <2>1. Passed' \subseteq Armed /\ rpcPc' \in Critical
    BY <1>6, PassedStep DEF XmitStarted, Critical
  <2>2. txb_lock = "rpc" /\ txb_lock' = "rpc" /\ ~IntTxStop
    BY <1>6 DEF XmitStarted, Critical, IntTxStop
  <2> QED BY <1>a, <2>1, <2>2
<1>7. CASE XmitUnlock
  <2>1. Txb \subseteq Armed /\ rpcPc' \notin Critical
    BY <1>7, PassedStep DEF XmitUnlock, SendAgainOrReturn, Critical
  <2>2. txb_lock = "rpc" /\ txb_lock' = "free" /\ ~IntTxStop
    BY <1>7 DEF XmitUnlock, Critical, IntTxStop
  <2> QED BY <1>a, <2>1, <2>2
<1>8. CASE IntTxPop
  <2>1. UNCHANGED <<rpcPc, rpcTxb, xmit_stopped, txb_lock>> /\ ~IntTxStop
    BY <1>8 DEF IntTxPop, rpcVars, xmitVars, IntTxStop
  <2>2. Passed' = Passed
    BY <2>1 DEF Passed
  <2> QED BY <1>a, <2>1, <2>2
<1>9. CASE IntTxStop
  <2>1. UNCHANGED <<rpcPc, txb_lock>> /\ xmit_stopped' /\ txb_lock = "free"
    BY <1>9 DEF IntTxStop, rpcVars
  <2> QED BY <1>a, <2>1
<1> QED
  BY <1>1, <1>2, <1>3, <1>4, <1>5, <1>6, <1>7, <1>8, <1>9, QuietSteps
     DEF XmitStep

(* While xmit_stopped is clear, every transmit buffer is in the cycle of   *)
(* interrupt, load and transmission (irq.c 106-148, 257-271).              *)
THEOREM BuffersStayArmed ==
  ASSUME NoAbort PROVE Spec => []EveryBufferArmed
<1>1. Init => TypeInv /\ ArmedInv
  BY InitType, ArmedInit
<1>2. TypeInv /\ ArmedInv /\ [Next]_vars => TypeInv' /\ ArmedInv'
  BY NextType, ArmedStep
<1>3. ArmedInv => EveryBufferArmed
  BY DEF ArmedInv
<1> QED BY <1>1, <1>2, <1>3, PTL DEF Spec

-----------------------------------------------------------------------------
(* One stopping buffer must leave another in the cycle.                    *)
TwoBuffers == TXB_NUM > 1

WakeInv == TypeInv /\ ArmedInv /\ PassedServed /\ QueueServed

LEMMA WakeInit == Init => PassedServed /\ QueueServed
BY DEF Init, PassedServed, QueueServed

(* Every other buffer is still served when xmit_stopped is being set.      *)
LEMMA StopLeavesOne ==
  ASSUME TypeInv, ArmedInv, TwoBuffers, ~xmit_stopped, txb_lock = "free",
         intPc = "stop"
  PROVE  Txb \cap Served # {}
<1>1. PICK b \in Txb : b # intTxb
  <2>1. 0 \in Txb /\ 1 \in Txb
    BY ConstantFacts DEF TwoBuffers, Txb
  <2> QED BY <2>1
<1>2. b \in Armed
  BY DEF ArmedInv, EveryBufferArmed
<1>3. b \in Served
  BY <1>1, <1>2 DEF Served, Armed, InHand
<1> QED BY <1>3

LEMMA WakeStep ==
  ASSUME WakeInv, NoAbort, TwoBuffers, [Next]_vars
  PROVE  PassedServed' /\ QueueServed'
<1> USE DEF WakeInv, PassedServed, QueueServed
<1>a. Served \subseteq Served' \/ (IntTxPop /\ txq = <<>>)
  BY CycleStep DEF CycleKept, ArmedInv
<1>b. LockInv
  BY DEF ArmedInv
<1>1. CASE Quiet
  <2>1. UNCHANGED <<rpcPc, rpcTxb>> => Passed' = Passed
    BY DEF Passed
  <2> QED BY <1>1, <1>a, <2>1 DEF Quiet
<1>2. CASE SendPush
  BY <1>2 DEF SendPush, Critical
<1>3. CASE XmitTest
  BY <1>3 DEF XmitTest, SendAgainOrReturn, xmitVars, Critical
<1>4. CASE XmitLock
  BY <1>4, PassedStep DEF XmitLock, Critical
<1>5. CASE XmitProbe
  <2>1. txq # <<>> => Passed' \subseteq Served
    BY <1>5, PassedStep DEF XmitProbe, Critical, Served, Armed
  <2>2. UNCHANGED txq /\ rpcPc' \in Critical
    BY <1>5 DEF XmitProbe, queueVars, Critical
  <2> QED BY <1>a, <2>1, <2>2
<1>6. CASE XmitTrigger
  <2>1. txq # <<>> => Passed' \subseteq Served \cup {rpcTxb}
    BY <1>6, PassedStep DEF XmitTrigger, Critical
  <2>2. rpcTxb \in Served'
    BY <1>6 DEF XmitTrigger, SetTxif, SetFlags, Served, Armed
  <2>3. UNCHANGED txq /\ rpcPc' \in Critical
    BY <1>6 DEF XmitTrigger, queueVars, Critical
  <2> QED BY <1>a, <2>1, <2>2, <2>3
<1>7. CASE XmitStarted
  <2>1. txq # <<>> => Passed' \subseteq Served
    BY <1>7, PassedStep DEF XmitStarted, Critical
  <2>2. UNCHANGED txq /\ rpcPc' \in Critical
    BY <1>7 DEF XmitStarted, queueVars, Critical
  <2> QED BY <1>a, <2>1, <2>2
<1>8. CASE XmitUnlock
  <2>1. txq # <<>> => Txb \subseteq Served
    BY <1>8, PassedStep DEF XmitUnlock, Critical
  <2>2. UNCHANGED txq /\ rpcPc' \notin Critical
    BY <1>8 DEF XmitUnlock, queueVars, Critical, SendAgainOrReturn
  <2>3. 0 \in Txb
    BY ConstantFacts
  <2> QED BY <1>a, <2>1, <2>2, <2>3
<1>9. CASE IntTxPop
  <2>1. UNCHANGED <<rpcPc, rpcTxb, xmit_stopped>>
    BY <1>9 DEF IntTxPop, rpcVars, xmitVars
  <2>2. Passed' = Passed
    BY <2>1 DEF Passed
  <2>3. txq = <<>> => txq' = <<>>
    BY <1>9 DEF IntTxPop
  <2> QED BY <1>a, <2>1, <2>2, <2>3
<1>10. CASE IntTxStop
  <2>1. /\ UNCHANGED <<rpcPc, rpcTxb, txq>>
        /\ intPc = "stop" /\ txb_lock = "free"
    BY <1>10 DEF IntTxStop, rpcVars, queueVars
  <2>2. Served \subseteq Served'
    BY <1>10, <1>a DEF IntTxPop, IntTxStop
  <2>3. rpcPc' \notin Critical
    BY <1>b, <2>1 DEF LockInv
  <2>4. CASE xmit_stopped
    BY <2>1, <2>2, <2>3, <2>4
  <2>5. CASE ~xmit_stopped
    BY <2>1, <2>2, <2>3, <2>5, StopLeavesOne
  <2> QED BY <2>4, <2>5
<1> QED
  BY <1>1, <1>2, <1>3, <1>4, <1>5, <1>6, <1>7, <1>8, <1>9, <1>10, QuietSteps
     DEF XmitStep

LEMMA WakeImplies == WakeInv => QueuedFrameInCycle
<1> SUFFICES ASSUME WakeInv, txq # <<>>, rpcPc = "idle", intPc = "wait"
             PROVE  txif \cup txreq # {}
  BY DEF QueuedFrameInCycle
<1>1. Armed = txif \cup txreq /\ Served = txif \cup txreq
  BY DEF WakeInv, ArmedInv, HandlerInv, Armed, InHand, Served
<1>2. CASE xmit_stopped
  BY <1>1, <1>2 DEF WakeInv, QueueServed, Critical
<1>3. CASE ~xmit_stopped
  <2>1. txb_lock = "free"
    BY DEF WakeInv, TypeInv, SharedOK, ArmedInv, LockInv, Critical
  <2>2. 0 \in Armed
    BY <1>3, <2>1, ConstantFacts DEF WakeInv, ArmedInv, EveryBufferArmed
  <2> QED BY <1>1, <2>2
<1> QED BY <1>2, <1>3

(* Between can_send and transmit_message no frame is left in the TX queue  *)
(* without a buffer in the cycle, if there are two buffers or more: one    *)
(* has its flag set or is in transmission (irq.c 132-141, 257-271).        *)
THEOREM QueuedFrameStaysInCycle ==
  ASSUME NoAbort, TwoBuffers PROVE Spec => []QueuedFrameInCycle
<1>1. Init => WakeInv
  BY InitType, ArmedInit, WakeInit DEF WakeInv
<1>2. WakeInv /\ [Next]_vars => WakeInv'
  BY NextType, ArmedStep, WakeStep DEF WakeInv
<1>3. WakeInv => QueuedFrameInCycle
  BY WakeImplies
<1> QED BY <1>1, <1>2, <1>3, PTL DEF Spec
=============================================================================
