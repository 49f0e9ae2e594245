-------------------------- MODULE CanFrames_proof ---------------------------
(***************************************************************************)
(* What a client can rely on, for every number of frames, transmit buffers *)
(* and queue slots: the priorities can_sendto hands out rank every pending *)
(* buffer of a client that waits for its acknowledges, and can_recv sees   *)
(* the frames in the order of their arrival.                               *)
(***************************************************************************)
EXTENDS CanDriver_proof

-----------------------------------------------------------------------------
(* can_sendto, for a client that leaves the TX queue to others: with       *)
(* can_send in use as well, the handler loads buffers of its own choice.   *)

NoSend == "send" \notin Ops

(* An identifier 0 would be stored as an invalid cache entry.              *)
ValidIds == \A n \in 1 .. MaxSend : CanId[n] > 0

(* can_send's steps and transmit_message's loads do not happen.            *)
QueueUnused ==
  /\ rpcPc \notin {"push", "test", "lock", "probe", "trigger", "started"}
  /\ txq = <<>> /\ intRts = {} /\ intPc \notin {"txload", "txprio"}

(* From txb_status to the request to send a buffer is the client's.        *)
Working == {"prio", "zero", "zeroed", "rank", "ranked", "reprio", "bitmod",
            "load", "loaded", "rts"}
Client(b) == rpcPc \in Working /\ rpcTxb = b

StatusHolds == rpcPc \in Working => rpcTxb \notin txreq

(* The buffers whose acknowledge transmit_message has still to emit.       *)
ToAck == IF intPc \in {"txpop", "stop"} THEN intTx \ {intTxb} ELSE intTx

(* In these places the handler has read the flags and not cleared them.    *)
Clearing == {"faults", "eflg", "ovr", "errif", "txclear"}

(* A buffer the client reuses only after its acknowledge is in one place   *)
(* at a time: acknowledged, the client's, pending, flagged or in the       *)
(* handler.  So the handler's canid_clear_cache never hits a buffer that   *)
(* has been filled again.                                                  *)
OnePlace(b) ==
  /\ b \in acked \/ Client(b) \/ b \in txreq => b \notin txif \cup ToAck
  /\ b \in acked \/ Client(b) => b \notin txreq
  /\ b \in acked => ~Client(b)
  /\ intPc \notin Clearing => b \notin txif \cap ToAck
  /\ rpcPc = "status" /\ rpcTxb = b => b \in acked
  /\ b \in txreq \/ (Client(b) /\ rpcPc # "prio") => canid_cache_is_valid(b)

(* An entry of such a buffer is valid when it is read, so it stays valid   *)
(* when it is written back.                                                *)
EntryRead(b) ==
  /\ rpcPc \in {"zeroed", "ranked"}
  /\ rpcIdx = b
  /\ b \in txreq \/ Client(b)
  => rpcEntry.canid # 0

SendtoInv == QueueUnused /\ StatusHolds

CacheInv == \A b \in AckedBufs : OnePlace(b) /\ EntryRead(b)

LEMMA SendtoInit == Init => SendtoInv /\ CacheInv
<1> SUFFICES ASSUME Init PROVE SendtoInv /\ CacheInv
  OBVIOUS
<1>1. SendtoInv
  BY DEF Init, IntIdle, SendtoInv, QueueUnused, StatusHolds, Working
<1>2. \A b \in AckedBufs : EntryRead(b)
  BY DEF Init, EntryRead
<1>3. \A b \in AckedBufs : OnePlace(b)
  BY DEF Init, IntIdle, Mcp2515Init, OnePlace, Client, Working, ToAck,
     Clearing
<1> QED BY <1>1, <1>2, <1>3 DEF CacheInv

(* can_send's steps need can_send.                                         *)
LEMMA NoSendSteps ==
  ASSUME NoSend, QueueUnused
  PROVE  ~(Send \/ SendPush \/ XmitStep \/ IntTxLoad \/ IntTxSetPrio)
BY DEF NoSend, QueueUnused, Send, SendPush, XmitStep, XmitTest, XmitLock,
   XmitProbe, XmitTrigger, XmitStarted, XmitUnlock, IntTxLoad, IntTxSetPrio

LEMMA SendtoNext ==
  ASSUME NoSend, SendtoInv, [Next]_vars
  PROVE  SendtoInv'
<1> USE DEF SendtoInv, QueueUnused, StatusHolds, Working
<1>1. ~(Send \/ SendPush \/ XmitStep \/ IntTxLoad \/ IntTxSetPrio)
  BY NoSendSteps DEF SendtoInv
<1>2. CASE Recv
  BY <1>2 DEF Recv, queueVars, sendtoVars, intVars, chipVars, intfVars,
     txChipVars
<1>3. CASE RecvWait
  BY <1>3 DEF RecvWait, sendtoVars, intVars, chipVars, intfVars, txChipVars
<1>4. CASE RecvPop
  BY <1>4 DEF RecvPop, sendtoVars, intVars, chipVars, intfVars, txChipVars
<1>5. CASE RecvRxb
  BY <1>5 DEF RecvRxb, queueVars, rpcVars, sendtoVars, intVars, txChipVars,
     mcp2515_read_rxb, SetFlags
<1>6. CASE Sendto
  BY <1>6 DEF Sendto, queueVars, sendtoVars, intVars, chipVars, intfVars,
     txChipVars
<1>7. CASE SendtoStatus
  BY <1>7 DEF SendtoStatus, queueVars, sendtoVars, intVars, chipVars,
     intfVars, txChipVars
<1>8. CASE SendtoPriority
  BY <1>8 DEF SendtoPriority, queueVars, intVars, chipVars, intfVars,
     txChipVars, canid_cache_is_valid
<1>9. CASE SendtoZero \/ SendtoRank \/ SendtoWriteEntry
  BY <1>9 DEF SendtoZero, SendtoRank, SendtoWriteEntry, queueVars, intVars,
     chipVars, intfVars, txChipVars
<1>10. CASE SendtoNextLoop \/ SendtoReprioritise \/ SendtoBitModify
  BY <1>10 DEF SendtoNextLoop, SendtoReprioritise, SendtoBitModify, queueVars,
     intVars, chipVars, intfVars, txChipVars
<1>11. CASE SendtoRanked
  BY <1>11 DEF SendtoRanked, queueVars, intVars, chipVars, intfVars,
     txChipVars
<1>12. CASE SendtoLoad \/ SendtoSetPrio
  BY <1>12 DEF SendtoLoad, SendtoSetPrio, queueVars, sendtoVars, intVars,
     intfVars
<1>13. CASE SendtoRts
  BY <1>13 DEF SendtoRts, queueVars, intVars, intfVars, mcp2515_rts
<1>14. CASE Abort
  BY <1>14 DEF Abort, queueVars, rpcVars, sendtoVars, intVars, intfVars
<1>15. CASE IntStart
  BY <1>15 DEF IntStart, chipVars, intfVars, txChipVars, intRest, queueVars,
     rpcVars, sendtoVars
<1>16. CASE IntFlags
  BY <1>16 DEF IntFlags, chipVars, intfVars, txChipVars, intRest, queueVars,
     rpcVars, sendtoVars
<1>17. CASE IntFault
  BY <1>17 DEF IntFault, txChipVars, intRest, queueVars, rpcVars, sendtoVars,
     ClearFault, SetFlags
<1>18. CASE IntFaultsDone
  BY <1>18 DEF IntFaultsDone, chipVars, intfVars, txChipVars, intRest,
     queueVars, rpcVars, sendtoVars, AfterWake, AfterError, AfterTx, AfterRx0
<1>19. CASE IntReadEflg
  BY <1>19 DEF IntReadEflg, chipVars, intfVars, txChipVars, intRest,
     queueVars, rpcVars, sendtoVars
<1>20. CASE IntClearOverflow
  BY <1>20 DEF IntClearOverflow, intfVars, txChipVars, intRest, queueVars,
     rpcVars, sendtoVars
<1>21. CASE IntClearError
  BY <1>21 DEF IntClearError, txChipVars, intRest, queueVars, rpcVars,
     sendtoVars, ClearFault, SetFlags, AfterError, AfterTx, AfterRx0
<1>22. CASE IntTxClear
  BY <1>22 DEF IntTxClear, txChipVars, intRest, queueVars, rpcVars,
     sendtoVars, ClearTxif, SetFlags
<1>23. CASE IntTxAck
  BY <1>23 DEF IntTxAck, queueVars, rpcVars, sendtoVars, chipVars, intfVars,
     txChipVars
<1>24. CASE IntTxPop
  BY <1>24 DEF IntTxPop, rpcVars, sendtoVars, chipVars, intfVars, txChipVars
<1>25. CASE IntTxStop
  BY <1>25 DEF IntTxStop, queueVars, rpcVars, sendtoVars, chipVars, intfVars,
     txChipVars, NextTxb
<1>26. CASE IntTxRts
  BY <1>26 DEF IntTxRts, intfVars, intRest, queueVars, rpcVars, sendtoVars,
     mcp2515_rts, AfterTx, AfterRx0
<1>27. CASE IntRxRead
  BY <1>27 DEF IntRxRead, txChipVars, intRest, queueVars, rpcVars,
     sendtoVars, mcp2515_read_rxb, SetFlags
<1>28. CASE IntRxPush
  BY <1>28 DEF IntRxPush, rpcVars, sendtoVars, chipVars, intfVars, txChipVars
<1>29. CASE IntRxPost
  BY <1>29 DEF IntRxPost, rpcVars, sendtoVars, chipVars, intfVars,
     txChipVars, AfterRx0
<1>30. CASE IntAckEmit
  BY <1>30 DEF IntAckEmit, chipVars, intfVars, txChipVars, intRest,
     queueVars, rpcVars, sendtoVars
<1>31. CASE BusNext /\ UNCHANGED driverVars
  BY <1>31 DEF BusNext, TxDone, RxArrive, RaiseFault, SetFlags, driverVars,
     queueVars, cacheVars, rpcVars, sendtoVars, intVars, txChipVars
<1>32. CASE GpioNext /\ UNCHANGED <<chipVars, driverVars>>
  BY <1>32 DEF driverVars, queueVars, cacheVars, rpcVars, sendtoVars, intVars,
     chipVars, intfVars, txChipVars
<1>33. CASE UNCHANGED vars
  BY <1>33 DEF vars, queueVars, cacheVars, rpcVars, sendtoVars, intVars,
     chipVars, intfVars, txChipVars
<1> HIDE DEF SendtoInv, EntryRead, OnePlace
<1> QED
  BY <1>1, <1>2, <1>3, <1>4, <1>5, <1>6, <1>7, <1>8, <1>9, <1>10, <1>11,
     <1>12, <1>13, <1>14, <1>15, <1>16, <1>17, <1>18, <1>19, <1>20, <1>21,
     <1>22, <1>23, <1>24, <1>25, <1>26, <1>27, <1>28, <1>29, <1>30, <1>31,
     <1>32, <1>33
     DEF Next, RpcCall, RpcStep, SendtoStep, IntStep, IntTxStep, Environment

(* The identifiers in the cache after an entry is filled or written back.  *)
LEMMA StoredId ==
  ASSUME NEW b \in Txb, NEW n \in Nat, NEW cache \in [Txb -> CacheEntry]
  PROVE  [cache EXCEPT ![b].canid = n][b].canid = n
BY DEF CacheEntry

LEMMA WrittenId ==
  ASSUME TypeInv, SendtoWriteEntry
  PROVE  /\ \A c \in Txb \ {rpcIdx} : txb_cache'[c] = txb_cache[c]
         /\ txb_cache'[rpcIdx].canid
              \in {rpcEntry.canid, txb_cache[rpcIdx].canid}
<1>1. txb_cache \in [Txb -> CacheEntry] /\ rpcIdx \in Txb
  BY DEF TypeInv, SharedOK, RpcOK
<1>2. PICK entry \in {rpcEntry, txb_cache[rpcIdx]} :
        txb_cache' = [txb_cache EXCEPT ![rpcIdx] =
                       [canid |-> entry.canid,
                        priority |-> IF rpcPc = "zeroed" THEN 0
                                     ELSE (entry.priority + 1) % 4]]
  BY DEF SendtoWriteEntry
<1> QED BY <1>1, <1>2

LEMMA OnePlaceNext ==
  ASSUME TypeInv, NoSend, ValidIds, SendtoInv, CacheInv, [Next]_vars,
         NEW b \in AckedBufs
  PROVE  OnePlace(b)' /\ EntryRead(b)'
<1> USE DEF CacheInv, EntryRead, canid_cache_is_valid, OnePlace, SendtoInv, QueueUnused, Client,
            Working, ToAck, Clearing, TypeInv, SharedOK, RpcOK
<1>0. b \in Txb
  BY DriverAssumption
<1>1. ~(Send \/ SendPush \/ XmitStep \/ IntTxLoad \/ IntTxSetPrio)
  BY NoSendSteps DEF SendtoInv
<1>2. CASE Recv
  BY <1>2, <1>0 DEF Recv, queueVars, cacheVars, sendtoVars, intVars,
     chipVars, intfVars, txChipVars
<1>3. CASE RecvWait
  BY <1>3, <1>0 DEF RecvWait, cacheVars, sendtoVars, intVars, chipVars,
     intfVars, txChipVars
<1>4. CASE RecvPop
  BY <1>4, <1>0 DEF RecvPop, cacheVars, sendtoVars, intVars, chipVars,
     intfVars, txChipVars
<1>5. CASE RecvRxb
  BY <1>5, <1>0 DEF RecvRxb, queueVars, cacheVars, rpcVars, sendtoVars,
     intVars, txChipVars, mcp2515_read_rxb, SetFlags
<1>6. CASE Sendto
  BY <1>6, <1>0 DEF Sendto, queueVars, cacheVars, sendtoVars, intVars,
     chipVars, intfVars, txChipVars
<1>7. CASE SendtoStatus
  BY <1>7, <1>0 DEF SendtoStatus, queueVars, sendtoVars, intVars, chipVars,
     intfVars, txChipVars
<1>8. CASE SendtoPriority
  <2>1. /\ rpcPc = "prio" /\ rpcTxb \in Txb
        /\ CanId[rpcFrame] \in Nat \ {0}
        /\ UNCHANGED <<acked, rpcTxb, txreq, txif, intPc, intTx, intTxb>>
        /\ rpcPc' \in {"zero", "load"}
    BY <1>8, NumberFacts DEF SendtoPriority, intVars, chipVars, intfVars,
       txChipVars, ValidIds
  <2>2. CASE canid_cache_is_valid(rpcTxb)
    BY <1>8, <1>0, <2>1, <2>2 DEF SendtoPriority
  <2>3. CASE ~canid_cache_is_valid(rpcTxb)
    <3>1. txb_cache' = [txb_cache EXCEPT ![rpcTxb].canid = CanId[rpcFrame]]
      BY <1>8, <2>3 DEF SendtoPriority
    <3>2. \A c \in Txb \ {rpcTxb} : txb_cache'[c] = txb_cache[c]
      BY <3>1
    <3>3. txb_cache'[rpcTxb].canid # 0
      <4>1. txb_cache[rpcTxb] \in CacheEntry
        BY <2>1
      <4> QED BY <2>1, <3>1, <4>1, StoredId
    <3> QED BY <1>0, <2>1, <3>2, <3>3
  <2> QED BY <2>2, <2>3
<1>9. CASE SendtoZero \/ SendtoRank \/ SendtoReprioritise
  <2>1. /\ rpcPc \in {"zero", "rank", "reprio"} /\ rpcPc' \in Working \ {"prio"}
        /\ UNCHANGED <<txb_cache, acked, rpcTxb, txreq, txif, intPc, intTx,
                       intTxb>>
    BY <1>9 DEF SendtoZero, SendtoRank, SendtoReprioritise, cacheVars, intVars,
       chipVars, intfVars, txChipVars
  <2>2. rpcPc' \in {"zeroed", "ranked"} => rpcEntry' = txb_cache[rpcIdx']
    BY <1>9 DEF SendtoZero, SendtoRank, SendtoReprioritise, ReadEntry
  <2> QED BY <1>0, <2>1, <2>2
<1>34. CASE SendtoWriteEntry
  <2>1. /\ rpcPc \in {"zeroed", "ranked"} /\ rpcPc' \in {"zero", "rank"}
        /\ UNCHANGED <<acked, rpcTxb, txreq, txif, intPc, intTx, intTxb>>
    BY <1>34 DEF SendtoWriteEntry, intVars, chipVars, intfVars, txChipVars
  <2>2. /\ \A c \in Txb \ {rpcIdx} : txb_cache'[c] = txb_cache[c]
        /\ txb_cache'[rpcIdx].canid \in {rpcEntry.canid, txb_cache[rpcIdx].canid}
    BY <1>34, WrittenId
  <2> QED BY <1>0, <2>1, <2>2
<1>10. CASE SendtoNextLoop
  BY <1>10, <1>0 DEF SendtoNextLoop, queueVars, cacheVars, intVars, chipVars,
     intfVars, txChipVars
<1>35. CASE SendtoBitModify
  BY <1>35, <1>0 DEF SendtoBitModify, queueVars, cacheVars, intVars, intfVars
<1>11. CASE SendtoRanked
  BY <1>11, <1>0 DEF SendtoRanked, queueVars, cacheVars, intVars, chipVars,
     intfVars, txChipVars
<1>12. CASE SendtoLoad \/ SendtoSetPrio
  BY <1>12, <1>0 DEF SendtoLoad, SendtoSetPrio, queueVars, cacheVars,
     sendtoVars, intVars, intfVars
<1>13. CASE SendtoRts
  BY <1>13, <1>0 DEF SendtoRts, queueVars, cacheVars, intVars, intfVars,
     mcp2515_rts
<1>14. CASE Abort
  BY <1>14, <1>0 DEF Abort, queueVars, cacheVars, rpcVars, sendtoVars,
     intVars, intfVars
<1>15. CASE IntStart
  BY <1>15, <1>0 DEF IntStart, chipVars, intfVars, txChipVars, intRest,
     queueVars, cacheVars, rpcVars, sendtoVars
<1>16. CASE IntFlags
  BY <1>16, <1>0 DEF IntFlags, chipVars, intfVars, txChipVars, intRest,
     queueVars, cacheVars, rpcVars, sendtoVars
<1>17. CASE IntFault
  BY <1>17, <1>0 DEF IntFault, txChipVars, intRest, queueVars, cacheVars,
     rpcVars, sendtoVars, ClearFault, SetFlags
<1>18. CASE IntFaultsDone
  BY <1>18, <1>0 DEF IntFaultsDone, chipVars, intfVars, txChipVars, intRest,
     queueVars, cacheVars, rpcVars, sendtoVars, AfterWake, AfterError,
     AfterTx, AfterRx0
<1>19. CASE IntReadEflg
  BY <1>19, <1>0 DEF IntReadEflg, chipVars, intfVars, txChipVars, intRest,
     queueVars, cacheVars, rpcVars, sendtoVars
<1>20. CASE IntClearOverflow
  BY <1>20, <1>0 DEF IntClearOverflow, intfVars, txChipVars, intRest,
     queueVars, cacheVars, rpcVars, sendtoVars
<1>21. CASE IntClearError
  BY <1>21, <1>0 DEF IntClearError, txChipVars, intRest, queueVars,
     cacheVars, rpcVars, sendtoVars, ClearFault, SetFlags, AfterError,
     AfterTx, AfterRx0
<1>22. CASE IntTxClear
  BY <1>22, <1>0 DEF IntTxClear, txChipVars, intRest, queueVars, cacheVars,
     rpcVars, sendtoVars, ClearTxif, SetFlags
<1>23. CASE IntTxAck
  BY <1>23, <1>0 DEF IntTxAck, queueVars, rpcVars, sendtoVars, chipVars,
     intfVars, txChipVars
<1>24. CASE IntTxPop
  BY <1>24, <1>0 DEF IntTxPop, cacheVars, rpcVars, sendtoVars, chipVars,
     intfVars, txChipVars
<1>25. CASE IntTxStop
  BY <1>25, <1>0 DEF IntTxStop, queueVars, cacheVars, rpcVars, sendtoVars,
     chipVars, intfVars, txChipVars, NextTxb
<1>26. CASE IntTxRts
  BY <1>26, <1>0 DEF IntTxRts, intfVars, intRest, queueVars, cacheVars,
     rpcVars, sendtoVars, mcp2515_rts, AfterTx, AfterRx0
<1>27. CASE IntRxRead
  BY <1>27, <1>0 DEF IntRxRead, txChipVars, intRest, queueVars, cacheVars,
     rpcVars, sendtoVars, mcp2515_read_rxb, SetFlags
<1>28. CASE IntRxPush
  BY <1>28, <1>0 DEF IntRxPush, cacheVars, rpcVars, sendtoVars, chipVars,
     intfVars, txChipVars
<1>29. CASE IntRxPost
  BY <1>29, <1>0 DEF IntRxPost, cacheVars, rpcVars, sendtoVars, chipVars,
     intfVars, txChipVars, AfterRx0
<1>30. CASE IntAckEmit
  BY <1>30, <1>0 DEF IntAckEmit, chipVars, intfVars, txChipVars, intRest,
     queueVars, cacheVars, rpcVars, sendtoVars
<1>31. CASE BusNext /\ UNCHANGED driverVars
  BY <1>31 DEF BusNext, TxDone, RxArrive, RaiseFault, SetFlags, driverVars,
     queueVars, cacheVars, rpcVars, sendtoVars, intVars, txChipVars
<1>32. CASE GpioNext /\ UNCHANGED <<chipVars, driverVars>>
  BY <1>32 DEF driverVars, queueVars, cacheVars, rpcVars, sendtoVars, intVars,
     chipVars, intfVars, txChipVars
<1>33. CASE UNCHANGED vars
  BY <1>33 DEF vars, queueVars, cacheVars, rpcVars, sendtoVars, intVars,
     chipVars, intfVars, txChipVars
<1> HIDE DEF SendtoInv, EntryRead, OnePlace
<1> QED
  BY <1>1, <1>2, <1>3, <1>4, <1>5, <1>6, <1>7, <1>8, <1>9, <1>10, <1>11,
     <1>12, <1>13, <1>14, <1>15, <1>16, <1>17, <1>18, <1>19, <1>20, <1>21,
     <1>22, <1>23, <1>24, <1>25, <1>26, <1>27, <1>28, <1>29, <1>30, <1>31,
     <1>32, <1>33, <1>34, <1>35
     DEF Next, RpcCall, RpcStep, SendtoStep, IntStep, IntTxStep, Environment

(* As long as the client waits for txbN_ack, every buffer that is pending  *)
(* has its entry in the cache the priorities are ranked by.                *)
THEOREM PendingBuffersCached ==
  ASSUME NoSend, ValidIds PROVE Spec => []PendingIsCached
<1> DEFINE Inv == TypeInv /\ SendtoInv /\ CacheInv
<1>1. Init => Inv
  BY InitType, SendtoInit
<1>2. Inv /\ [Next]_vars => Inv'
  <2> SUFFICES ASSUME Inv, [Next]_vars PROVE Inv'
    OBVIOUS
  <2>1. TypeInv' /\ SendtoInv'
    BY NextType, SendtoNext
  <2>2. CacheInv'
    BY OnePlaceNext DEF CacheInv
  <2> QED BY <2>1, <2>2
<1>3. Inv => PendingIsCached
  BY DEF CacheInv, OnePlace, PendingIsCached, canid_cache_is_valid
<1> QED BY <1>1, <1>2, <1>3, PTL DEF Spec

-----------------------------------------------------------------------------
(* can_recv, for a client that does not read a receive buffer past the     *)
(* queue and filters that route every frame to RXB0: the controller's      *)
(* buffer 1 is never read, whatever the flags say.                         *)

OnlyQueue == "recv_rxb" \notin Ops /\ 1 \notin RxBufs

(* Buffer 0 is read only while it holds a frame that is not yet taken.     *)
RxHandlerInv ==
  /\ 1 \notin rxif \cup intRx
  /\ 0 \in intRx => 0 \in rxif
  /\ intPc # "rx1"
  /\ intPc = "rx0" => 0 \in intRx

(* The last two stations of the pipeline.                                  *)
Hand == IF intPc = "rxpush" THEN <<intFrame>> ELSE <<>>
Chip == IF 0 \in rxif THEN <<rxb[0]>> ELSE <<>>

(* Frames are numbered by arrival: the numbers grow and end at arrived.    *)
Ascending(s, n) ==
  /\ s \in Seq(Nat)
  /\ \A i, j \in 1 .. Len(s) : i < j => s[i] < s[j]
  /\ \A i \in 1 .. Len(s) : s[i] <= n

OrderInv == Ascending(Pipeline, arrived)

LEMMA PipelineParts ==
  TypeInv => /\ delivered \in Seq(Nat) /\ rxq \in Seq(Nat)
             /\ Hand \in Seq(Nat) /\ Chip \in Seq(Nat)
             /\ rxb[0] \in Nat /\ arrived \in Nat
             /\ intPc = "rxpush" => intFrame \in Nat
             /\ Pipeline = ((delivered \o rxq) \o Hand) \o Chip
<1> SUFFICES ASSUME TypeInv
             PROVE  /\ delivered \in Seq(Nat) /\ rxq \in Seq(Nat)
                    /\ Hand \in Seq(Nat) /\ Chip \in Seq(Nat)
                    /\ rxb[0] \in Nat /\ arrived \in Nat
                    /\ intPc = "rxpush" => intFrame \in Nat
  BY DEF Pipeline, Hand, Chip
<1>1. RxFrame \subseteq Nat
  BY ConstantFacts DEF RxFrame
<1>2. delivered \in Seq(Nat) /\ rxq \in Seq(Nat)
  BY <1>1, SeqMonotonic DEF TypeInv, QueuesOK
<1>3. rxb[0] \in Nat /\ arrived \in Nat
  BY <1>1 DEF TypeInv, Mcp2515TypeOK
<1>4. intPc = "rxpush" => intFrame \in Nat
  BY <1>1 DEF TypeInv, IntOK
<1>5. Hand \in Seq(Nat) /\ Chip \in Seq(Nat)
  BY <1>3, <1>4 DEF Hand, Chip
<1> QED BY <1>2, <1>3, <1>4, <1>5

(* A new frame at the end, numbered one higher.                            *)
LEMMA AscendingAppend ==
  ASSUME NEW s, NEW n \in Nat, Ascending(s, n)
  PROVE  Ascending(s \o <<n + 1>>, n + 1)
<1> DEFINE t == s \o <<n + 1>>
<1>1. s \in Seq(Nat) /\ <<n + 1>> \in Seq(Nat) /\ Len(<<n + 1>>) = 1
      /\ <<n + 1>>[1] = n + 1
  BY DEF Ascending
<1>2. /\ t \in Seq(Nat) /\ Len(t) = Len(s) + 1
      /\ \A i \in 1 .. Len(s) + 1 :
           t[i] = IF i <= Len(s) THEN s[i] ELSE <<n + 1>>[i - Len(s)]
  BY <1>1, ConcatProperties
<1>3. \A i \in 1 .. Len(s) : t[i] = s[i] /\ s[i] <= n /\ s[i] \in Nat
  BY <1>1, <1>2, ElementOfSeq DEF Ascending
<1>4. t[Len(s) + 1] = n + 1
  BY <1>1, <1>2
<1>5. \A i, j \in 1 .. Len(t) : i < j => t[i] < t[j]
  <2> SUFFICES ASSUME NEW i \in 1 .. Len(t), NEW j \in 1 .. Len(t), i < j
               PROVE  t[i] < t[j]
    OBVIOUS
  <2>1. i \in 1 .. Len(s) /\ (j \in 1 .. Len(s) \/ j = Len(s) + 1)
    BY <1>1, <1>2
  <2>2. CASE j \in 1 .. Len(s)
    BY <1>3, <2>1, <2>2 DEF Ascending
  <2>3. CASE j = Len(s) + 1
    BY <1>3, <1>4, <2>1, <2>3
  <2> QED BY <2>1, <2>2, <2>3
<1>6. \A i \in 1 .. Len(t) : t[i] <= n + 1
  BY <1>1, <1>2, <1>3, <1>4
<1> QED BY <1>2, <1>5, <1>6 DEF Ascending

(* A frame lost at the controller: its number is not used.                 *)
LEMMA AscendingMore ==
  ASSUME NEW s, NEW n \in Nat, Ascending(s, n)
  PROVE  Ascending(s, n + 1)
<1>1. \A i \in 1 .. Len(s) : s[i] \in Nat /\ s[i] <= n
  BY ElementOfSeq DEF Ascending
<1>2. \A i \in 1 .. Len(s) : s[i] <= n + 1
  BY <1>1
<1> QED BY <1>2 DEF Ascending

(* A frame lost in the middle: the queue was full.                         *)
LEMMA AscendingDrop ==
  ASSUME NEW s \in Seq(Nat), NEW f \in Nat, NEW c \in Seq(Nat), NEW n \in Nat,
         Ascending((s \o <<f>>) \o c, n)
  PROVE  Ascending(s \o c, n)
<1> DEFINE u == s \o <<f>>
           t == u \o c
           d == s \o c
           At(i) == IF i <= Len(s) THEN i ELSE i + 1
<1>1. /\ u \in Seq(Nat) /\ Len(u) = Len(s) + 1
      /\ \A i \in 1 .. Len(s) : u[i] = s[i]
  BY ConcatProperties
<1>2. /\ t \in Seq(Nat) /\ Len(t) = Len(u) + Len(c)
      /\ \A i \in 1 .. Len(u) + Len(c) :
           t[i] = IF i <= Len(u) THEN u[i] ELSE c[i - Len(u)]
  BY <1>1, ConcatProperties
<1>3. /\ d \in Seq(Nat) /\ Len(d) = Len(s) + Len(c)
      /\ \A i \in 1 .. Len(s) + Len(c) :
           d[i] = IF i <= Len(s) THEN s[i] ELSE c[i - Len(s)]
  BY ConcatProperties
<1>4. Len(s) \in Nat /\ Len(c) \in Nat
  OBVIOUS
<1>5. \A i \in 1 .. Len(d) : At(i) \in 1 .. Len(t) /\ d[i] = t[At(i)]
  <2> SUFFICES ASSUME NEW i \in 1 .. Len(d)
               PROVE  At(i) \in 1 .. Len(t) /\ d[i] = t[At(i)]
    OBVIOUS
  <2>1. CASE i <= Len(s)
    BY <1>1, <1>2, <1>3, <1>4, <2>1
  <2>2. CASE i > Len(s)
    <3>1. At(i) = i + 1 /\ i + 1 - Len(u) = i - Len(s) /\ ~(i + 1 <= Len(u))
      BY <1>1, <1>3, <1>4, <2>2
    <3>2. i + 1 \in 1 .. Len(u) + Len(c)
      BY <1>1, <1>3, <1>4
    <3>3. ~(i <= Len(s)) /\ i \in 1 .. Len(s) + Len(c)
      BY <1>3, <1>4, <2>2
    <3> HIDE DEF u, t, d, At
    <3>4. d[i] = c[i - Len(s)]
      BY <1>3, <3>3
    <3>5. t[i + 1] = c[i + 1 - Len(u)]
      <4>1. t[i + 1] = IF i + 1 <= Len(u) THEN u[i + 1]
                       ELSE c[i + 1 - Len(u)]
        BY <1>2, <3>2
      <4> QED BY <3>1, <4>1
    <3>6. d[i] = t[i + 1] /\ At(i) = i + 1
      BY <3>1, <3>4, <3>5
    <3>7. At(i) \in 1 .. Len(t)
      BY <1>2, <3>1, <3>2
    <3> QED BY <3>6, <3>7
  <2>3. i <= Len(s) \/ i > Len(s)
    <3>1. i \in Nat
      BY <1>3, <1>4
    <3> QED BY <1>4, <3>1
  <2> QED BY <2>1, <2>2, <2>3
<1>6. \A i, j \in 1 .. Len(d) : i < j => At(i) < At(j)
  BY <1>3, <1>4
<1>7. /\ \A i, j \in 1 .. Len(t) : i < j => t[i] < t[j]
      /\ \A i \in 1 .. Len(t) : t[i] <= n
  BY DEF Ascending
<1> HIDE DEF t, d, At
<1>8. \A i, j \in 1 .. Len(d) : i < j => d[i] < d[j]
  BY <1>5, <1>6, <1>7
<1>9. \A i \in 1 .. Len(d) : d[i] <= n
  BY <1>5, <1>7
<1>10. Ascending(d, n)
  BY <1>3, <1>8, <1>9 DEF Ascending
<1> QED BY <1>10 DEF d

(* Popping the queue into the client's hands moves no frame.               *)
LEMMA PopKeeps ==
  ASSUME NEW d \in Seq(Nat), NEW q \in Seq(Nat), q # <<>>
  PROVE  Append(d, Head(q)) \o Tail(q) = d \o q
<1> DEFINE a == Append(d, Head(q))
<1>1. /\ Head(q) \in Nat /\ Tail(q) \in Seq(Nat) /\ Len(Tail(q)) = Len(q) - 1
      /\ \A i \in 1 .. Len(Tail(q)) : Tail(q)[i] = q[i + 1]
  BY HeadTailProperties
<1>2. a \in Seq(Nat) /\ Len(a) = Len(d) + 1 /\ a[Len(d) + 1] = q[1]
      /\ \A i \in 1 .. Len(d) : a[i] = d[i]
  BY <1>1
<1>3. /\ a \o Tail(q) \in Seq(Nat)
      /\ Len(a \o Tail(q)) = Len(a) + Len(Tail(q))
      /\ \A i \in 1 .. Len(a) + Len(Tail(q)) : (a \o Tail(q))[i] =
           IF i <= Len(a) THEN a[i] ELSE Tail(q)[i - Len(a)]
  BY <1>1, <1>2, ConcatProperties
<1>4. /\ d \o q \in Seq(Nat) /\ Len(d \o q) = Len(d) + Len(q)
      /\ \A i \in 1 .. Len(d) + Len(q) :
           (d \o q)[i] = IF i <= Len(d) THEN d[i] ELSE q[i - Len(d)]
  BY ConcatProperties
<1>5. Len(d) \in Nat /\ Len(q) \in Nat /\ Len(q) > 0
  BY EmptySeq
<1> HIDE DEF a
<1>6. ASSUME NEW i \in 1 .. Len(d) + Len(q)
      PROVE  (a \o Tail(q))[i] = (d \o q)[i]
  <2>0. i \in Nat /\ 1 <= i /\ i <= Len(d) + Len(q)
    BY <1>5
  <2>1. CASE i <= Len(d)
    BY <1>1, <1>2, <1>3, <1>4, <1>5, <2>0, <2>1
  <2>2. CASE i = Len(d) + 1
    BY <1>1, <1>2, <1>3, <1>4, <1>5, <2>0, <2>2
  <2>3. CASE i > Len(d) + 1
    <3>1. /\ i - Len(a) \in 1 .. Len(Tail(q))
          /\ (i - Len(a)) + 1 = i - Len(d)
          /\ ~(i <= Len(a)) /\ ~(i <= Len(d))
          /\ i \in 1 .. Len(a) + Len(Tail(q))
      BY <1>1, <1>2, <1>5, <2>0, <2>3
    <3>2. Tail(q)[i - Len(a)] = q[i - Len(d)]
      BY <1>1, <3>1
    <3> QED BY <1>3, <1>4, <3>1, <3>2
  <2>4. i <= Len(d) \/ i = Len(d) + 1 \/ i > Len(d) + 1
    BY <1>5, <2>0
  <2> QED BY <2>1, <2>2, <2>3, <2>4
<1>7. Len(a \o Tail(q)) = Len(d \o q)
  BY <1>1, <1>2, <1>3, <1>4, <1>5
<1>8. a \o Tail(q) = d \o q
  BY <1>3, <1>4, <1>6, <1>7, SeqEqual
<1> QED BY <1>8 DEF a

(* A frame taken from the controller, and one put into the queue.          *)
LEMMA PushKeeps ==
  ASSUME NEW d \in Seq(Nat), NEW q \in Seq(Nat), NEW f \in Nat
  PROVE  /\ (d \o Append(q, f)) \o <<>> = (d \o q) \o <<f>>
         /\ (d \o q) \o <<>> = d \o q
         /\ ((d \o q) \o <<f>>) \o <<>> = ((d \o q) \o <<>>) \o <<f>>
<1>1. d \o q \in Seq(Nat) /\ <<f>> \in Seq(Nat)
  BY ConcatProperties
<1>2. (d \o q) \o <<f>> \in Seq(Nat)
  BY <1>1, ConcatProperties
<1>3. Append(q, f) = q \o <<f>>
  <2>1. /\ q \o <<f>> \in Seq(Nat) /\ Len(q \o <<f>>) = Len(q) + 1
        /\ \A i \in 1 .. Len(q) + 1 :
             (q \o <<f>>)[i] = IF i <= Len(q) THEN q[i] ELSE <<f>>[i - Len(q)]
    BY <1>1, ConcatProperties
  <2>2. /\ Append(q, f) \in Seq(Nat) /\ Len(Append(q, f)) = Len(q) + 1
        /\ \A i \in 1 .. Len(q) + 1 :
             Append(q, f)[i] = IF i <= Len(q) THEN q[i] ELSE f
    OBVIOUS
  <2>3. \A i \in 1 .. Len(q) + 1 : (q \o <<f>>)[i] = Append(q, f)[i]
    BY <2>1, <2>2
  <2> QED BY <2>1, <2>2, <2>3, SeqEqual
<1>4. d \o Append(q, f) = (d \o q) \o <<f>>
  BY <1>1, <1>3, ConcatAssociative
<1> QED BY <1>1, <1>2, <1>4, ConcatEmptySeq

LEMMA ReceiveInit == OnlyQueue /\ Init => RxHandlerInv /\ OrderInv
<1> SUFFICES ASSUME OnlyQueue, Init PROVE RxHandlerInv /\ OrderInv
  OBVIOUS
<1>1. RxHandlerInv
  BY DEF Init, IntIdle, Mcp2515Init, RxHandlerInv
<1>2. Pipeline = <<>>
  BY ConcatEmptySeq, EmptySeq DEF Init, IntIdle, Mcp2515Init, Pipeline
<1>3. OrderInv
  BY <1>2, EmptySeq DEF OrderInv, Ascending
<1> QED BY <1>1, <1>3

(* What the steps outside the receive path leave alone.                    *)
ReceiveKept ==
  /\ UNCHANGED <<delivered, rxq, rxb, rxif, arrived>>
  /\ \/ intPc # "rxpush" /\ intPc' # "rxpush"
     \/ UNCHANGED <<intPc, intFrame>>

LEMMA ReceiveKeeps ==
  ASSUME TypeInv, OrderInv, ReceiveKept
  PROVE  OrderInv'
<1>1. Hand' = Hand /\ Chip' = Chip
  BY DEF ReceiveKept, Hand, Chip
<1>2. Pipeline' = Pipeline /\ arrived' = arrived
  BY <1>1 DEF ReceiveKept, Pipeline, Hand, Chip
<1> QED BY <1>2 DEF OrderInv, Ascending

LEMMA ReceiveKinds ==
  ASSUME TypeInv, OnlyQueue, RxHandlerInv, [Next]_vars
  PROVE  /\ RxHandlerInv'
         /\ \/ ReceiveKept
            \/ RecvPop
            \/ IntRxRead
            \/ IntRxPush
            \/ RxArrive(0) /\ UNCHANGED driverVars
<1> USE DEF OnlyQueue, RxHandlerInv, ReceiveKept
<1>1. Send => RxHandlerInv' /\ ReceiveKept
  BY DEF Send, queueVars, intVars, chipVars, intfVars, rxChipVars
<1>2. SendPush => RxHandlerInv' /\ ReceiveKept
  BY DEF SendPush, intVars, chipVars, intfVars, rxChipVars
<1>3. XmitTest => RxHandlerInv' /\ ReceiveKept
  BY DEF XmitTest, queueVars, intVars, chipVars, intfVars, rxChipVars
<1>4. XmitLock => RxHandlerInv' /\ ReceiveKept
  BY DEF XmitLock, queueVars, intVars, chipVars, intfVars, rxChipVars
<1>5. XmitProbe => RxHandlerInv' /\ ReceiveKept
  BY DEF XmitProbe, queueVars, intVars, chipVars, intfVars, rxChipVars
<1>6. XmitTrigger => RxHandlerInv' /\ ReceiveKept
  BY DEF XmitTrigger, queueVars, intVars, rxChipVars, SetTxif, SetFlags
<1>7. XmitStarted => RxHandlerInv' /\ ReceiveKept
  BY DEF XmitStarted, queueVars, intVars, chipVars, intfVars, rxChipVars
<1>8. XmitUnlock => RxHandlerInv' /\ ReceiveKept
  BY DEF XmitUnlock, queueVars, intVars, chipVars, intfVars, rxChipVars
<1>9. Recv => RxHandlerInv' /\ ReceiveKept
  BY DEF Recv, queueVars, intVars, chipVars, intfVars, rxChipVars
<1>10. RecvWait => RxHandlerInv' /\ ReceiveKept
  BY DEF RecvWait, intVars, chipVars, intfVars, rxChipVars
<1>11. RecvPop => RxHandlerInv'
  BY DEF RecvPop, intVars, chipVars, intfVars, rxChipVars
<1>12. RecvRxb => RxHandlerInv' /\ ReceiveKept
  BY DEF RecvRxb
<1>13. Sendto => RxHandlerInv' /\ ReceiveKept
  BY DEF Sendto, queueVars, intVars, chipVars, intfVars, rxChipVars
<1>14. SendtoStatus => RxHandlerInv' /\ ReceiveKept
  BY DEF SendtoStatus, queueVars, intVars, chipVars, intfVars, rxChipVars
<1>15. SendtoPriority => RxHandlerInv' /\ ReceiveKept
  BY DEF SendtoPriority, queueVars, intVars, chipVars, intfVars, rxChipVars
<1>16. SendtoZero \/ SendtoRank \/ SendtoWriteEntry
       => RxHandlerInv' /\ ReceiveKept
  BY DEF SendtoZero, SendtoRank, SendtoWriteEntry, queueVars, intVars,
     chipVars, intfVars, rxChipVars
<1>17. SendtoNextLoop \/ SendtoReprioritise \/ SendtoBitModify
       => RxHandlerInv' /\ ReceiveKept
  BY DEF SendtoNextLoop, SendtoReprioritise, SendtoBitModify, queueVars,
     intVars, chipVars, intfVars, rxChipVars
<1>18. SendtoRanked => RxHandlerInv' /\ ReceiveKept
  BY DEF SendtoRanked, queueVars, intVars, chipVars, intfVars, rxChipVars
<1>19. SendtoLoad \/ SendtoSetPrio => RxHandlerInv' /\ ReceiveKept
  BY DEF SendtoLoad, SendtoSetPrio, queueVars, intVars, intfVars, rxChipVars
<1>20. SendtoRts => RxHandlerInv' /\ ReceiveKept
  BY DEF SendtoRts, queueVars, intVars, intfVars, rxChipVars
<1>21. Abort => RxHandlerInv' /\ ReceiveKept
  BY DEF Abort, queueVars, intVars, intfVars, rxChipVars
<1>22. IntStart => RxHandlerInv' /\ ReceiveKept
  BY DEF IntStart, chipVars, intfVars, rxChipVars, intRest, queueVars
<1>23. IntFlags => RxHandlerInv' /\ ReceiveKept
  BY DEF IntFlags, chipVars, intfVars, rxChipVars, intRest, queueVars
<1>24. IntFault => RxHandlerInv' /\ ReceiveKept
  BY DEF IntFault, intRest, queueVars, rxChipVars, ClearFault, SetFlags
<1>25. IntFaultsDone => RxHandlerInv' /\ ReceiveKept
  BY DEF IntFaultsDone, chipVars, intfVars, rxChipVars, intRest, queueVars,
     AfterWake, AfterError, AfterTx, AfterRx0
<1>26. IntReadEflg => RxHandlerInv' /\ ReceiveKept
  BY DEF IntReadEflg, chipVars, intfVars, rxChipVars, intRest, queueVars
<1>27. IntClearOverflow => RxHandlerInv' /\ ReceiveKept
  BY DEF IntClearOverflow, intfVars, intRest, queueVars
<1>28. IntClearError => RxHandlerInv' /\ ReceiveKept
  BY DEF IntClearError, intRest, queueVars, rxChipVars, ClearFault, SetFlags,
     AfterError, AfterTx, AfterRx0
<1>29. IntTxClear => RxHandlerInv' /\ ReceiveKept
  BY DEF IntTxClear, intRest, queueVars, rxChipVars, ClearTxif, SetFlags
<1>30. IntTxAck => RxHandlerInv' /\ ReceiveKept
  BY DEF IntTxAck, queueVars, chipVars, intfVars, rxChipVars
<1>31. IntTxPop => RxHandlerInv' /\ ReceiveKept
  BY DEF IntTxPop, chipVars, intfVars, rxChipVars
<1>32. IntTxLoad \/ IntTxSetPrio => RxHandlerInv' /\ ReceiveKept
  BY DEF IntTxLoad, IntTxSetPrio, intfVars, intRest, queueVars, rxChipVars,
     NextTxb
<1>33. IntTxStop => RxHandlerInv' /\ ReceiveKept
  BY DEF IntTxStop, queueVars, chipVars, intfVars, rxChipVars, NextTxb
<1>34. IntTxRts => RxHandlerInv' /\ ReceiveKept
  BY DEF IntTxRts, intfVars, intRest, queueVars, rxChipVars, AfterTx,
     AfterRx0
<1>35. IntRxRead => RxHandlerInv'
  BY DEF IntRxRead, intRest, queueVars, rxChipVars, mcp2515_read_rxb,
     SetFlags
<1>36. IntRxPush => RxHandlerInv'
  BY DEF IntRxPush, chipVars, intfVars, rxChipVars
<1>37. IntRxPost => RxHandlerInv' /\ ReceiveKept
  BY DEF IntRxPost, chipVars, intfVars, rxChipVars, AfterRx0
<1>38. IntAckEmit => RxHandlerInv' /\ ReceiveKept
  BY DEF IntAckEmit, chipVars, intfVars, rxChipVars, intRest, queueVars
<1>39. BusNext /\ UNCHANGED driverVars
       => RxHandlerInv' /\ (ReceiveKept \/ RxArrive(0))
  <2>1. ASSUME NEW b \in Txb, TxDone(b), UNCHANGED driverVars
        PROVE  RxHandlerInv' /\ ReceiveKept
    BY <2>1 DEF TxDone, SetFlags, rxChipVars, driverVars, queueVars, intVars
  <2>2. ASSUME NEW f \in Faults, RaiseFault(f), UNCHANGED driverVars
        PROVE  RxHandlerInv' /\ ReceiveKept
    BY <2>2 DEF RaiseFault, SetFlags, rxChipVars, driverVars, queueVars,
       intVars
  <2>3. ASSUME NEW r \in RxBufs, RxArrive(r), UNCHANGED driverVars
        PROVE  RxHandlerInv' /\ RxArrive(0)
    <3>1. r = 0
      BY ChipAssumption
    <3> QED BY <2>3, <3>1 DEF RxArrive, SetFlags, driverVars, intVars
  <2> QED BY <2>1, <2>2, <2>3 DEF BusNext
<1>40. GpioNext /\ UNCHANGED <<chipVars, driverVars>>
       => RxHandlerInv' /\ ReceiveKept
  BY DEF chipVars, intfVars, rxChipVars, driverVars, queueVars, intVars
<1>41. UNCHANGED vars => RxHandlerInv' /\ ReceiveKept
  BY DEF vars, chipVars, intfVars, rxChipVars, queueVars, intVars
<1> HIDE DEF OnlyQueue, RxHandlerInv, ReceiveKept
<1> QED
  BY <1>1, <1>2, <1>3, <1>4, <1>5, <1>6, <1>7, <1>8, <1>9, <1>10, <1>11,
     <1>12, <1>13, <1>14, <1>15, <1>16, <1>17, <1>18, <1>19, <1>20, <1>21,
     <1>22, <1>23, <1>24, <1>25, <1>26, <1>27, <1>28, <1>29, <1>30, <1>31,
     <1>32, <1>33, <1>34, <1>35, <1>36, <1>37, <1>38, <1>39, <1>40, <1>41
     DEF Next, RpcCall, RpcStep, XmitStep, SendtoStep, IntStep, IntTxStep,
         Environment

LEMMA OrderNext ==
  ASSUME TypeInv, OnlyQueue, RxHandlerInv, OrderInv, [Next]_vars
  PROVE  OrderInv'
<1> DEFINE d == delivered
           q == rxq
<1>0. /\ d \in Seq(Nat) /\ q \in Seq(Nat)
      /\ Hand \in Seq(Nat) /\ Chip \in Seq(Nat)
      /\ rxb[0] \in Nat /\ arrived \in Nat
      /\ intPc = "rxpush" => intFrame \in Nat
      /\ Pipeline = ((d \o q) \o Hand) \o Chip
      /\ Ascending(Pipeline, arrived)
  BY PipelineParts DEF OrderInv
<1>1. Pipeline' = ((delivered' \o rxq') \o Hand') \o Chip'
  BY DEF Pipeline, Hand, Chip
<1>2. ASSUME RecvPop PROVE OrderInv'
  <2>1. /\ Hand' = Hand /\ Chip' = Chip /\ arrived' = arrived
        /\ rxq = <<>> => UNCHANGED <<delivered, rxq>>
        /\ rxq # <<>> => delivered' = Append(d, Head(q)) /\ rxq' = Tail(q)
    BY <1>2 DEF RecvPop, Hand, Chip, intVars, chipVars, intfVars, rxChipVars
  <2>2. delivered' \o rxq' = d \o q
    BY <1>0, <2>1, PopKeeps
  <2> QED BY <1>0, <1>1, <2>1, <2>2 DEF OrderInv
<1>3. ASSUME IntRxRead PROVE OrderInv'
  <2>1. /\ Hand = <<>> /\ Chip = <<rxb[0]>>
        /\ Hand' = <<rxb[0]>> /\ Chip' = <<>>
    BY <1>3 DEF IntRxRead, RxHandlerInv, Hand, Chip, RxbRead,
       mcp2515_read_rxb, SetFlags
  <2>2. UNCHANGED <<delivered, rxq, arrived>>
    BY <1>3 DEF IntRxRead, intRest, queueVars, rxChipVars
  <2>3. Pipeline' = Pipeline
    BY <1>0, <1>1, <2>1, <2>2, PushKeeps
  <2> QED BY <1>0, <2>2, <2>3 DEF OrderInv
<1>4. ASSUME IntRxPush PROVE OrderInv'
  <2>1. /\ Hand = <<intFrame>> /\ Hand' = <<>> /\ intFrame \in Nat
        /\ Chip' = Chip /\ UNCHANGED <<delivered, arrived>>
        /\ rxq' = q \/ rxq' = Append(q, intFrame)
    BY <1>0, <1>4 DEF IntRxPush, Hand, Chip, chipVars, intfVars, rxChipVars
  <2>2. CASE rxq' = Append(q, intFrame)
    <3>0. d \in Seq(Nat) /\ q \in Seq(Nat) /\ intFrame \in Nat
      BY <1>0, <2>1
    <3>1. (d \o Append(q, intFrame)) \o <<>> = (d \o q) \o <<intFrame>>
      BY <3>0, PushKeeps
    <3>a. delivered' = delivered /\ Hand' = <<>> /\ Chip' = Chip
      BY <2>1
    <3>2. Pipeline' = ((d \o Append(q, intFrame)) \o <<>>) \o Chip
      BY <1>1, <2>2, <3>a, Zenon
    <3>3. Pipeline = ((d \o q) \o <<intFrame>>) \o Chip
      BY <1>0, <2>1
    <3>4. Pipeline' = Pipeline
      BY <3>1, <3>2, <3>3
    <3> QED BY <1>0, <2>1, <3>4 DEF OrderInv
  <2>3. CASE rxq' = q
    <3>1. d \o q \in Seq(Nat)
      BY <1>0, ConcatProperties
    <3>2. (d \o q) \o <<>> = d \o q
      BY <3>1, ConcatEmptySeq
    <3>3. Pipeline' = (d \o q) \o Chip
      BY <1>1, <2>1, <2>3, <3>2
    <3>4. Ascending(((d \o q) \o <<intFrame>>) \o Chip, arrived)
      BY <1>0, <2>1
    <3>5. Ascending((d \o q) \o Chip, arrived)
      BY <1>0, <2>1, <3>1, <3>4, AscendingDrop
    <3> QED BY <2>1, <3>3, <3>5 DEF OrderInv
  <2> QED BY <2>1, <2>2, <2>3
<1>5. ASSUME RxArrive(0), UNCHANGED driverVars PROVE OrderInv'
  <2>1. UNCHANGED <<delivered, rxq, intPc, intFrame>> /\ Hand' = Hand
    BY <1>5 DEF driverVars, queueVars, intVars, Hand
  <2>2. arrived' = arrived + 1
    BY <1>5 DEF RxArrive
  <2>3. CASE 0 \in rxif
    <3>1. Chip' = Chip
      BY <1>5, <2>3 DEF RxArrive, SetFlags, Chip
    <3>2. Pipeline' = Pipeline
      BY <1>0, <1>1, <2>1, <3>1
    <3>3. Ascending(Pipeline, arrived + 1)
      BY <1>0, AscendingMore
    <3> QED BY <2>2, <3>2, <3>3 DEF OrderInv
  <2>4. CASE 0 \notin rxif
    <3>1. rxb' = [rxb EXCEPT ![0] = arrived + 1] /\ 0 \in rxif'
      BY <1>5, <2>4 DEF RxArrive, SetFlags
    <3>2. Chip = <<>> /\ Chip' = <<arrived + 1>>
      BY <2>4, <3>1 DEF Chip, TypeInv, Mcp2515TypeOK
    <3>3. (d \o q) \o Hand \in Seq(Nat)
      BY <1>0, ConcatProperties
    <3>4. Pipeline = (d \o q) \o Hand
      BY <1>0, <3>2, <3>3, ConcatEmptySeq
    <3>5. Pipeline' = Pipeline \o <<arrived + 1>>
      BY <1>1, <2>1, <3>2, <3>4
    <3>6. Ascending(Pipeline \o <<arrived + 1>>, arrived + 1)
      BY <1>0, AscendingAppend
    <3> QED BY <2>2, <3>5, <3>6 DEF OrderInv
  <2> QED BY <2>3, <2>4
<1>6. ASSUME ReceiveKept PROVE OrderInv'
  BY <1>6, ReceiveKeeps
<1> QED BY <1>2, <1>3, <1>4, <1>5, <1>6, ReceiveKinds

(* Frames reach can_recv in the order in which they arrived and at most    *)
(* once, however the handler, the bus and the client interleave.           *)
THEOREM FramesInOrder ==
  ASSUME OnlyQueue PROVE Spec => []ReceivedInOrder
<1> DEFINE Inv == TypeInv /\ RxHandlerInv /\ OrderInv
<1>1. Init => Inv
  BY InitType, ReceiveInit
<1>2. Inv /\ [Next]_vars => Inv'
  BY NextType, ReceiveKinds, OrderNext
<1>3. Inv => ReceivedInOrder
  BY DEF OrderInv, Ascending, ReceivedInOrder
<1> QED BY <1>1, <1>2, <1>3, PTL DEF Spec

(* A frame goes into the queue once (irq.c 151-153), as long as RXB1, of   *)
(* which the driver reads RXB0 in its place, gets none: for a frame in     *)
(* RXB1 the one in RXB0 goes into the queue, and may do so twice.          *)
THEOREM FramesTakenOnce ==
  ASSUME OnlyQueue PROVE Spec => []NoFrameTwice
<1> DEFINE Inv == TypeInv /\ RxHandlerInv /\ OrderInv
<1>1. Init => Inv
  BY InitType, ReceiveInit
<1>2. Inv /\ [Next]_vars => Inv'
  BY NextType, ReceiveKinds, OrderNext
<1>3. Inv => NoFrameTwice
  <2> DEFINE taken == (delivered \o rxq) \o Hand
  <2> SUFFICES ASSUME Inv
               PROVE  \A i, j \in 1 .. Len(taken) : i # j => taken[i] # taken[j]
    BY DEF NoFrameTwice, Hand
  <2>1. taken \in Seq(Nat) /\ Chip \in Seq(Nat) /\ Pipeline = taken \o Chip
    BY PipelineParts, ConcatProperties
  <2> HIDE DEF taken
  <2>2. /\ Len(Pipeline) = Len(taken) + Len(Chip)
        /\ Len(taken) \in Nat /\ Len(Chip) \in Nat
        /\ \A i \in 1 .. Len(taken) : Pipeline[i] = taken[i]
    BY <2>1, ConcatProperties
  <2>3. ASSUME NEW i \in 1 .. Len(taken), NEW j \in 1 .. Len(taken), i < j
        PROVE  taken[i] < taken[j] /\ taken[i] \in Nat /\ taken[j] \in Nat
    <3>1. i \in 1 .. Len(Pipeline) /\ j \in 1 .. Len(Pipeline)
      BY <2>2
    <3>2. Pipeline[i] < Pipeline[j]
      BY <2>3, <3>1 DEF OrderInv, Ascending
    <3> QED BY <2>1, <2>2, <3>2, ElementOfSeq
  <2>4. \A i, j \in 1 .. Len(taken) : i # j => i < j \/ j < i
    BY <2>2
  <2> QED BY <2>3, <2>4
<1> QED BY <1>1, <1>2, <1>3, PTL DEF Spec
=============================================================================
