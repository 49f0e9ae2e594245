------------------------- MODULE SpiTransfer_proof -------------------------
(***************************************************************************)
(* For every number of CAN threads, registers' values and interrupts per   *)
(* transfer: one completion is awaited for each started transfer, and      *)
(* every instruction of spi_cmd.c is atomic.                               *)
(*                                                                         *)
(* The argument: spi_lock lets one thread at a time into the part that     *)
(* uses the data port, so the interface thread serves the holder's call    *)
(* and finds in txbuf the holder's instruction (PortInv); spi_mutex keeps  *)
(* the two threads of the SPI component apart (MutexInv); an interrupt is  *)
(* only pending for a transfer in progress (BusInv).                       *)
(***************************************************************************)
EXTENDS SpiTransfer, TLAPS

LEMMA InstructionFields ==
  ASSUME NEW i \in Instructions
  PROVE  /\ i.val \in Values \cup {NoByte}
         /\ i.at \in RxPos
         /\ i.val = NoByte
              => i.w \in Nat /\ i.r \in Nat /\ i.w <= i.at /\ i.at < i.w + i.r
BY SpiAssumption
DEF Instructions, Read, Write, RxPos, mcp2515_reset, mcp2515_read_reg,
    mcp2515_read_nregs, mcp2515_write_reg, mcp2515_write_nregs,
    mcp2515_bit_modify, mcp2515_read_status, mcp2515_rx_status, mcp2515_rts,
    mcp2515_load_txb, mcp2515_read_rxb

PortInv ==
  \A t \in Threads :
    /\ spiLock = t <=> pc[t] \in {"load", "call", "fetch", "unlock"}
    /\ pc[t] # "idle" => instr[t] \in Instructions
    /\ pc[t] = "call" => txbuf = instr[t]

ClientInv ==
  /\ srvPc = "idle" <=> client = None
  /\ client # None => pc[client] = "call"
  /\ srvPc \in {"idle", "lock", "xfer"} => srvRet = "ok"

MutexInv ==
  /\ spiMutex = "srv" <=> srvPc \in {"xfer", "unlock"}
  /\ spiMutex = "irq" <=> irqPc \in {"handle", "unlock"}

BusInv ==
  /\ irqPc \in {"lock", "handle"} => irqLine = "high"
  /\ irqLine = "high" => bus = "busy"
  /\ bus = "busy" => left > 0 \/ irqLine = "high"
  /\ bus = "free" => left = 0

IInv == /\ TypeOK /\ CompletionAwaited
        /\ PortInv /\ ClientInv /\ MutexInv /\ BusInv

LEMMA IInvInit == Init => IInv
<1> SUFFICES ASSUME Init PROVE IInv
  OBVIOUS
<1>1. TypeOK
  BY SpiAssumption DEF Init, TypeOK, Bytes
<1>2. CompletionAwaited /\ ClientInv /\ MutexInv /\ BusInv
  BY DEF Init, CompletionAwaited, ClientInv, MutexInv, BusInv
<1>3. PortInv
  BY SpiAssumption DEF Init, PortInv
<1> QED BY <1>1, <1>2, <1>3 DEF IInv

LEMMA IInvStep == IInv /\ [Next]_vars => IInv'
<1> SUFFICES ASSUME IInv, [Next]_vars PROVE IInv'
  OBVIOUS
<1> USE SpiAssumption
    DEF IInv, TypeOK, CompletionAwaited, PortInv, ClientInv, MutexInv, BusInv,
        Bytes, RxPos, canVars, portVars, srvVars, irqVars, busVars
<1>0. CASE UNCHANGED vars
  BY <1>0 DEF vars
<1>1. ASSUME NEW t \in Threads, Call(t) PROVE IInv'
  BY <1>1 DEF Call
<1>2. ASSUME NEW t \in Threads, Lock(t) PROVE IInv'
  BY <1>2 DEF Lock
<1>3. ASSUME NEW t \in Threads, Load(t) PROVE IInv'
  BY <1>3 DEF Load
<1>4. ASSUME NEW t \in Threads, Fetch(t) PROVE IInv'
  BY <1>4, InstructionFields DEF Fetch
<1>5. ASSUME NEW t \in Threads, Unlock(t) PROVE IInv'
  BY <1>5 DEF Unlock
<1>6. ASSUME NEW t \in Threads, SrvAccept(t) PROVE IInv'
  BY <1>6 DEF SrvAccept
<1>7. ASSUME SrvLock PROVE IInv'
  BY <1>7 DEF SrvLock
<1>8. ASSUME SrvXfer PROVE IInv'
  BY <1>8 DEF SrvXfer
<1>9. ASSUME SrvUnlock PROVE IInv'
  BY <1>9 DEF SrvUnlock
<1>10. ASSUME SrvWait PROVE IInv'
  BY <1>10 DEF SrvWait
<1>11. ASSUME SrvReply PROVE IInv'
  BY <1>11 DEF SrvReply
<1>12. ASSUME IrqTake PROVE IInv'
  BY <1>12 DEF IrqTake
<1>13. ASSUME IrqLock PROVE IInv'
  BY <1>13 DEF IrqLock
<1>14. ASSUME IrqHandle PROVE IInv'
  BY <1>14, InstructionFields DEF IrqHandle, Received, spi_complete_callback
<1>15. ASSUME IrqUnlock PROVE IInv'
  BY <1>15 DEF IrqUnlock
<1>16. ASSUME IrqAck PROVE IInv'
  BY <1>16 DEF IrqAck
<1>17. ASSUME Shift PROVE IInv'
  BY <1>17, InstructionFields DEF Shift
<1> QED
  BY <1>0, <1>1, <1>2, <1>3, <1>4, <1>5, <1>6, <1>7, <1>8, <1>9, <1>10,
     <1>11, <1>12, <1>13, <1>14, <1>15, <1>16, <1>17
  DEF Next, CanStep, SrvStep, IrqStep

LEMMA Invariance == Spec => []IInv
BY IInvInit, IInvStep, PTL DEF Spec

(* Types hold in every reachable state: in particular bus_sem never        *)
(* exceeds one, and no more bytes are fetched than the port holds.         *)
THEOREM TypeCorrect == Spec => []TypeOK
<1>1. IInv => TypeOK
  BY DEF IInv
<1> QED BY Invariance, <1>1, PTL

(* do_spi_transfer waits for exactly the completion of its own transfer.   *)
THEOREM OneCompletionAwaited == Spec => []CompletionAwaited
<1>1. IInv => CompletionAwaited
  BY DEF IInv
<1> QED BY Invariance, <1>1, PTL
-----------------------------------------------------------------------------
(* The refinement.  Only the thread whose call is served can be beyond     *)
(* "lock" when the interface thread is at work.                            *)

LEMMA OthersWait ==
  ASSUME IInv, NEW t \in Threads, spiLock = t, NEW u \in Threads, u # t
  PROVE  pc[u] \in {"idle", "lock"}
BY DEF IInv, TypeOK, PortInv

LEMMA ClientAtWork ==
  ASSUME IInv, bus = "busy"
  PROVE  /\ client \in Threads /\ pc[client] = "call" /\ spiLock = client
         /\ txbuf = instr[client] /\ instr[client] \in Instructions
         /\ srvPc \in {"unlock", "wait"} /\ srvRet = "ok" /\ busSem = 0
BY DEF IInv, TypeOK, PortInv, ClientInv, CompletionAwaited

LEMMA Stutter ==
  ASSUME \A u \in Threads : Phase(u)' = Phase(u) /\ Got(u)' = Got(u),
         instr' = instr, reg' = reg
  PROVE  UNCHANGED Instruction!vars
BY DEF Instruction!vars

AbsPhase == [u \in Threads |-> Phase(u)]
AbsGot == [u \in Threads |-> Got(u)]

LEMMA OneThread ==
  ASSUME NEW t \in Threads,
         \A u \in Threads \ {t} : Phase(u)' = Phase(u) /\ Got(u)' = Got(u)
  PROVE  /\ AbsPhase' = [AbsPhase EXCEPT ![t] = Phase(t)']
         /\ AbsGot' = [AbsGot EXCEPT ![t] = Got(t)']
BY DEF AbsPhase, AbsGot

LEMMA InitInstruction == Init => Instruction!Init
BY SpiAssumption DEF Init, Instruction!Init, Phase, Got

LEMMA StepInstruction ==
  IInv /\ IInv' /\ [Next]_vars => [Instruction!Next]_(Instruction!vars)
<1> SUFFICES ASSUME IInv, IInv', [Next]_vars
             PROVE  [Instruction!Next]_(Instruction!vars)
  OBVIOUS
<1> USE DEF canVars, portVars, srvVars, irqVars, busVars
<1>0. CASE UNCHANGED vars
  <2>1. \A u \in Threads : Phase(u)' = Phase(u) /\ Got(u)' = Got(u)
    BY <1>0 DEF vars, Phase, Got
  <2> QED BY <1>0, <2>1, Stutter DEF vars
<1>1. ASSUME NEW t \in Threads, Call(t) PROVE Instruction!Call(t)
  <2>1. \A u \in Threads \ {t} : Phase(u)' = Phase(u) /\ Got(u)' = Got(u)
    BY <1>1 DEF Call, IInv, TypeOK, Phase, Got
  <2>2. /\ Phase(t) = "idle" /\ Phase(t)' = "called"
        /\ Got(t) = NoByte /\ Got(t)' = NoByte
    BY <1>1 DEF Call, IInv, TypeOK, Phase, Got
  <2>3. AbsPhase' = [AbsPhase EXCEPT ![t] = "called"] /\ AbsGot' = AbsGot
    BY <2>1, <2>2 DEF AbsPhase, AbsGot
  <2> QED BY <1>1, <2>2, <2>3 DEF Call, Instruction!Call, AbsPhase, AbsGot
<1>2. ASSUME NEW t \in Threads, Lock(t)
      PROVE  UNCHANGED Instruction!vars
  <2>1. \A u \in Threads : Phase(u)' = Phase(u) /\ Got(u)' = Got(u)
    BY <1>2 DEF Lock, IInv, TypeOK, CompletionAwaited, PortInv, ClientInv,
       Phase, Got
  <2> QED BY <1>2, <2>1, Stutter DEF Lock
<1>3. ASSUME NEW t \in Threads, Load(t)
      PROVE  UNCHANGED Instruction!vars
  <2>1. client # t /\ client' = client
    BY <1>3, SpiAssumption DEF Load, IInv, ClientInv
  <2>2. /\ Phase(t) = "called" /\ Phase(t)' = "called"
        /\ Got(t) = NoByte /\ Got(t)' = NoByte
    BY <1>3, <2>1 DEF Load, IInv, TypeOK, Phase, Got
  <2>3. \A u \in Threads \ {t} : Phase(u)' = Phase(u) /\ Got(u)' = Got(u)
    BY <1>3 DEF Load, IInv, TypeOK, Phase, Got
  <2>4. \A u \in Threads : Phase(u)' = Phase(u) /\ Got(u)' = Got(u)
    BY <2>2, <2>3
  <2> QED BY <1>3, <2>4, Stutter DEF Load
<1>4. ASSUME NEW t \in Threads, Fetch(t)
      PROVE  UNCHANGED Instruction!vars
  <2>1. \A u \in Threads : Phase(u)' = Phase(u) /\ Got(u)' = Got(u)
    BY <1>4 DEF Fetch, IInv, TypeOK, CompletionAwaited, PortInv, ClientInv,
       Phase, Got
  <2> QED BY <1>4, <2>1, Stutter DEF Fetch
<1>5. ASSUME NEW t \in Threads, SrvAccept(t)
      PROVE  UNCHANGED Instruction!vars
  <2>1. \A u \in Threads : Phase(u)' = Phase(u) /\ Got(u)' = Got(u)
    BY <1>5 DEF SrvAccept, IInv, TypeOK, CompletionAwaited, PortInv, ClientInv,
       Phase, Got
  <2> QED BY <1>5, <2>1, Stutter DEF SrvAccept
<1>6. ASSUME SrvLock
      PROVE  UNCHANGED Instruction!vars
  <2>1. \A u \in Threads : Phase(u)' = Phase(u) /\ Got(u)' = Got(u)
    BY <1>6 DEF SrvLock, IInv, TypeOK, CompletionAwaited, PortInv, ClientInv,
       Phase, Got
  <2> QED BY <1>6, <2>1, Stutter DEF SrvLock
<1>7. ASSUME SrvUnlock
      PROVE  UNCHANGED Instruction!vars
  <2>1. \A u \in Threads : Phase(u)' = Phase(u) /\ Got(u)' = Got(u)
    BY <1>7 DEF SrvUnlock, IInv, TypeOK, CompletionAwaited, PortInv, ClientInv,
       Phase, Got
  <2> QED BY <1>7, <2>1, Stutter DEF SrvUnlock
<1>8. ASSUME SrvWait
      PROVE  UNCHANGED Instruction!vars
  <2>1. \A u \in Threads : Phase(u)' = Phase(u) /\ Got(u)' = Got(u)
    BY <1>8 DEF SrvWait, IInv, TypeOK, CompletionAwaited, PortInv, ClientInv,
       Phase, Got
  <2> QED BY <1>8, <2>1, Stutter DEF SrvWait
<1>9. ASSUME SrvReply
      PROVE  UNCHANGED Instruction!vars
  <2>1. \A u \in Threads : Phase(u)' = Phase(u) /\ Got(u)' = Got(u)
    BY <1>9 DEF SrvReply, IInv, TypeOK, CompletionAwaited, PortInv, ClientInv,
       Phase, Got
  <2> QED BY <1>9, <2>1, Stutter DEF SrvReply
<1>10. ASSUME IrqTake
      PROVE  UNCHANGED Instruction!vars
  <2>1. \A u \in Threads : Phase(u)' = Phase(u) /\ Got(u)' = Got(u)
    BY <1>10 DEF IrqTake, IInv, TypeOK, CompletionAwaited, PortInv, ClientInv,
       Phase, Got
  <2> QED BY <1>10, <2>1, Stutter DEF IrqTake
<1>11. ASSUME IrqLock
      PROVE  UNCHANGED Instruction!vars
  <2>1. \A u \in Threads : Phase(u)' = Phase(u) /\ Got(u)' = Got(u)
    BY <1>11 DEF IrqLock, IInv, TypeOK, CompletionAwaited, PortInv, ClientInv,
       Phase, Got
  <2> QED BY <1>11, <2>1, Stutter DEF IrqLock
<1>12. ASSUME IrqUnlock
      PROVE  UNCHANGED Instruction!vars
  <2>1. \A u \in Threads : Phase(u)' = Phase(u) /\ Got(u)' = Got(u)
    BY <1>12 DEF IrqUnlock, IInv, TypeOK, CompletionAwaited, PortInv, ClientInv,
       Phase, Got
  <2> QED BY <1>12, <2>1, Stutter DEF IrqUnlock
<1>13. ASSUME IrqAck
      PROVE  UNCHANGED Instruction!vars
  <2>1. \A u \in Threads : Phase(u)' = Phase(u) /\ Got(u)' = Got(u)
    BY <1>13 DEF IrqAck, IInv, TypeOK, CompletionAwaited, PortInv, ClientInv,
       Phase, Got
  <2> QED BY <1>13, <2>1, Stutter DEF IrqAck
<1>14. ASSUME NEW t \in Threads, Unlock(t) PROVE Instruction!Return(t)
  <2>1. \A u \in Threads \ {t} : Phase(u)' = Phase(u) /\ Got(u)' = Got(u)
    BY <1>14 DEF Unlock, IInv, TypeOK, Phase, Got
  <2>2. /\ Phase(t) \in {"executed", "failed"} /\ Phase(t)' = "idle"
        /\ Got(t)' = NoByte
    BY <1>14 DEF Unlock, IInv, TypeOK, Phase, Got
  <2>3. /\ AbsPhase' = [AbsPhase EXCEPT ![t] = "idle"]
        /\ AbsGot' = [AbsGot EXCEPT ![t] = NoByte]
    BY <2>1, <2>2, OneThread
  <2> QED BY <1>14, <2>2, <2>3 DEF Unlock, Instruction!Return, AbsPhase, AbsGot
<1>15. ASSUME SrvXfer PROVE Instruction!Next \/ UNCHANGED Instruction!vars
  <2>1. /\ client \in Threads /\ pc[client] = "call" /\ bus = "free"
        /\ spiLock = client
    BY <1>15 DEF SrvXfer, IInv, TypeOK, CompletionAwaited, ClientInv, PortInv
  <2> PICK t \in Threads : client = t
    BY <2>1
  <2>2. CASE srvRet' = "ok"
    <3>1. \A u \in Threads : Phase(u)' = Phase(u) /\ Got(u)' = Got(u)
      BY <1>15, <2>1, <2>2 DEF SrvXfer, IInv, TypeOK, Phase, Got
    <3> QED BY <1>15, <3>1, Stutter DEF SrvXfer
  <2>3. CASE srvRet' = "err"
    <3>1. \A u \in Threads \ {t} :
            Phase(u)' = Phase(u) /\ Got(u)' = Got(u)
      BY <1>15, <2>1, <2>3, OthersWait DEF SrvXfer, IInv, TypeOK, Phase, Got
    <3>2. /\ Phase(t) \in {"called", "executed"}
          /\ Phase(t)' = "failed"
          /\ Got(t)' = IF instr[t].val = NoByte
                            THEN rxbuf[instr[t].at] ELSE NoByte
      BY <1>15, <2>1, <2>3 DEF SrvXfer, IInv, TypeOK, Phase, Got
    <3>3. /\ AbsPhase' = [AbsPhase EXCEPT ![t] = "failed"]
          /\ AbsGot' = [AbsGot EXCEPT ![t] = Got(t)']
      BY <3>1, <3>2, OneThread, <1>15, <2>1, <2>3
    <3>4. instr[t].val = NoByte
            => rxbuf[instr[t].at] \in Values \cup {Junk}
      BY <1>15, <2>1, <2>3, InstructionFields DEF IInv, TypeOK, Bytes, PortInv
    <3>5. \E x \in Values \cup {Junk} :
            Got(t)' = Instruction!Reply(instr[t], x)
      <4>1. CASE instr[t].val = NoByte
        BY <3>2, <3>4, <4>1 DEF Instruction!Reply, Instruction!IsRead
      <4>2. CASE instr[t].val # NoByte
        BY <3>2, <4>2 DEF Instruction!Reply, Instruction!IsRead
      <4> QED BY <4>1, <4>2
    <3>6. Instruction!Fail(t)
      BY <1>15, <2>1, <2>3, <3>2, <3>3, <3>5 DEF SrvXfer, Instruction!Fail, AbsPhase, AbsGot
    <3> QED BY <3>6, <1>15, <2>1, <2>3 DEF Instruction!Next
  <2> QED BY <1>15, <2>2, <2>3 DEF SrvXfer
<1>16. ASSUME IrqHandle PROVE Instruction!Next \/ UNCHANGED Instruction!vars
  <2>1. bus = "busy"
    BY <1>16 DEF IrqHandle, IInv, BusInv
  <2>2. /\ client \in Threads /\ pc[client] = "call" /\ spiLock = client
        /\ txbuf = instr[client] /\ instr[client] \in Instructions
        /\ srvPc \in {"unlock", "wait"} /\ srvRet = "ok" /\ busSem = 0
    BY <2>1, ClientAtWork
  <2> PICK t \in Threads : client = t
    BY <2>2
  <2>3. CASE left > 0 /\ UNCHANGED <<bus, left, rxbuf, status, busSem>>
    <3>1. \A u \in Threads : Phase(u)' = Phase(u) /\ Got(u)' = Got(u)
      BY <1>16, <2>1, <2>2, <2>3, OthersWait DEF IrqHandle, IInv, TypeOK, Phase, Got
    <3> QED BY <1>16, <3>1, Stutter DEF IrqHandle
  <2>4. CASE left = 0 /\ bus' = "free" /\ rxbuf' = Received /\ status' = "ok"
    <3>1. instr[t].val = NoByte => Received[instr[t].at] = wire
      BY <2>2, InstructionFields DEF Received, RxPos
    <3>2. \A u \in Threads \ {t} :
            Phase(u)' = Phase(u) /\ Got(u)' = Got(u)
      BY <1>16, <2>2, OthersWait DEF IrqHandle, IInv, TypeOK, Phase, Got
    <3>3. Phase(t)' = Phase(t) /\ Got(t)' = Got(t)
      BY <1>16, <2>1, <2>2, <2>4, <3>1 DEF IrqHandle, IInv, TypeOK, Phase, Got
    <3> QED BY <1>16, <3>2, <3>3, Stutter DEF IrqHandle
  <2>5. CASE bus' = "free" /\ status' = "err" /\ rxbuf' = rxbuf
    <3>1. \A u \in Threads \ {t} :
            Phase(u)' = Phase(u) /\ Got(u)' = Got(u)
      BY <1>16, <2>1, <2>2, <2>5, OthersWait DEF IrqHandle, IInv, TypeOK, Phase, Got
    <3>2. /\ Phase(t) \in {"called", "executed"}
          /\ Phase(t)' = "failed"
          /\ Got(t)' = IF instr[t].val = NoByte
                            THEN rxbuf[instr[t].at] ELSE NoByte
      BY <1>16, <2>1, <2>2, <2>5 DEF IrqHandle, IInv, TypeOK, Phase, Got
    <3>3. /\ AbsPhase' = [AbsPhase EXCEPT ![t] = "failed"]
          /\ AbsGot' = [AbsGot EXCEPT ![t] = Got(t)']
      BY <3>1, <3>2, OneThread, <1>16, <2>1, <2>2, <2>5
    <3>4. instr[t].val = NoByte
            => rxbuf[instr[t].at] \in Values \cup {Junk}
      BY <1>16, <2>1, <2>2, <2>5, InstructionFields DEF IInv, TypeOK, Bytes, PortInv
    <3>5. \E x \in Values \cup {Junk} :
            Got(t)' = Instruction!Reply(instr[t], x)
      <4>1. CASE instr[t].val = NoByte
        BY <3>2, <3>4, <4>1 DEF Instruction!Reply, Instruction!IsRead
      <4>2. CASE instr[t].val # NoByte
        BY <3>2, <4>2 DEF Instruction!Reply, Instruction!IsRead
      <4> QED BY <4>1, <4>2
    <3>6. Instruction!Fail(t)
      BY <1>16, <2>1, <2>2, <2>5, <3>2, <3>3, <3>5 DEF IrqHandle, Instruction!Fail, AbsPhase, AbsGot
    <3> QED BY <3>6, <1>16, <2>1, <2>2, <2>5 DEF Instruction!Next
  <2> QED BY <1>16, <2>3, <2>4, <2>5 DEF IrqHandle, spi_complete_callback
<1>17. ASSUME Shift PROVE Instruction!Next \/ UNCHANGED Instruction!vars
  <2>1. bus = "busy"
    BY <1>17 DEF Shift
  <2>2. /\ client \in Threads /\ pc[client] = "call" /\ spiLock = client
        /\ txbuf = instr[client] /\ instr[client] \in Instructions
        /\ srvPc \in {"unlock", "wait"} /\ srvRet = "ok" /\ busSem = 0
    BY <2>1, ClientAtWork
  <2> PICK t \in Threads : client = t
    BY <2>2
  <2>3. \A u \in Threads \ {t} :
          Phase(u)' = Phase(u) /\ Got(u)' = Got(u)
    BY <1>17, <2>2, OthersWait DEF Shift, IInv, TypeOK, Phase, Got
  <2>4. CASE left # 1
    <3>1. Phase(t)' = Phase(t) /\ Got(t)' = Got(t)
      BY <1>17, <2>2, <2>4 DEF Shift, IInv, TypeOK, Phase, Got
    <3> QED BY <1>17, <2>3, <2>4, <3>1, Stutter DEF Shift
  <2>5. CASE left = 1
    <3>1. /\ Phase(t) = "called" /\ Phase(t)' = "executed"
          /\ Got(t)' = IF instr[t].val = NoByte THEN reg ELSE NoByte
      BY <1>17, <2>2, <2>5 DEF Shift, IInv, TypeOK, Phase, Got
    <3>2. /\ AbsPhase' = [AbsPhase EXCEPT ![t] = "executed"]
          /\ AbsGot' = [AbsGot EXCEPT ![t] = Got(t)']
      BY <2>2, <2>3, <3>1, OneThread
    <3>3. Instruction!Execute(t)
      BY <1>17, <2>2, <2>5, <3>1, <3>2
      DEF Shift, Instruction!Execute, Instruction!Reply, Instruction!Effect,
          Instruction!IsRead, AbsPhase, AbsGot
    <3> QED BY <2>2, <3>3 DEF Instruction!Next
  <2> QED BY <2>4, <2>5
<1> QED
  BY <1>0, <1>1, <1>2, <1>3, <1>4, <1>5, <1>6, <1>7, <1>8, <1>9, <1>10, <1>11, <1>12, <1>13, <1>14, <1>15, <1>16, <1>17 DEF Next, CanStep, SrvStep,
     IrqStep, Instruction!Next

(* Each instruction of spi_cmd.c takes effect at most once, at one moment  *)
(* between call and return, and a read fetches the controller's reply to   *)
(* it unless the transfer failed.                                          *)
THEOREM InstructionRefinement == Spec => ImplementsSpiInstruction
<1>1. IInv /\ IInv' /\ [Next]_vars => [Instruction!Next]_(Instruction!vars)
  BY StepInstruction
<1> QED BY Invariance, InitInstruction, <1>1, PTL
        DEF Spec, Instruction!Spec, ImplementsSpiInstruction
=============================================================================
