---------------------------- MODULE CanMode_proof ----------------------------
(***************************************************************************)
(* For every set of calls that a client makes: the bit timing is written   *)
(* in configuration mode, and the mode that a call waits for, or is to     *)
(* leave the controller in, is the one requested last.  The controller     *)
(* changes its mode only to the requested one, so while the request stands *)
(* configuration mode, once reached, is not left.                          *)
(***************************************************************************)
EXTENDS CanMode, TLAPS

(* What the waits, and the end of a call, rest on.                         *)
RequestStands ==
  /\ pc \in {"wait_config", "timing"} => reqop = "config"
  /\ pc = "wait_loop" => call = "loopback" /\ reqop = "loop"
  /\ pc = "idle" /\ call # "none" => reqop = ModeAfter(call)

IInv == TypeOK /\ RequestStands /\ TimingInConfigMode

LEMMA Invariance == Spec => []IInv
<1>1. Init => IInv
  <2> SUFFICES ASSUME Init PROVE IInv
    OBVIOUS
  <2>1. inte \in BOOLEAN /\ busy \in BOOLEAN
    BY Zenon DEF Init
  <2>2. TypeOK
    BY <2>1 DEF Init, TypeOK
  <2> QED BY <2>2 DEF Init, IInv, RequestStands, TimingInConfigMode
<1>2. IInv /\ [Next]_vars => IInv'
  <2> SUFFICES ASSUME IInv, [Next]_vars PROVE IInv'
    OBVIOUS
  <2> USE ModeAssumption
      DEF IInv, TypeOK, RequestStands, TimingInConfigMode, modeVars, set_mode,
          ModeAfter, Setups, FilterCalls
  <2>1. CASE UNCHANGED vars
    BY <2>1 DEF vars
  <2>2. ASSUME NEW c \in Calls, Reset(c)
        PROVE  IInv'
    BY <2>2 DEF Reset
  <2>3. ASSUME NEW c \in Calls, FilterCall(c)
        PROVE  IInv'
    BY <2>3 DEF FilterCall
  <2>4. CASE WaitConfig
    BY <2>4 DEF WaitConfig
  <2>5. CASE SetBaudrate
    BY <2>5 DEF SetBaudrate
  <2>6. CASE enable_intrrupt
    BY <2>6 DEF enable_intrrupt
  <2>7. CASE Accessed
    BY <2>7 DEF Accessed
  <2>8. CASE SetRxMode
    BY <2>8 DEF SetRxMode, RxModeOf
  <2>9. CASE LeaveConfig
    BY <2>9 DEF LeaveConfig
  <2>10. CASE WaitLoop
    BY <2>10 DEF WaitLoop
  <2>11. CASE Restarted
    BY <2>11 DEF Restarted
  <2>12. CASE SwitchMode
    BY <2>12 DEF SwitchMode
  <2>13. CASE FrameBegins \/ FrameEnds
    BY <2>13 DEF FrameBegins, FrameEnds
  <2> QED
    BY <2>1, <2>2, <2>3, <2>4, <2>5, <2>6, <2>7, <2>8, <2>9, <2>10, <2>11,
       <2>12, <2>13 DEF Next, RpcStep
<1> QED BY <1>1, <1>2, PTL DEF Spec

(* The thread, the two mode fields and the receive modes keep their types. *)
THEOREM TypeCorrect == Spec => []TypeOK
<1>1. IInv => TypeOK
  BY DEF IInv
<1> QED BY Invariance, <1>1, PTL

(* set_baudrate writes in configuration mode, as the registers need it,    *)
(* whatever request a filter call left pending and whatever is on the      *)
(* wire: the wait before it is for the mode requested by the reset.        *)
THEOREM TimingWrittenInConfig == Spec => []TimingInConfigMode
<1>1. IInv => TimingInConfigMode
  BY DEF IInv
<1> QED BY Invariance, <1>1, PTL

(* The safety half of what the run checks of returning calls and settling  *)
(* modes: a wait is for the mode that is requested while it lasts, and     *)
(* between two calls the request that stands is the last call's.           *)
THEOREM WaitsForRequestedMode == Spec => []RequestStands
<1>1. IInv => RequestStands
  BY DEF IInv
<1> QED BY Invariance, <1>1, PTL
=============================================================================
