------------------------------- MODULE CanMode -------------------------------
(***************************************************************************)
(* The operation mode of the CAN controller, which the calls of dev.c      *)
(* switch: can_setup and can_setup_loopback reset the controller and wait  *)
(* for the mode they need, the filter calls request configuration mode and *)
(* go on.  A request takes effect when no frame is on the wire, which the  *)
(* calls do not control.                                                   *)
(*                                                                         *)
(* One step is one SPI instruction, or one round of a wait.  What is       *)
(* written to the filters is in CanFilter.  The interrupt handler switches *)
(* the mode only out of listen-only mode (report_message_error), which no  *)
(* call requests.                                                          *)
(***************************************************************************)
CONSTANT Calls  \* the calls the client makes

Setups == {"setup", "loopback"}
FilterCalls == {"set", "clear", "disable"}

ASSUME ModeAssumption == Calls \subseteq Setups \cup FilterCalls

VARIABLES pc,     \* where the RPC thread is
          call,   \* the call it serves, or served last
          reqop,  \* CANCTRL.REQOP, the mode requested
          opmod,  \* CANSTAT.OPMOD, the mode the controller is in
          inte,   \* CANINTE: interrupts are enabled
          rxMode, \* receive mode of RXB0 and RXB1
          busy    \* a frame is on the wire

modeVars == <<reqop, opmod>>
vars == <<pc, call, modeVars, inte, rxMode, busy>>

ModeAfter_Next(c) == IF c = "loopback" THEN "listen" ELSE "normal"

(* The mode a call leaves the controller in.  An operator with a suffix is *)
(* the one it is named after with a bug put in: no behaviour uses it.      *)
ModeAfter(c) == IF c = "loopback" THEN "loop" ELSE "normal"

(* After power-on, before the client's first call.                         *)
Init ==
  /\ pc = "idle" /\ call = "none"
  /\ reqop = "config" /\ opmod = "config"
  /\ inte = FALSE
  /\ rxMode = [b \in {0, 1} |-> "BOTH"]
  /\ busy = FALSE
-----------------------------------------------------------------------------
(* The RPC thread.                                                         *)

set_mode(m) == reqop' = m /\ UNCHANGED opmod

(* mcp2515_reset; the controller answers no mode until it has restarted.   *)
Reset(c) ==
  /\ pc = "idle" /\ pc' = "wait_config"
  /\ c \in Setups /\ call' = c
  /\ reqop' = "config" /\ opmod' = "restarting"
  /\ inte' = FALSE
  /\ rxMode' = [b \in {0, 1} |-> "BOTH"]
  /\ UNCHANGED busy

WaitConfig_Once ==
  /\ pc = "wait_config" /\ pc' = "timing"
  /\ UNCHANGED <<call, modeVars, inte, rxMode, busy>>

WaitConfig ==
  /\ pc = "wait_config" /\ pc' = "timing"
  /\ opmod = "config"
  /\ UNCHANGED <<call, modeVars, inte, rxMode, busy>>

SetBaudrate ==
  /\ pc = "timing"
  /\ pc' = IF call = "setup" THEN "enable" ELSE "rxmode0"
  /\ UNCHANGED <<call, modeVars, inte, rxMode, busy>>

enable_intrrupt ==
  /\ pc = "enable" /\ pc' = "rxmode0"
  /\ inte' = TRUE
  /\ UNCHANGED <<call, modeVars, rxMode, busy>>

FilterCall(c) ==
  /\ pc = "idle" /\ call # "none"
  /\ c \in FilterCalls /\ call' = c
  /\ set_mode("config")
  /\ pc' = "access"
  /\ UNCHANGED <<inte, rxMode, busy>>

(* The last of the call's accesses to filter and mask registers; the       *)
(* others leave the thread where it is.                                    *)
Accessed ==
  /\ pc = "access"
  /\ pc' = IF call = "clear" THEN "leave" ELSE "rxmode0"
  /\ UNCHANGED <<call, modeVars, inte, rxMode, busy>>

RxModeOf(c) == IF c = "set" THEN "BOTH" ELSE "ANY"

(* set_rx_mode, for RXB1 in the filter calls only.                         *)
SetRxMode ==
  \/ /\ pc = "rxmode0"
     /\ rxMode' = [rxMode EXCEPT ![0] = RxModeOf(call)]
     /\ pc' = IF call \in Setups THEN "leave" ELSE "rxmode1"
     /\ UNCHANGED <<call, modeVars, inte, busy>>
  \/ /\ pc = "rxmode1" /\ pc' = "leave"
     /\ rxMode' = [rxMode EXCEPT ![1] = RxModeOf(call)]
     /\ UNCHANGED <<call, modeVars, inte, busy>>

LeaveConfig_Normal ==
  /\ pc = "leave"
  /\ set_mode("normal")
  /\ pc' = IF call = "loopback" THEN "wait_loop" ELSE "idle"
  /\ UNCHANGED <<call, inte, rxMode, busy>>

LeaveConfig_Setups ==
  /\ pc = "leave"
  /\ IF call \in Setups THEN set_mode(ModeAfter(call)) ELSE UNCHANGED modeVars
  /\ pc' = IF call = "loopback" THEN "wait_loop" ELSE "idle"
  /\ UNCHANGED <<call, inte, rxMode, busy>>

(* The request that ends the call; only can_setup_loopback waits for it.   *)
LeaveConfig ==
  /\ pc = "leave"
  /\ set_mode(ModeAfter(call))
  /\ pc' = IF call = "loopback" THEN "wait_loop" ELSE "idle"
  /\ UNCHANGED <<call, inte, rxMode, busy>>

WaitLoop ==
  /\ pc = "wait_loop" /\ pc' = "idle"
  /\ opmod = "loop"
  /\ UNCHANGED <<call, modeVars, inte, rxMode, busy>>
-----------------------------------------------------------------------------
(* The controller and the bus.                                             *)

Restarted ==
  /\ opmod = "restarting" /\ opmod' = "config"
  /\ UNCHANGED <<pc, call, reqop, inte, rxMode, busy>>

SwitchMode ==
  /\ opmod \notin {"restarting", reqop}
  /\ ~busy
  /\ opmod' = reqop
  /\ UNCHANGED <<pc, call, reqop, inte, rxMode, busy>>

FrameBegins ==
  /\ ~busy /\ busy' = TRUE
  /\ UNCHANGED <<pc, call, modeVars, inte, rxMode>>

FrameEnds ==
  /\ busy /\ busy' = FALSE
  /\ UNCHANGED <<pc, call, modeVars, inte, rxMode>>
-----------------------------------------------------------------------------
RpcStep ==
  \/ WaitConfig \/ SetBaudrate \/ enable_intrrupt \/ Accessed \/ SetRxMode
  \/ LeaveConfig \/ WaitLoop

Next ==
  \/ \E c \in Calls : Reset(c) \/ FilterCall(c)
  \/ RpcStep
  \/ Restarted \/ SwitchMode \/ FrameBegins \/ FrameEnds

(* The bus is not busy for ever, and the controller switches in one of its *)
(* pauses.  Nothing is assumed of the client.                              *)
Spec == Init /\ [][Next]_vars
FairSpec ==
  /\ Spec
  /\ WF_vars(RpcStep) /\ WF_vars(Restarted) /\ WF_vars(FrameEnds)
  /\ SF_vars(SwitchMode)
-----------------------------------------------------------------------------
(* Type invariant.                                                         *)
TypeOK ==
  /\ pc \in {"idle", "wait_config", "timing", "enable", "access", "rxmode0",
             "rxmode1", "leave", "wait_loop"}
  /\ call \in Calls \cup {"none"}
  /\ reqop \in {"config", "normal", "loop"}
  /\ opmod \in {"config", "normal", "loop", "restarting"}
  /\ inte \in BOOLEAN
  /\ rxMode \in [{0, 1} -> {"ANY", "BOTH"}]
  /\ busy \in BOOLEAN

(* The bit timing registers are written in configuration mode, as          *)
(* controller.c 88 says ("This operation requires configuration mode."):   *)
(* also when can_setup comes while the request of a filter call is still   *)
(* pending, or a frame is on the wire.                                     *)
TimingInConfigMode == pc = "timing" => opmod = "config"

(* Every call returns: the waits of can_setup and can_setup_loopback for a *)
(* mode end (dev.c 68 and 107).                                            *)
CallsReturn == pc # "idle" ~> pc = "idle"

(* The controller ends up in the mode that the client's last call is to    *)
(* leave it in, although most calls request a mode without waiting for it  *)
(* and one request may replace another that never took effect.             *)
LastCallSettles ==
  \A c \in Calls :
    pc = "idle" /\ call = c ~> opmod = ModeAfter(c) \/ pc # "idle"
=============================================================================
