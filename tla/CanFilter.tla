------------------------------ MODULE CanFilter ------------------------------
(***************************************************************************)
(* The controller's configuration: the mode switches of CanMode, with the  *)
(* registers that the calls write meanwhile: the bit timing of can_setup   *)
(* and the acceptance filters of can_set_filter, can_clear_filter and      *)
(* can_disable_filtering (dev.c), whose allocation is in controller.c.     *)
(* The driver keeps no record of the filters it has given out: it finds a  *)
(* free one by reading the registers back.                                 *)
(*                                                                         *)
(* A step is one SPI instruction.  The filter calls request configuration  *)
(* mode and do not wait for it, so each of their accesses finds the        *)
(* controller in that mode or not yet: filter and mask registers then      *)
(* ignore what is written and are read as 0.                               *)
(*                                                                         *)
(* A register quadruple SIDH, SIDL, EID8, EID0 is a record of what it      *)
(* encodes: the 11-bit and 18-bit parts of an identifier or a mask, and    *)
(* the extended flag.                                                      *)
(***************************************************************************)
EXTENDS CanMode, BitTiming

CONSTANTS Requests,  \* what clients ask for: records [id, mask]
          Bauds,     \* the bit rates they ask for
          MaxCalls   \* bound on the number of filter calls

MaxSid == 2^11 - 1
MaxEid == 2^18 - 1
Part == [sid : 0 .. MaxSid, eid : 0 .. MaxEid]
CanId == [sid : 0 .. MaxSid, eid : 0 .. MaxEid, exide : BOOLEAN]

(* CAN's highest bit rate.                                                 *)
MaxBaud == 1000000

(* The mask of a standard identifier has 11 bits (can_inf.h).              *)
ASSUME FilterAssumption ==
  /\ Requests \subseteq [id : CanId, mask : Part]
  /\ \A r \in Requests : ~r.id.exide => r.id.eid = 0 /\ r.mask.eid = 0
  /\ Bauds \subseteq 1 .. MaxBaud
  /\ MaxCalls \in Nat

VARIABLES filter,   \* the registers at RXFSIDH(n), n = 0 .. 5
          mask,     \* the mask registers at RXMSIDH(n), n = 0, 1
          cnf,      \* the bit timing registers CNF1 to CNF3
          baudrate, \* the argument of the last can_setup or ..._loopback
          given,    \* the filters the client holds, with what it asked for
          access,   \* the next access of a filter call to filter and mask
          maskIdx,  \* i of set_rx_filter
          filtIdx,  \* the filter it is about, j of the loops
          arg,      \* what the call writes: a request, or zeros
          calls     \* the number of filter calls so far

regVars == <<filter, mask, cnf, baudrate>>
accessVars == <<access, maskIdx, filtIdx, arg>>
filterVars == <<regVars, accessVars, given, calls>>
configVars == <<vars, filterVars>>

Filters == 0 .. 5
Masks == {0, 1}

(* Mask 0 applies to filters 0 and 1, mask 1 to filters 2 to 5.            *)
MaskOf(idx) == IF idx < 2 THEN 0 ELSE 1
(* An operator with a suffix has a bug put in: no behaviour uses it.       *)
FirstFilter_Next(m) == 3 * m

FirstFilter(m) == 2 * m
LastFilter(m) == 4 * m + 1

ZeroId == [sid |-> 0, eid |-> 0, exide |-> FALSE]
ZeroMask == [sid |-> 0, eid |-> 0]
ZeroRequest == [id |-> ZeroId, mask |-> ZeroMask]
NoneGiven == [idx \in {} |-> ZeroRequest]

(* The addresses RXFSIDH(3) .. RXFSIDH(3) + 3 are 0xC to 0xF, where the    *)
(* header also has CANSTAT and CANCTRL: with configuration mode requested  *)
(* what is read there is never zero.                                       *)
StatusWord == 3

Configurable == opmod = "config"

is_filter_empty(idx) ==
  idx # StatusWord /\ (Configurable => filter[idx] = ZeroId)

(* set_rx_filter keeps both parts of the mask it reads in a uint8_t, and   *)
(* drops the extended part for a standard identifier.                      *)
CurMask(m, exide) ==
  LET read == IF Configurable THEN mask[m] ELSE ZeroMask
  IN  [sid |-> read.sid % 2^8, eid |-> IF exide THEN read.eid % 2^8 ELSE 0]

MaskEmpty(m) == CurMask(m, TRUE) = ZeroMask

ConfigInit ==
  /\ Init
  /\ filter = [idx \in Filters |-> ZeroId]
  /\ mask = [m \in Masks |-> ZeroMask]
  /\ cnf = ResetTiming
  /\ baudrate = 0
  /\ given = NoneGiven
  /\ access = "none" /\ maskIdx = 0 /\ filtIdx = 0 /\ arg = ZeroRequest
  /\ calls = 0
-----------------------------------------------------------------------------
(* can_setup and can_setup_loopback.  The reset clears all registers, and  *)
(* with them what the client held.                                         *)
Setup(c, b) ==
  /\ Reset(c)
  /\ filter' = [idx \in Filters |-> ZeroId]
  /\ mask' = [m \in Masks |-> ZeroMask]
  /\ cnf' = ResetTiming
  /\ baudrate' = b
  /\ given' = NoneGiven
  /\ UNCHANGED <<accessVars, calls>>

SetTiming ==
  /\ SetBaudrate
  /\ cnf' = set_baudrate(baudrate)
  /\ UNCHANGED <<filter, mask, baudrate, given, accessVars, calls>>

(* A filter call begins by requesting configuration mode.                  *)
Call(c, first, idx, a) ==
  /\ FilterCall(c)
  /\ calls < MaxCalls /\ calls' = calls + 1
  /\ access' = first /\ maskIdx' = 0 /\ filtIdx' = idx /\ arg' = a
  /\ UNCHANGED regVars

SetFilter(r) == Call("set", "read_mask", 0, r) /\ UNCHANGED given

(* The client gives the filter up when it makes the call.                  *)
ClearFilter(idx) ==
  /\ idx \in DOMAIN given
  /\ Call("clear", "write_filter", idx, ZeroRequest)
  /\ given' = [held \in DOMAIN given \ {idx} |-> given[held]]

DisableFiltering ==
  /\ Call("disable", "write_masks", 0, ZeroRequest)
  /\ given' = NoneGiven

(* The call goes on with another access, or with the receive modes.        *)
Go(next, m, idx) ==
  /\ access' = next /\ maskIdx' = m /\ filtIdx' = idx
  /\ UNCHANGED <<arg, vars>>

EndAccess ==
  /\ Accessed
  /\ access' = "none" /\ maskIdx' = 0 /\ filtIdx' = 0 /\ arg' = ZeroRequest

(* set_rx_filter tries mask 0 first, and returns -1 after mask 1.          *)
NextMask ==
  \/ maskIdx = 0 /\ Go("read_mask", 1, filtIdx)
  \/ maskIdx = 1 /\ EndAccess

(* The first filter of an empty mask, or a free one of an equal mask.      *)
ReadMask ==
  /\ access = "read_mask"
  /\ \/ /\ MaskEmpty(maskIdx)
        /\ Go(IF arg.mask = ZeroMask THEN "write_filter" ELSE "write_mask",
              maskIdx, FirstFilter(maskIdx))
     \/ /\ ~MaskEmpty(maskIdx)
        /\ CurMask(maskIdx, arg.id.exide) = arg.mask
        /\ Go("read_filter", maskIdx, FirstFilter(maskIdx))
     \/ /\ ~MaskEmpty(maskIdx)
        /\ CurMask(maskIdx, arg.id.exide) # arg.mask
        /\ NextMask
  /\ UNCHANGED <<regVars, given, calls>>

(* The loop of set_rx_filter looks for a free filter, that of              *)
(* clear_rx_filter for one in use.                                         *)
ReadFilter ==
  /\ access = "read_filter"
  /\ \/ /\ filtIdx < LastFilter(MaskOf(filtIdx))
        /\ call = "set" <=> ~is_filter_empty(filtIdx)
        /\ Go("read_filter", maskIdx, filtIdx + 1)
     \/ /\ call = "set" /\ is_filter_empty(filtIdx)
        /\ Go("write_filter", maskIdx, filtIdx)
     \/ /\ call = "set" /\ ~is_filter_empty(filtIdx)
        /\ filtIdx = LastFilter(MaskOf(filtIdx))
        /\ NextMask
     \/ call = "clear" /\ ~is_filter_empty(filtIdx) /\ EndAccess
     \/ /\ call = "clear" /\ is_filter_empty(filtIdx)
        /\ filtIdx = LastFilter(MaskOf(filtIdx))
        /\ Go("write_mask", maskIdx, filtIdx)
  /\ UNCHANGED <<regVars, given, calls>>

(* write_to_filter writes the mask first, unless it is 0; clear_rx_filter  *)
(* writes it last.                                                         *)
WriteMask ==
  /\ access = "write_mask"
  /\ mask' = IF Configurable
             THEN [mask EXCEPT ![MaskOf(filtIdx)] = arg.mask] ELSE mask
  /\ \/ call = "set" /\ Go("write_filter", maskIdx, filtIdx)
     \/ call = "clear" /\ EndAccess
  /\ UNCHANGED <<filter, cnf, baudrate, given, calls>>

(* With this can_set_filter is successful: the client holds filtIdx.       *)
WriteFilter ==
  /\ access = "write_filter"
  /\ filter' = IF Configurable
               THEN [filter EXCEPT ![filtIdx] = arg.id] ELSE filter
  /\ \/ /\ call = "set" /\ EndAccess
        /\ given' = [idx \in DOMAIN given \cup {filtIdx} |->
                       IF idx = filtIdx THEN arg ELSE given[idx]]
     \/ /\ call = "clear"
        /\ Go("read_filter", maskIdx, FirstFilter(MaskOf(filtIdx)))
        /\ UNCHANGED given
  /\ UNCHANGED <<mask, cnf, baudrate, calls>>

(* can_disable_filtering clears the masks, in one instruction, and leaves  *)
(* the filters' registers as they were.                                    *)
WriteMasks ==
  /\ access = "write_masks"
  /\ mask' = IF Configurable THEN [m \in Masks |-> ZeroMask] ELSE mask
  /\ EndAccess
  /\ UNCHANGED <<filter, cnf, baudrate, given, calls>>
-----------------------------------------------------------------------------
ModeStep ==
  /\ WaitConfig \/ enable_intrrupt \/ SetRxMode \/ LeaveConfig \/ WaitLoop
  /\ UNCHANGED filterVars

ConfigStep ==
  SetTiming \/ ReadMask \/ ReadFilter \/ WriteMask \/ WriteFilter \/ WriteMasks
            \/ ModeStep

ControllerStep ==
  /\ Restarted \/ SwitchMode \/ FrameBegins \/ FrameEnds
  /\ UNCHANGED filterVars

ConfigNext ==
  \/ \E c \in Setups \cap Calls, b \in Bauds : Setup(c, b)
  \/ "set" \in Calls /\ \E r \in Requests : SetFilter(r)
  \/ "clear" \in Calls /\ \E idx \in Filters : ClearFilter(idx)
  \/ "disable" \in Calls /\ DisableFiltering
  \/ ConfigStep
  \/ ControllerStep

ConfigSpec == ConfigInit /\ [][ConfigNext]_configVars

(* The fairness of CanMode.                                                *)
ConfigFairSpec ==
  /\ ConfigSpec
  /\ WF_configVars(ConfigStep)
  /\ WF_configVars(Restarted /\ UNCHANGED filterVars)
  /\ WF_configVars(FrameEnds /\ UNCHANGED filterVars)
  /\ SF_configVars(SwitchMode /\ UNCHANGED filterVars)
-----------------------------------------------------------------------------
(* Type invariant.  A client is never given "filter 3": it would write its *)
(* identifier into the control register.                                   *)
ConfigTypeOK ==
  /\ filter \in [Filters -> CanId]
  /\ mask \in [Masks -> Part]
  /\ cnf \in [cnf1 : Byte, cnf2 : Byte, cnf3 : Byte]
  /\ baudrate \in Bauds \cup {0}
  /\ DOMAIN given \subseteq Filters \ {StatusWord}
  /\ \A idx \in DOMAIN given : given[idx] \in Requests
  /\ access \in {"none", "read_mask", "read_filter", "write_mask",
                 "write_filter", "write_masks"}
  /\ access = "none" <=> pc # "access"
  /\ maskIdx \in Masks /\ filtIdx \in Filters
  /\ access = "write_filter" => filtIdx # StatusWord
  /\ arg \in Requests \cup {ZeroRequest}
  /\ calls \in 0 .. MaxCalls

(* A call does not give out a filter that a client holds, nor change the   *)
(* mask that the client asked for with it (controller.c 350: "Some of the  *)
(* filter are in use, the mask has to be the same, otherwise the old       *)
(* filters would be corrupted.").                                          *)
HeldKept ==
  \A idx \in DOMAIN given \cap DOMAIN given' :
    /\ given'[idx] = given[idx]
    /\ mask[MaskOf(idx)] = given[idx].mask
         => mask'[MaskOf(idx)] = mask[MaskOf(idx)]

HeldFiltersKept == [][HeldKept]_configVars
=============================================================================
