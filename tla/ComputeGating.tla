---------------------------- MODULE ComputeGating ----------------------------
(***************************************************************************)
(* The issue loop of the direct AiM path seen from the scoreboard: in each *)
(* clock cycle at most one compute command is issued, if the gate lets it  *)
(* pass; a producer that ran on the RTL unit books its slots.  The         *)
(* commands come in any order and the unit takes any time up to a bound.   *)
(*                                                                         *)
(* mac_end, af_end and ewmul_end are history variables: when the unit      *)
(* really finishes what was issued, whatever the scoreboard believes.      *)
(***************************************************************************)
EXTENDS AiMComputeScoreboard

CONSTANTS Gating,      \* verilator.scoreboard_gating
          Latencies,   \* rtl_cycles a producer may take (0: it did not run)
          MaxClk       \* bound on the clock

ASSUME GatingAssumption ==
  /\ Gating \in BOOLEAN /\ Latencies \subseteq Nat /\ MaxClk \in Nat
  /\ Banks \subseteq Nat /\ BankGroups \subseteq Nat

VARIABLES clk, slots,
          issued,      \* a command was issued in this cycle
          failed,      \* the gate threw
          mac_end, af_end, ewmul_end

vars == <<clk, slots, issued, failed, mac_end, af_end, ewmul_end>>

Init ==
  /\ clk = 0 /\ slots = reset /\ issued = TRUE /\ failed = FALSE
  /\ mac_end = [b \in Banks |-> -1] /\ af_end = -1
  /\ ewmul_end = [g \in BankGroups |-> -1]

(* m_clk++ of the controller's tick. *)
Tick ==
  /\ ~failed /\ clk < MaxClk
  /\ clk' = clk + 1 /\ issued' = FALSE
  /\ UNCHANGED <<slots, failed, mac_end, af_end, ewmul_end>>

CanIssue(op) ==
  /\ ~failed /\ ~issued
  /\ gate_status(slots, op, clk) = "Pass"

(* note_compute_ready: the booked latency is 0 when gating is off. *)
note_compute_ready(op, rtl) ==
  note_ready(slots, op, clk, IF Gating THEN rtl ELSE 0)

(* The banks whose MAC unit the command occupies. *)
MacBanks(op) ==
  IF op.command = "MAC16" THEN Banks ELSE IF op.command = "MAC" THEN {op.arg} ELSE {}

EwmulGroups(op) ==
  IF op.command # "EWMUL16" THEN {}
  ELSE IF op.arg = 0 THEN BankGroups ELSE {op.arg - 1}

(* A producer issues; a dispatch that did not run (0 cycles) books nothing. *)
IssueProducer(op, rtl) ==
  /\ op \in Producers /\ CanIssue(op)
  /\ issued' = TRUE
  /\ slots' = IF rtl > 0 THEN note_compute_ready(op, rtl) ELSE slots
  /\ mac_end' = [b \in Banks |-> IF rtl > 0 /\ b \in MacBanks(op) THEN clk + rtl ELSE mac_end[b]]
  /\ af_end' = IF rtl > 0 /\ op.command = "AF16" THEN clk + rtl ELSE af_end
  /\ ewmul_end' = [g \in BankGroups |->
                     IF rtl > 0 /\ g \in EwmulGroups(op) THEN clk + rtl ELSE ewmul_end[g]]
  /\ UNCHANGED <<clk, failed>>

IssueConsumer(op) ==
  /\ op \in Consumers /\ CanIssue(op)
  /\ issued' = TRUE
  /\ UNCHANGED <<clk, slots, failed, mac_end, af_end, ewmul_end>>

(* A consumer of what was never produced throws. *)
GateThrows(op) ==
  /\ op \in Consumers /\ ~failed /\ ~issued
  /\ gate_status(slots, op, clk) = "MissingProducer"
  /\ failed' = TRUE
  /\ UNCHANGED <<clk, slots, issued, mac_end, af_end, ewmul_end>>

Next ==
  \/ Tick
  \/ \E op \in ComputeOps :
       (\E rtl \in Latencies : IssueProducer(op, rtl)) \/ IssueConsumer(op) \/ GateThrows(op)

Spec == Init /\ [][Next]_vars
-----------------------------------------------------------------------------
SlotType == [issue_ready_clk : Int, visible_ready_clk : Int, produced_epoch : Nat]

TypeOK ==
  /\ clk \in Nat /\ issued \in BOOLEAN /\ failed \in BOOLEAN
  /\ slots \in [Slots -> SlotType]
  /\ mac_end \in [Banks -> Int] /\ af_end \in Int /\ ewmul_end \in [BankGroups -> Int]

(***************************************************************************)
(* With gating on, the shared MAC16 slot is booked at least as long as any *)
(* bank really works, so a MAC on one bank, which looks at its own slot    *)
(* and the shared one, waits for MACs of every other bank too              *)
(* (resolve_slots pushes m_mac16_slot for MAC and MAC16).                  *)
(***************************************************************************)
SharedSlotCoversBanks ==
  Gating => \A b \in Banks :
    /\ mac_end[b] <= slots[Mac16Slot].issue_ready_clk
    /\ slots[MacSlot(b)].issue_ready_clk <= slots[Mac16Slot].issue_ready_clk

(* A slot's two clocks never part, and both cover the unit's real end.     *)
SlotsCoverUnits ==
  /\ \A s \in Slots : slots[s].issue_ready_clk = slots[s].visible_ready_clk
  /\ Gating => /\ af_end <= slots[Af16Slot].visible_ready_clk
               /\ \A g \in BankGroups : ewmul_end[g] <= slots[EwmulSlot(g)].issue_ready_clk

(* A result that was never produced is never ready, one that was is. *)
EpochMatchesClock ==
  \A s \in Slots : slots[s].produced_epoch = 0 <=> slots[s].issue_ready_clk = -1

IInv == TypeOK /\ SharedSlotCoversBanks /\ SlotsCoverUnits /\ EpochMatchesClock

(***************************************************************************)
(* The MAC unit runs one command at a time: no MAC or MAC16 is issued      *)
(* while an earlier one still runs on any bank.                            *)
(***************************************************************************)
MacsNeverOverlap ==
  [][Gating /\ mac_end' # mac_end => \A b \in Banks : mac_end[b] <= clk]_vars

(* A read of the MAC results or of the activations is issued when the last *)
(* one that was started has finished, never before (RDMAC16, RDAF16).      *)
ReadsSeeFinished ==
  [][\A op \in Consumers : Gating /\ IssueConsumer(op) =>
       IF op.command = "RDMAC16" THEN \A b \in Banks : mac_end[b] <= clk ELSE af_end <= clk]_vars

(* An element-wise product does not start on a group that still works, and *)
(* an activation does not start over a running one.                        *)
UnitsNeverOverlap ==
  [][Gating => /\ af_end' # af_end => af_end <= clk
               /\ \A g \in BankGroups : ewmul_end'[g] # ewmul_end[g] => ewmul_end[g] <= clk]_vars

(***************************************************************************)
(* "If the RTL PU latency exceeds the abstracted PU operation latency in   *)
(* the AiM Simulator, execution is synchronized to the RTL PU latency"     *)
(* (README.md): an activation, which works on the MAC results, waits for   *)
(* the MAC that produces them.                                             *)
(***************************************************************************)
AfWaitsForMac ==
  [][af_end' # af_end => \A b \in Banks : mac_end[b] <= clk]_vars
=============================================================================
