------------------------ MODULE AiMComputeScoreboard ------------------------
(***************************************************************************)
(* The scoreboard of the direct AiM path (aim_compute_scoreboard.h): for   *)
(* each result the processing unit produces, when it will be ready and     *)
(* how often it was produced.  The scoreboard is a value here; the modules *)
(* that use it keep it in a variable of theirs.                            *)
(***************************************************************************)
EXTENDS Integers

CONSTANTS Banks,     \* 0..15: one MAC result each
          BankGroups \* 0..3: one element-wise product each

(* A slot is <<kind, index>>; mac16 and af16 have one each. *)
MacSlot(b) == <<"mac", b>>
EwmulSlot(g) == <<"ewmul", g>>
Mac16Slot == <<"mac16", 0>>
Af16Slot == <<"af16", 0>>

Slots == {MacSlot(b) : b \in Banks} \union {EwmulSlot(g) : g \in BankGroups}
         \union {Mac16Slot, Af16Slot}

(* The AiM commands of the compute path.  A single-bank MAC has its bank,  *)
(* an EWMUL16 the number of its bank group plus one, or 0 for all of them. *)
Producers ==
  {[command |-> "MAC", arg |-> b] : b \in Banks}
  \union {[command |-> "MAC16", arg |-> 0], [command |-> "AF16", arg |-> 0]}
  \union {[command |-> "EWMUL16", arg |-> g] : g \in {0} \union {h + 1 : h \in BankGroups}}

Consumers == {[command |-> c, arg |-> 0] : c \in {"RDMAC16", "RDAF16"}}

ComputeOps == Producers \union Consumers

reset == [s \in Slots |-> [issue_ready_clk |-> -1, visible_ready_clk |-> -1,
                           produced_epoch |-> 0]]

(* Mutant: a single-bank MAC does not touch the shared slot. *)
MutMacOwnSlotOnly(op) ==
  CASE op.command = "MAC" -> {MacSlot(op.arg)}
    [] op.command = "MAC16" -> {MacSlot(b) : b \in Banks} \union {Mac16Slot}
    [] op.command = "AF16" -> {Af16Slot}
    [] op.command = "EWMUL16" -> IF op.arg > 0 THEN {EwmulSlot(op.arg - 1)}
                                 ELSE {EwmulSlot(g) : g \in BankGroups}
    [] op.command = "RDMAC16" -> {Mac16Slot}
    [] op.command = "RDAF16" -> {Af16Slot}

(* Mutant: an all-group EWMUL16 books the first group only. *)
MutEwmulFirstGroup(op) ==
  CASE op.command = "MAC" -> {MacSlot(op.arg), Mac16Slot}
    [] op.command = "MAC16" -> {MacSlot(b) : b \in Banks} \union {Mac16Slot}
    [] op.command = "AF16" -> {Af16Slot}
    [] op.command = "EWMUL16" -> {EwmulSlot(IF op.arg > 0 THEN op.arg - 1 ELSE 0)}
    [] op.command = "RDMAC16" -> {Mac16Slot}
    [] op.command = "RDAF16" -> {Af16Slot}

resolve_slots(op) ==
  CASE op.command = "MAC" -> {MacSlot(op.arg), Mac16Slot}
    [] op.command = "MAC16" -> {MacSlot(b) : b \in Banks} \union {Mac16Slot}
    [] op.command = "AF16" -> {Af16Slot}
    [] op.command = "EWMUL16" -> IF op.arg > 0 THEN {EwmulSlot(op.arg - 1)}
                                 ELSE {EwmulSlot(g) : g \in BankGroups}
    [] op.command = "RDMAC16" -> {Mac16Slot}
    [] op.command = "RDAF16" -> {Af16Slot}

Later(a, b) == IF a < b THEN b ELSE a

note_ready(slots, op, issue_clk, rtl_cycles) ==
  LET ready == issue_clk + rtl_cycles
  IN  [s \in Slots |->
        IF s \in resolve_slots(op)
          THEN [issue_ready_clk   |-> Later(slots[s].issue_ready_clk, ready),
                visible_ready_clk |-> Later(slots[s].visible_ready_clk, ready),
                produced_epoch    |-> slots[s].produced_epoch + 1]
          ELSE slots[s]]

(* Mutant: a producer goes one cycle early. *)
MutProducerEarly(slots, op, now) ==
  \A s \in resolve_slots(op) :
    slots[s].issue_ready_clk # -1 => slots[s].issue_ready_clk <= now + 1

ProducerReady(slots, op, now) ==
  \A s \in resolve_slots(op) :
    slots[s].issue_ready_clk # -1 => slots[s].issue_ready_clk <= now

Produced(slots, op) == \A s \in resolve_slots(op) : slots[s].produced_epoch # 0

(* Mutant: a consumer goes one cycle early. *)
MutConsumerEarly(slots, op, now) ==
  \A s \in resolve_slots(op) : slots[s].visible_ready_clk <= now + 1

ResultVisible(slots, op, now) ==
  \A s \in resolve_slots(op) : slots[s].visible_ready_clk <= now

gate_status(slots, op, now) ==
  IF op \in Producers
    THEN IF ProducerReady(slots, op, now) THEN "Pass" ELSE "ProducerNotReady"
    ELSE IF ~Produced(slots, op) THEN "MissingProducer"
    ELSE IF ResultVisible(slots, op, now) THEN "Pass" ELSE "ConsumerNotReady"
=============================================================================
