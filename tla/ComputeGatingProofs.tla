------------------------- MODULE ComputeGatingProofs -------------------------
(***************************************************************************)
(* Proofs about the gated issue loop, for any banks, bank groups and RTL   *)
(* latencies and an unbounded run within MaxClk.                           *)
(***************************************************************************)
EXTENDS ComputeGating, TLAPS

(* The slot a command books is one the scoreboard has. *)
LEMMA ResolveInSlots ==
  ASSUME NEW op \in ComputeOps
  PROVE  resolve_slots(op) \subseteq Slots
<1> USE GatingAssumption DEF resolve_slots, Slots
<1>1. CASE op \in {[command |-> "MAC", arg |-> b] : b \in Banks}
  BY <1>1
<1>2. CASE op = [command |-> "MAC16", arg |-> 0] \/ op = [command |-> "AF16", arg |-> 0]
  BY <1>2
<1>3. CASE op \in {[command |-> "EWMUL16", arg |-> g] : g \in {0} \union {h + 1 : h \in BankGroups}}
  <2>1. PICK g \in {0} \union {h + 1 : h \in BankGroups} : op = [command |-> "EWMUL16", arg |-> g]
    BY <1>3
  <2>2. CASE g = 0
    BY <2>1, <2>2
  <2>3. CASE g # 0
    <3>1. PICK h \in BankGroups : g = h + 1
      BY <2>3
    <3>2. op.arg > 0 /\ op.arg - 1 = h
      BY <2>1, <3>1
    <3> QED
      BY <2>1, <3>2
  <2> QED
    BY <2>2, <2>3
<1>4. CASE op \in Consumers
  BY <1>4 DEF Consumers
<1> QED
  BY <1>1, <1>2, <1>3, <1>4 DEF ComputeOps, Producers

(* The slots of different kinds are different slots. *)
LEMMA SlotsDiffer ==
  ASSUME NEW b \in Banks, NEW g \in BankGroups
  PROVE  /\ MacSlot(b) # Mac16Slot /\ MacSlot(b) # Af16Slot /\ MacSlot(b) # EwmulSlot(g)
         /\ EwmulSlot(g) # Mac16Slot /\ EwmulSlot(g) # Af16Slot
         /\ Mac16Slot # Af16Slot
         /\ MacSlot(b) \in Slots /\ EwmulSlot(g) \in Slots
BY DEF MacSlot, Mac16Slot, Af16Slot, EwmulSlot, Slots

LEMMA SharedSlots == Mac16Slot \in Slots /\ Af16Slot \in Slots /\ Mac16Slot # Af16Slot
BY DEF Mac16Slot, Af16Slot, Slots

(* What booking does to a slot. *)
LEMMA NoteReadyType ==
  ASSUME NEW sl \in [Slots -> SlotType], NEW op, NEW c \in Int, NEW r \in Int
  PROVE  note_ready(sl, op, c, r) \in [Slots -> SlotType]
BY DEF note_ready, Later, SlotType

LEMMA NoteReadySlot ==
  ASSUME NEW sl \in [Slots -> SlotType], NEW op, NEW c \in Int, NEW r \in Int, NEW s \in Slots
  PROVE  /\ s \in resolve_slots(op) =>
              /\ note_ready(sl, op, c, r)[s].issue_ready_clk = Later(sl[s].issue_ready_clk, c + r)
              /\ note_ready(sl, op, c, r)[s].visible_ready_clk = Later(sl[s].visible_ready_clk, c + r)
              /\ note_ready(sl, op, c, r)[s].produced_epoch = sl[s].produced_epoch + 1
         /\ s \notin resolve_slots(op) => note_ready(sl, op, c, r)[s] = sl[s]
BY DEF note_ready

(* Type correctness of the issue loop and its scoreboard. *)
THEOREM TypeCorrect == Spec => []TypeOK
<1>1. Init => TypeOK
  <2> SUFFICES ASSUME Init PROVE TypeOK
    OBVIOUS
  <2>1. issued \in BOOLEAN /\ failed \in BOOLEAN
    BY Zenon DEF Init
  <2>2. slots \in [Slots -> SlotType]
    BY DEF Init, reset, SlotType
  <2> QED
    BY <2>1, <2>2 DEF Init, TypeOK
<1>2. TypeOK /\ [Next]_vars => TypeOK'
  <2> SUFFICES ASSUME TypeOK, [Next]_vars PROVE TypeOK'
    OBVIOUS
  <2> USE DEF TypeOK
  <2>1. CASE Tick
    <3>1. issued' \in BOOLEAN /\ failed' \in BOOLEAN
      BY <2>1, Zenon DEF Tick
    <3> QED
      BY <2>1, <3>1 DEF Tick
  <2>2. ASSUME NEW op \in ComputeOps, NEW rtl \in Latencies, IssueProducer(op, rtl) PROVE TypeOK'
    <3>1. rtl \in Int /\ (IF Gating THEN rtl ELSE 0) \in Int /\ clk + rtl \in Int
      BY GatingAssumption
    <3>2. slots' \in [Slots -> SlotType]
      BY <2>2, <3>1, NoteReadyType DEF IssueProducer, note_compute_ready
    <3> QED
      BY <2>2, <3>1, <3>2 DEF IssueProducer
  <2>3. ASSUME NEW op \in ComputeOps, IssueConsumer(op) PROVE TypeOK'
    BY <2>3 DEF IssueConsumer
  <2>4. ASSUME NEW op \in ComputeOps, GateThrows(op) PROVE TypeOK'
    BY <2>4 DEF GateThrows
  <2>5. CASE UNCHANGED vars
    BY <2>5 DEF vars
  <2> QED
    BY <2>1, <2>2, <2>3, <2>4, <2>5 DEF Next
<1> QED
  BY <1>1, <1>2, PTL DEF Spec

(* Whatever the unit works on, its slot is booked, and a booked bank slot  *)
(* always comes with the shared one.                                       *)
LEMMA BookedSlots ==
  ASSUME NEW op \in Producers
  PROVE  /\ \A b \in Banks : b \in MacBanks(op) => Mac16Slot \in resolve_slots(op)
         /\ \A b \in Banks : MacSlot(b) \in resolve_slots(op) => Mac16Slot \in resolve_slots(op)
         /\ op.command = "AF16" => Af16Slot \in resolve_slots(op)
         /\ \A g \in BankGroups : g \in EwmulGroups(op) => EwmulSlot(g) \in resolve_slots(op)
<1> USE GatingAssumption DEF resolve_slots, MacBanks, EwmulGroups
<1>1. CASE op \in {[command |-> "MAC", arg |-> b] : b \in Banks}
  BY <1>1
<1>2. CASE op = [command |-> "MAC16", arg |-> 0]
  BY <1>2
<1>3. CASE op = [command |-> "AF16", arg |-> 0]
  BY <1>3 DEF MacSlot, Af16Slot
<1>4. CASE op \in {[command |-> "EWMUL16", arg |-> g] : g \in {0} \union {h + 1 : h \in BankGroups}}
  <2>1. PICK g \in {0} \union {h + 1 : h \in BankGroups} : op = [command |-> "EWMUL16", arg |-> g]
    BY <1>4
  <2>2. op.command = "EWMUL16" /\ op.arg = g /\ g \in Nat
    BY <2>1
  <2>3. \A b \in Banks : MacSlot(b) \notin resolve_slots(op)
    BY <2>2 DEF MacSlot, EwmulSlot
  <2>4. \A h \in BankGroups : h \in EwmulGroups(op) => EwmulSlot(h) \in resolve_slots(op)
    BY <2>2
  <2> QED
    BY <2>2, <2>3, <2>4
<1> QED
  BY <1>1, <1>2, <1>3, <1>4 DEF Producers

(***************************************************************************)
(* The inductive invariant: the shared slot covers every bank, every slot  *)
(* covers its unit, the two clocks of a slot agree, and an unproduced slot *)
(* has no clock.  The action properties below follow from it; none of them *)
(* is inductive without the shared-slot part.                              *)
(***************************************************************************)
THEOREM InductiveInvariant == Spec => []IInv
<1>1. Init => IInv
  <2> SUFFICES ASSUME Init PROVE IInv
    OBVIOUS
  <2>1. issued \in BOOLEAN /\ failed \in BOOLEAN
    BY Zenon DEF Init
  <2>2. \A s \in Slots : /\ slots[s].issue_ready_clk = -1 /\ slots[s].visible_ready_clk = -1
                         /\ slots[s].produced_epoch = 0
    BY DEF Init, reset
  <2>3. slots \in [Slots -> SlotType]
    BY DEF Init, reset, SlotType
  <2>4. SharedSlotCoversBanks
    <3>1. \A b \in Banks : MacSlot(b) \in Slots /\ mac_end[b] = -1
      BY DEF Init, Slots
    <3>2. slots[Mac16Slot].issue_ready_clk = -1
      BY <2>2, SharedSlots
    <3>3. \A b \in Banks : slots[MacSlot(b)].issue_ready_clk = -1
      BY <2>2, <3>1
    <3>4. -1 <= -1
      OBVIOUS
    <3> QED
      BY <3>1, <3>2, <3>3, <3>4, Zenon DEF SharedSlotCoversBanks
  <2>5. SlotsCoverUnits
    <3>1. \A g \in BankGroups : EwmulSlot(g) \in Slots /\ ewmul_end[g] = -1
      BY DEF Init, Slots
    <3> QED
      BY <2>2, <3>1, SharedSlots DEF Init, SlotsCoverUnits
  <2> QED
    BY <2>1, <2>2, <2>3, <2>4, <2>5 DEF Init, IInv, TypeOK, EpochMatchesClock
<1>2. IInv /\ TypeOK' /\ [Next]_vars => IInv'
  <2> SUFFICES ASSUME IInv, TypeOK', [Next]_vars PROVE IInv'
    OBVIOUS
  <2> USE DEF IInv
  <2>1. CASE UNCHANGED <<slots, mac_end, af_end, ewmul_end>>
    BY <2>1 DEF SharedSlotCoversBanks, SlotsCoverUnits, EpochMatchesClock
  <2>2. ASSUME NEW op \in ComputeOps, NEW rtl \in Latencies, IssueProducer(op, rtl) PROVE IInv'
    <3> DEFINE r == IF Gating THEN rtl ELSE 0
    <3>1. rtl \in Nat /\ r \in Nat /\ clk \in Nat /\ slots \in [Slots -> SlotType]
          /\ op \in Producers /\ (Gating => r = rtl)
      BY <2>2, GatingAssumption DEF TypeOK, IssueProducer
    <3>2. CASE ~(rtl > 0)
      <4>1. slots' = slots /\ af_end' = af_end
        BY <2>2, <3>2 DEF IssueProducer
      <4>2. \A b \in Banks : mac_end'[b] = mac_end[b]
        BY <2>2, <3>2 DEF IssueProducer
      <4>3. \A g \in BankGroups : ewmul_end'[g] = ewmul_end[g]
        BY <2>2, <3>2 DEF IssueProducer
      <4> QED
        BY <4>1, <4>2, <4>3 DEF SharedSlotCoversBanks, SlotsCoverUnits, EpochMatchesClock
    <3>3. CASE rtl > 0
      <4>1. slots' = note_ready(slots, op, clk, r)
        BY <2>2, <3>3 DEF IssueProducer, note_compute_ready
      <4>2. \A s \in Slots : slots[s] \in SlotType /\ slots'[s] \in SlotType
        BY <3>1 DEF TypeOK
      <4>3. \A s \in Slots :
              /\ s \in resolve_slots(op) =>
                   /\ slots'[s].issue_ready_clk = Later(slots[s].issue_ready_clk, clk + r)
                   /\ slots'[s].visible_ready_clk = Later(slots[s].visible_ready_clk, clk + r)
                   /\ slots'[s].produced_epoch = slots[s].produced_epoch + 1
              /\ s \notin resolve_slots(op) => slots'[s] = slots[s]
        BY <3>1, <4>1, NoteReadySlot
      <4>4. SharedSlotCoversBanks'
        <5> SUFFICES ASSUME Gating, NEW b \in Banks
                     PROVE  /\ mac_end'[b] <= slots'[Mac16Slot].issue_ready_clk
                            /\ slots'[MacSlot(b)].issue_ready_clk <= slots'[Mac16Slot].issue_ready_clk
          BY DEF SharedSlotCoversBanks
        <5>1. MacSlot(b) \in Slots /\ Mac16Slot \in Slots
          BY SharedSlots DEF Slots
        <5>2. /\ mac_end[b] <= slots[Mac16Slot].issue_ready_clk
              /\ slots[MacSlot(b)].issue_ready_clk <= slots[Mac16Slot].issue_ready_clk
          BY DEF SharedSlotCoversBanks
        <5>3. mac_end[b] \in Int /\ slots[Mac16Slot].issue_ready_clk \in Int
              /\ slots[MacSlot(b)].issue_ready_clk \in Int
          BY <4>2, <5>1 DEF TypeOK, SlotType
        <5>4. mac_end'[b] = IF b \in MacBanks(op) THEN clk + r ELSE mac_end[b]
          BY <2>2, <3>1, <3>3 DEF IssueProducer
        <5>5. CASE Mac16Slot \in resolve_slots(op)
          <6>1. slots'[Mac16Slot].issue_ready_clk = Later(slots[Mac16Slot].issue_ready_clk, clk + r)
            BY <4>3, <5>1, <5>5
          <6>2. slots'[MacSlot(b)].issue_ready_clk \in
                  {Later(slots[MacSlot(b)].issue_ready_clk, clk + r), slots[MacSlot(b)].issue_ready_clk}
            BY <4>3, <5>1
          <6> QED
            BY <3>1, <5>2, <5>3, <5>4, <6>1, <6>2 DEF Later
        <5>6. CASE Mac16Slot \notin resolve_slots(op)
          <6>1. b \notin MacBanks(op) /\ MacSlot(b) \notin resolve_slots(op)
            BY <3>1, <5>6, BookedSlots
          <6> QED
            BY <4>3, <5>1, <5>2, <5>4, <5>6, <6>1
        <5> QED
          BY <5>5, <5>6
      <4>5. SlotsCoverUnits'
        <5>1. \A s \in Slots : slots'[s].issue_ready_clk = slots'[s].visible_ready_clk
          BY <4>3 DEF SlotsCoverUnits
        <5>2. ASSUME Gating PROVE af_end' <= slots'[Af16Slot].visible_ready_clk
          <6>1. af_end <= slots[Af16Slot].visible_ready_clk /\ af_end \in Int
                /\ slots[Af16Slot].visible_ready_clk \in Int
            BY <4>2, <5>2, SharedSlots DEF SlotsCoverUnits, TypeOK, SlotType
          <6>2. af_end' = IF op.command = "AF16" THEN clk + r ELSE af_end
            BY <2>2, <3>1, <3>3, <5>2 DEF IssueProducer
          <6>3. CASE Af16Slot \in resolve_slots(op)
            BY <3>1, <4>3, <6>1, <6>2, <6>3, SharedSlots DEF Later
          <6>4. CASE Af16Slot \notin resolve_slots(op)
            BY <3>1, <4>3, <6>1, <6>2, <6>4, SharedSlots, BookedSlots
          <6> QED
            BY <6>3, <6>4
        <5>3. ASSUME Gating, NEW g \in BankGroups
              PROVE  ewmul_end'[g] <= slots'[EwmulSlot(g)].issue_ready_clk
          <6>0. EwmulSlot(g) \in Slots
            BY DEF Slots
          <6>1. ewmul_end[g] <= slots[EwmulSlot(g)].issue_ready_clk /\ ewmul_end[g] \in Int
                /\ slots[EwmulSlot(g)].issue_ready_clk \in Int
            BY <4>2, <5>3, <6>0 DEF SlotsCoverUnits, TypeOK, SlotType
          <6>2. ewmul_end'[g] = IF g \in EwmulGroups(op) THEN clk + r ELSE ewmul_end[g]
            BY <2>2, <3>1, <3>3, <5>3 DEF IssueProducer
          <6>3. CASE EwmulSlot(g) \in resolve_slots(op)
            BY <3>1, <4>3, <6>0, <6>1, <6>2, <6>3 DEF Later
          <6>4. CASE EwmulSlot(g) \notin resolve_slots(op)
            BY <3>1, <4>3, <6>0, <6>1, <6>2, <6>4, BookedSlots
          <6> QED
            BY <6>3, <6>4
        <5> QED
          BY <5>1, <5>2, <5>3 DEF SlotsCoverUnits
      <4>6. EpochMatchesClock'
        <5> SUFFICES ASSUME NEW s \in Slots
                     PROVE  slots'[s].produced_epoch = 0 <=> slots'[s].issue_ready_clk = -1
          BY DEF EpochMatchesClock
        <5>1. slots[s].produced_epoch \in Nat /\ slots[s].issue_ready_clk \in Int
          BY <4>2 DEF SlotType
        <5>2. CASE s \in resolve_slots(op)
          BY <3>1, <4>3, <5>1, <5>2 DEF Later
        <5>3. CASE s \notin resolve_slots(op)
          BY <4>3, <5>3 DEF EpochMatchesClock
        <5> QED
          BY <5>2, <5>3
      <4> QED
        BY <4>4, <4>5, <4>6
    <3> QED
      BY <3>2, <3>3
  <2> QED
    BY <2>1, <2>2 DEF Next, Tick, IssueConsumer, GateThrows, vars
<1> QED
  BY <1>1, <1>2, TypeCorrect, PTL DEF Spec

(***************************************************************************)
(* With gating on, no MAC or MAC16 is issued while one still runs on any   *)
(* bank of the unit.                                                       *)
(***************************************************************************)
THEOREM MacIsolation == Spec => MacsNeverOverlap
<1>1. IInv /\ [Next]_vars => [Gating /\ mac_end' # mac_end => \A b \in Banks : mac_end[b] <= clk]_vars
  <2> SUFFICES ASSUME IInv, Next, Gating, mac_end' # mac_end, NEW b \in Banks
               PROVE  mac_end[b] <= clk
    OBVIOUS
  <2>1. PICK op \in ComputeOps, rtl \in Latencies : IssueProducer(op, rtl)
    BY DEF Next, Tick, IssueConsumer, GateThrows
  <2>2. op \in Producers /\ gate_status(slots, op, clk) = "Pass"
    BY <2>1 DEF IssueProducer, CanIssue
  <2>3. Mac16Slot \in resolve_slots(op)
    <3>1. PICK c \in Banks : c \in MacBanks(op)
      <4>1. ~(\E c \in Banks : c \in MacBanks(op)) => mac_end' = [c \in Banks |-> mac_end[c]]
        BY <2>1 DEF IssueProducer
      <4>2. mac_end = [c \in Banks |-> mac_end[c]]
        BY DEF IInv, TypeOK
      <4> QED
        BY <4>1, <4>2
    <3> QED
      BY <2>2, <3>1, BookedSlots
  <2>4. slots[Mac16Slot].issue_ready_clk # -1 => slots[Mac16Slot].issue_ready_clk <= clk
    BY <2>2, <2>3 DEF gate_status, ProducerReady
  <2>5. mac_end[b] <= slots[Mac16Slot].issue_ready_clk
    BY DEF IInv, SharedSlotCoversBanks
  <2>6. mac_end[b] \in Int /\ slots[Mac16Slot].issue_ready_clk \in Int /\ clk \in Nat
    BY SharedSlots DEF IInv, TypeOK, SlotType
  <2> QED
    BY <2>4, <2>5, <2>6
<1> QED
  BY <1>1, InductiveInvariant, PTL DEF Spec, MacsNeverOverlap

(***************************************************************************)
(* With gating on, a read of MAC results or activations is issued only     *)
(* when what it reads is finished.                                         *)
(***************************************************************************)
THEOREM ReadsAreFinal == Spec => ReadsSeeFinished
<1>1. IInv /\ [Next]_vars =>
        [\A op \in Consumers : Gating /\ IssueConsumer(op) =>
           IF op.command = "RDMAC16" THEN \A b \in Banks : mac_end[b] <= clk ELSE af_end <= clk]_vars
  <2> SUFFICES ASSUME IInv, NEW op \in Consumers, Gating, IssueConsumer(op)
               PROVE  IF op.command = "RDMAC16" THEN \A b \in Banks : mac_end[b] <= clk
                      ELSE af_end <= clk
    OBVIOUS
  <2>1. gate_status(slots, op, clk) = "Pass"
    BY DEF IssueConsumer, CanIssue
  <2>2. op.command \in {"RDMAC16", "RDAF16"} /\ op \notin Producers
    BY DEF Consumers, Producers
  <2>3. ResultVisible(slots, op, clk)
    BY <2>1, <2>2 DEF gate_status
  <2>4. CASE op.command = "RDMAC16"
    <3>1. slots[Mac16Slot].visible_ready_clk <= clk
      BY <2>3, <2>4 DEF ResultVisible, resolve_slots
    <3>2. slots[Mac16Slot].issue_ready_clk = slots[Mac16Slot].visible_ready_clk
      BY SharedSlots DEF IInv, SlotsCoverUnits
    <3>3. \A b \in Banks : mac_end[b] \in Int /\ mac_end[b] <= slots[Mac16Slot].issue_ready_clk
      BY DEF IInv, TypeOK, SharedSlotCoversBanks
    <3>4. slots[Mac16Slot].issue_ready_clk \in Int /\ clk \in Nat
      BY SharedSlots DEF IInv, TypeOK, SlotType
    <3> QED
      BY <2>4, <3>1, <3>2, <3>3, <3>4
  <2>5. CASE op.command = "RDAF16"
    <3>1. slots[Af16Slot].visible_ready_clk <= clk
      BY <2>3, <2>5 DEF ResultVisible, resolve_slots
    <3>2. af_end <= slots[Af16Slot].visible_ready_clk
      BY DEF IInv, SlotsCoverUnits
    <3>3. af_end \in Int /\ slots[Af16Slot].visible_ready_clk \in Int /\ clk \in Nat
      BY SharedSlots DEF IInv, TypeOK, SlotType
    <3> QED
      BY <2>5, <3>1, <3>2, <3>3
  <2> QED
    BY <2>2, <2>4, <2>5
<1> QED
  BY <1>1, InductiveInvariant, PTL DEF Spec, ReadsSeeFinished
(***************************************************************************)
(* With gating on, an activation or an element-wise product never starts   *)
(* over a running one of the same unit or bank group.                      *)
(***************************************************************************)
THEOREM UnitIsolation == Spec => UnitsNeverOverlap
<1>1. IInv /\ [Next]_vars =>
        [Gating => /\ af_end' # af_end => af_end <= clk
                   /\ \A g \in BankGroups : ewmul_end'[g] # ewmul_end[g] => ewmul_end[g] <= clk]_vars
  <2> SUFFICES ASSUME IInv, Next, Gating
               PROVE  /\ af_end' # af_end => af_end <= clk
                      /\ \A g \in BankGroups :
                           ewmul_end'[g] # ewmul_end[g] => ewmul_end[g] <= clk
    OBVIOUS
  <2>1. clk \in Nat /\ af_end \in Int /\ \A g \in BankGroups : ewmul_end[g] \in Int
    BY DEF IInv, TypeOK
  <2>2. CASE \E op \in ComputeOps, rtl \in Latencies : IssueProducer(op, rtl)
    <3>1. PICK op \in ComputeOps, rtl \in Latencies : IssueProducer(op, rtl)
      BY <2>2
    <3>2. op \in Producers /\ gate_status(slots, op, clk) = "Pass"
      BY <3>1 DEF IssueProducer, CanIssue
    <3>3. \A s \in resolve_slots(op) : slots[s].issue_ready_clk # -1 => slots[s].issue_ready_clk <= clk
      BY <3>2 DEF gate_status, ProducerReady
    <3>4. ASSUME af_end' # af_end PROVE af_end <= clk
      <4>1. op.command = "AF16"
        BY <3>1, <3>4 DEF IssueProducer
      <4>2. Af16Slot \in resolve_slots(op)
        BY <3>2, <4>1, BookedSlots
      <4>3. af_end <= slots[Af16Slot].issue_ready_clk /\ slots[Af16Slot].issue_ready_clk \in Int
        BY SharedSlots DEF IInv, SlotsCoverUnits, TypeOK, SlotType
      <4> QED
        BY <2>1, <3>3, <4>2, <4>3
    <3>5. ASSUME NEW g \in BankGroups, ewmul_end'[g] # ewmul_end[g] PROVE ewmul_end[g] <= clk
      <4>1. g \in EwmulGroups(op)
        BY <3>1, <3>5 DEF IssueProducer
      <4>2. EwmulSlot(g) \in resolve_slots(op)
        BY <3>2, <4>1, BookedSlots
      <4>3. EwmulSlot(g) \in Slots
        BY DEF Slots
      <4>4. /\ ewmul_end[g] <= slots[EwmulSlot(g)].issue_ready_clk
            /\ slots[EwmulSlot(g)].issue_ready_clk \in Int
        BY <4>3 DEF IInv, SlotsCoverUnits, TypeOK, SlotType
      <4> QED
        BY <2>1, <3>3, <4>2, <4>4
    <3> QED
      BY <3>4, <3>5
  <2>3. CASE UNCHANGED <<af_end, ewmul_end>>
    BY <2>3
  <2> QED
    BY <2>2, <2>3 DEF Next, Tick, IssueConsumer, GateThrows
<1> QED
  BY <1>1, InductiveInvariant, PTL DEF Spec, UnitsNeverOverlap
=============================================================================
