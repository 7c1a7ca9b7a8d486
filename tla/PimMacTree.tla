----------------------------- MODULE PimMacTree -----------------------------
(***************************************************************************)
(* The control pipeline of the RTL processing unit (pim_mac_tree_mag32.v   *)
(* and the adder_tree, accumulator_param and activation_unit it            *)
(* instantiates), one operator per clocked block.  Clock(d, p) is the      *)
(* register state after one rising edge from registers d with input pins   *)
(* p; nothing else changes a register.                                     *)
(*                                                                         *)
(* Numbers are abstracted to where they came from: a MAC transaction is    *)
(* an identifier, the products it adds are {id}, the bias it adds is       *)
(* {-id}, and an accumulator holds the set of contributions summed in it.  *)
(* The sixteen all-bank datapaths run in lock step, so they share one set; *)
(* a lane of a 256-bit result says which datapath it was taken from.       *)
(***************************************************************************)
EXTENDS Integers

CONSTANT Lanes      \* lanes of a result word (0..15 in the RTL)

ASSUME LanesAssumption == 0 \in Lanes /\ Lanes \subseteq Nat

Units == {"scalar", "abk"}

NoTransaction == 0  \* an empty pipeline stage (its valid bit is 0)

ScalarLane == -1    \* the datapath of a value computed by the scalar unit

(* Mutant: the activation unit is one cycle slower. *)
MutAfLatency == 5

(* localparam of activation_unit. *)
AF_FIXED_LATENCY == 4

(***************************************************************************)
(* A lane of a result: the datapath it was computed by and the             *)
(* contributions summed into it.  Flat is the 16-lane word that a unit's   *)
(* result is stored as: the scalar result is broadcast.                    *)
(***************************************************************************)
LaneValue(lane, sum) == [lane |-> lane, sum |-> sum]

Flat(u, sum) ==
  [l \in Lanes |-> LaneValue(IF u = "scalar" THEN ScalarLane ELSE l, sum)]

ZeroFlat == [l \in Lanes |-> LaneValue(ScalarLane, {})]

(* Register state after reset; --x-initial fast gives the same one at      *)
(* construction.                                                           *)
ResetState ==
  [ s1        |-> [u \in Units |-> NoTransaction],   \* adder_tree s1_valid
    tree      |-> [u \in Units |-> NoTransaction],   \* adder_tree o_done
    ctl0      |-> [acc_en |-> FALSE, bias_en |-> FALSE],
    ctl1      |-> [acc_en |-> FALSE, bias_en |-> FALSE],
    left      |-> [u \in Units |-> {}],              \* s_accum_l
    right     |-> [u \in Units |-> {}],              \* s_accum_r
    toggle    |-> [u \in Units |-> FALSE],           \* s_lr_toggle
    acc_done  |-> [u \in Units |-> FALSE],
    acc_out   |-> [u \in Units |-> {}],
    last_bf16 |-> LaneValue(ScalarLane, {}),
    mac_q     |-> ZeroFlat,          \* mac_result_flat_q, last_mac_result_flat_q
    af_cnt    |-> [u \in Units |-> 0],               \* 0: not busy
    af_latch  |-> [u \in Units |-> ZeroFlat],
    af_done   |-> [u \in Units |-> FALSE],
    af_out    |-> [u \in Units |-> ZeroFlat],
    af_q      |-> ZeroFlat,          \* lanes the activation was applied to
    ew_done   |-> FALSE,
    ew_q      |-> NoTransaction,
    o_done    |-> FALSE ]

(* Start mode split. *)
mac_start(p, u) ==
  p.i_start /\ ~p.i_af_en /\ ~p.i_ewmul_en /\ (p.i_all_bank_vector_en <=> u = "abk")

af_start(p, u) ==
  p.i_start /\ p.i_af_en /\ (p.i_all_bank_vector_en <=> u = "abk")

ewmul_start(p) == p.i_start /\ p.i_ewmul_en

(* adder_tree: two stages, each valid for one cycle. *)
s1_next(d, p) ==
  [u \in Units |-> IF mac_start(p, u) THEN p.operand ELSE NoTransaction]

tree_next(d) == d.s1

(* Mutant: the first control stage is not cleared without a start. *)
MutCtl0Held(d, p) ==
  IF \E u \in Units : mac_start(p, u)
    THEN [acc_en |-> p.i_acc_en, bias_en |-> p.i_bias_en]
    ELSE d.ctl0

(* Accumulator control pipeline: controls travel beside the operands. *)
ctl0_next(d, p) ==
  IF \E u \in Units : mac_start(p, u)
    THEN [acc_en |-> p.i_acc_en, bias_en |-> p.i_bias_en]
    ELSE [acc_en |-> FALSE, bias_en |-> FALSE]

ctl1_next(d) == d.ctl0

(* Mutant: folding the biased sum into the left lane keeps the right one.  *)
MutFoldKeepsRight(d, u) ==
  LET id    == d.tree[u]
      seedL == IF d.ctl1.acc_en THEN d.left[u] ELSE {}
      seedR == IF d.ctl1.acc_en THEN d.right[u] ELSE {}
      workL == IF d.toggle[u] THEN seedL ELSE seedL \union {id}
      workR == IF d.toggle[u] THEN seedR \union {id} ELSE seedR
      merge == workL \union workR \union (IF d.ctl1.bias_en THEN {-id} ELSE {})
      fold  == d.ctl1.bias_en /\ ~d.ctl1.acc_en
  IN  IF id = NoTransaction
        THEN [left |-> d.left[u], right |-> d.right[u], toggle |-> d.toggle[u],
              done |-> FALSE, out |-> d.acc_out[u]]
        ELSE [left |-> IF fold THEN merge ELSE workL, right |-> workR,
              toggle |-> ~d.toggle[u], done |-> TRUE, out |-> merge]

(***************************************************************************)
(* accumulator_param: the lane the toggle selects takes the new products   *)
(* (over nothing when acc_en is low); the result is the merge of both      *)
(* lanes, with the bias when bias_en.  A biased first step folds the       *)
(* result back into the left lane, a biased accumulating one does not.     *)
(***************************************************************************)
Accumulate(d, u) ==
  LET id    == d.tree[u]
      seedL == IF d.ctl1.acc_en THEN d.left[u] ELSE {}
      seedR == IF d.ctl1.acc_en THEN d.right[u] ELSE {}
      workL == IF d.toggle[u] THEN seedL ELSE seedL \union {id}
      workR == IF d.toggle[u] THEN seedR \union {id} ELSE seedR
      merge == workL \union workR \union (IF d.ctl1.bias_en THEN {-id} ELSE {})
      fold  == d.ctl1.bias_en /\ ~d.ctl1.acc_en
  IN  IF id = NoTransaction
        THEN [left |-> d.left[u], right |-> d.right[u], toggle |-> d.toggle[u],
              done |-> FALSE, out |-> d.acc_out[u]]
        ELSE [left |-> IF fold THEN merge ELSE workL,
              right |-> IF fold THEN {} ELSE workR,
              toggle |-> ~d.toggle[u], done |-> TRUE, out |-> merge]

(* Mutant: a scalar result is not published. *)
MutScalarLost(d) == IF d.acc_done["abk"] THEN Flat("abk", d.acc_out["abk"]) ELSE d.mac_q

(***************************************************************************)
(* Result registers.  The all-bank assignment comes after the scalar one   *)
(* in the clocked block, so it wins when both are done.                    *)
(***************************************************************************)
mac_q_next(d) ==
  IF d.acc_done["abk"] THEN Flat("abk", d.acc_out["abk"])
  ELSE IF d.acc_done["scalar"] THEN Flat("scalar", d.acc_out["scalar"])
  ELSE d.mac_q

last_bf16_next(d) ==
  IF d.acc_done["abk"] \/ d.acc_done["scalar"] THEN mac_q_next(d)[0] ELSE d.last_bf16

(* activation_unit: a start is ignored while busy; the input is sampled at *)
(* the start.  The scalar unit activates lane 0 and broadcasts it.         *)
af_input(d, u) ==
  IF u = "abk" THEN d.mac_q ELSE [l \in Lanes |-> d.last_bf16]

af_accepted(d, p, u) == af_start(p, u) /\ d.af_cnt[u] = 0

af_cnt_next(d, p) ==
  [u \in Units |-> IF af_accepted(d, p, u) THEN AF_FIXED_LATENCY
                   ELSE IF d.af_cnt[u] > 0 THEN d.af_cnt[u] - 1 ELSE 0]

af_latch_next(d, p) ==
  [u \in Units |-> IF af_accepted(d, p, u) THEN af_input(d, u) ELSE d.af_latch[u]]

af_done_next(d) == [u \in Units |-> d.af_cnt[u] = 1]

af_out_next(d) ==
  [u \in Units |-> IF d.af_cnt[u] = 1 THEN d.af_latch[u] ELSE d.af_out[u]]

af_q_next(d) ==
  IF d.af_done["abk"] THEN d.af_out["abk"]
  ELSE IF d.af_done["scalar"] THEN d.af_out["scalar"]
  ELSE d.af_q

ew_q_next(d, p) == IF ewmul_start(p) THEN p.operand ELSE d.ew_q

(* Output arbitration: o_done is high for one cycle per completion. *)
o_done_next(d) ==
  (\E u \in Units : d.acc_done[u] \/ d.af_done[u]) \/ d.ew_done

Clock(d, p) ==
  LET acc == [u \in Units |-> Accumulate(d, u)]
  IN  [ s1        |-> s1_next(d, p),
        tree      |-> tree_next(d),
        ctl0      |-> ctl0_next(d, p),
        ctl1      |-> ctl1_next(d),
        left      |-> [u \in Units |-> acc[u].left],
        right     |-> [u \in Units |-> acc[u].right],
        toggle    |-> [u \in Units |-> acc[u].toggle],
        acc_done  |-> [u \in Units |-> acc[u].done],
        acc_out   |-> [u \in Units |-> acc[u].out],
        last_bf16 |-> last_bf16_next(d),
        mac_q     |-> mac_q_next(d),
        af_cnt    |-> af_cnt_next(d, p),
        af_latch  |-> af_latch_next(d, p),
        af_done   |-> af_done_next(d),
        af_out    |-> af_out_next(d),
        af_q      |-> af_q_next(d),
        ew_done   |-> ewmul_start(p),
        ew_q      |-> ew_q_next(d, p),
        o_done    |-> o_done_next(d) ]
=============================================================================
