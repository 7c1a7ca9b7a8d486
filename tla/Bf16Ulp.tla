------------------------------ MODULE Bf16Ulp ------------------------------
(***************************************************************************)
(* How the scripts compare BF16 results: the distance in units of the last *)
(* place, its vectorised twin, the truncation of a float32 reference, and  *)
(* the element tables and summaries of generate_summer26_llm_figures.py.   *)
(*                                                                         *)
(* A BF16 number is its bit pattern; Sign is the sign bit (0x8000) and Inf *)
(* the pattern of infinity (0x7F80).  Patterns of one sign are ordered as  *)
(* their values are, so a value is its signed magnitude.  A float32 is a   *)
(* pattern with Low (0x10000) times as many steps.                         *)
(***************************************************************************)
EXTENDS Integers, Sequences, FiniteSets, FiniteSetsExt

CONSTANTS Sign, Inf, Low,
          Results,       \* RTL and GPU results to consider
          References,    \* float32 results of the CPU to consider
          MaxElements    \* bound on the elements of a projection

ASSUME UlpAssumption ==
  /\ Sign \in Nat \ {0} /\ Inf \in Nat \ {0} /\ Inf < Sign /\ Low \in Nat \ {0}

ASSUME InputAssumption ==
  /\ Results \subseteq 0 .. 2 * Sign - 1 /\ References \subseteq 0 .. 2 * Sign * Low - 1
  /\ MaxElements \in Nat

Bits == 0 .. 2 * Sign - 1
Magnitude(b) == IF b < Sign THEN b ELSE b - Sign
Value(b) == IF b < Sign THEN b ELSE Sign - b
IsNaN(b) == Magnitude(b) > Inf
Abs(x) == IF x < 0 THEN -x ELSE x

(* bf16_ordered_int: an integer that orders the patterns as their values   *)
(* are ordered, both zeros alike.                                          *)
bf16_ordered_int(b) ==
  IF b \in {0, Sign} THEN Sign
  ELSE IF b >= Sign THEN 2 * Sign - 1 - b ELSE b + Sign

(* Mutant: negative patterns are counted from the sign bit upwards. *)
Mut_distance(left, right) == Abs(Magnitude(left) - Magnitude(right))

bf16_ulp_distance(left, right) == Abs(bf16_ordered_int(left) - bf16_ordered_int(right))

(* Mutant: the negative zero is not folded into the positive one. *)
Mut_ordered_array(values) ==
  [i \in DOMAIN values |-> IF values[i] >= Sign THEN 2 * Sign - 1 - values[i]
                                                ELSE values[i] + Sign]

(* bf16_ordered_array: both signs first, then the zeros.                   *)
bf16_ordered_array(values) ==
  LET ordered == [i \in DOMAIN values |->
                    IF values[i] >= Sign THEN 2 * Sign - 1 - values[i] ELSE values[i] + Sign]
  IN  [i \in DOMAIN values |-> IF Magnitude(values[i]) = 0 THEN Sign ELSE ordered[i]]

bf16_ulp_distance_array(left, right) ==
  [i \in DOMAIN left |-> Abs(bf16_ordered_array(left)[i] - bf16_ordered_array(right)[i])]

(* float32_to_bf16 drops the low half of the pattern.                      *)
float32_to_bf16(y) == y \div Low
bf16_to_float32(b) == b * Low
bf16_roundtrip_ok(b) == IsNaN(b) \/ float32_to_bf16(bf16_to_float32(b)) = b

---------------------------------------------------------------------------
(* Element tables.                                                         *)

VARIABLES stage,          \* FIGURE1A_OUTPUT_STAGE
          element_rows    \* the elements collected

vars == <<stage, element_rows>>

Stages == {"pre_activation", "post_activation"}
relu(b) == IF stage = "post_activation" /\ b >= Sign THEN 0 ELSE b

Init == stage \in Stages /\ element_rows = <<>>

(* One element: the RTL's and the GPU's result and the truncated one of    *)
(* the CPU, with the distances from the RTL.                               *)
Collect ==
  /\ Len(element_rows) < MaxElements
  /\ \E r, g \in Results, y \in References :
       LET rtl == relu(r)
           gpu == relu(g)
           cpu == float32_to_bf16(IF stage = "post_activation" /\ y >= Sign * Low THEN 0 ELSE y)
       IN  element_rows' = Append(element_rows,
             [rtl |-> rtl, cpu |-> cpu, gpu |-> gpu,
              cpu_ulp |-> bf16_ulp_distance(rtl, cpu), gpu_ulp |-> bf16_ulp_distance(rtl, gpu)])
  /\ UNCHANGED stage

Next == Collect
Spec == Init /\ [][Next]_vars

Column(field) == [i \in DOMAIN element_rows |-> element_rows[i][field]]
(* The rows of the tables, as a set.                                       *)
Rows == {element_rows[i] : i \in DOMAIN element_rows}
(* How many rows are in S.                                                 *)
Count(S) == Cardinality({i \in DOMAIN element_rows : element_rows[i] \in S})

(* is_gpu_relu_boundary_flip: only the GPU's result became zero.           *)
is_gpu_relu_boundary_flip(row) == row.gpu = 0 /\ row.rtl # 0 /\ row.cpu # 0

Ignored(row) == stage = "post_activation" /\ is_gpu_relu_boundary_flip(row)

(* summarize_figure1a_ulp.                                                 *)
summarize_figure1a_ulp ==
  [total |-> Len(element_rows),
   cpu_gt1 |-> Count({row \in Rows : row.cpu_ulp > 1}),
   ignored |-> IF stage = "pre_activation" THEN 0
               ELSE Count({row \in Rows : row.gpu_ulp > 1 /\ is_gpu_relu_boundary_flip(row)}),
   gpu_gt1 |-> Count({row \in Rows : row.gpu_ulp > 1 /\ ~Ignored(row)}),
   cpu_max |-> Max({row.cpu_ulp : row \in Rows} \union {0}),
   gpu_max |-> Max({row.gpu_ulp : row \in {other \in Rows : ~Ignored(other)}} \union {0})]

(* summarize_outlier_magnitude_rows: the worst element has the largest     *)
(* distance, among those the largest error.                                *)
worst ==
  CHOOSE row \in Rows :
    \A i \in DOMAIN element_rows :
      LET other == element_rows[i]
          Error(x) == Abs(Value(x.rtl) - Value(x.gpu))
      IN  \/ other.gpu_ulp < row.gpu_ulp
          \/ other.gpu_ulp = row.gpu_ulp /\ Error(other) <= Error(row)

(* compare_bits of two columns of the same length.                         *)
compare_bits(candidate, reference) ==
  LET diff == bf16_ulp_distance_array(candidate, reference)
      AtMost(n) == Cardinality({i \in DOMAIN diff : diff[i] <= n})
  IN  [exact |-> AtMost(0), within_1 |-> AtMost(1), within_2 |-> AtMost(2),
       den |-> Len(candidate), max_ulp |-> Max({diff[i] : i \in DOMAIN diff} \union {0})]

(* validate_figure1b_bf16_values: what it counts as wrong.                 *)
check_failures ==
  Count({row \in Rows :
           \/ \E b \in {row.rtl, row.cpu, row.gpu} : ~bf16_roundtrip_ok(b)
           \/ row.cpu_ulp # bf16_ulp_distance(row.rtl, row.cpu)
           \/ row.gpu_ulp # bf16_ulp_distance(row.rtl, row.gpu)})

---------------------------------------------------------------------------

(* An element that was collected is three 16-bit patterns.                 *)
TypeOK ==
  /\ stage \in Stages
  /\ \A i \in DOMAIN element_rows : {element_rows[i].rtl, element_rows[i].cpu,
                                     element_rows[i].gpu} \subseteq Bits

(* The distance is zero for equal values only and is the number of steps   *)
(* between two values, one more if just one of them is negative (zero to   *)
(* the smallest negative number counts as two); a detour over the CPU's    *)
(* result is never shorter.                                                *)
DistanceIsMetric ==
  \A i \in DOMAIN element_rows :
    LET row == element_rows[i]
        gap == Abs(Value(row.rtl) - Value(row.gpu))
        apart == (Value(row.rtl) < 0) # (Value(row.gpu) < 0)
    IN  /\ row.gpu_ulp = 0 <=> Value(row.rtl) = Value(row.gpu)
        /\ row.gpu_ulp = gap + (IF apart THEN 1 ELSE 0)
        /\ row.gpu_ulp <= row.cpu_ulp + bf16_ulp_distance(row.cpu, row.gpu)

(* The aggregates of compare_bits, computed on whole arrays, and the       *)
(* summary of the elements count the same elements.                        *)
SummariesAgree ==
  LET cpu == compare_bits(Column("cpu"), Column("rtl"))
      gpu == compare_bits(Column("rtl"), Column("gpu"))
      summary == summarize_figure1a_ulp
  IN  /\ cpu.den - cpu.within_1 = summary.cpu_gt1 /\ cpu.max_ulp = summary.cpu_max
      /\ gpu.den - gpu.within_1 = summary.gpu_gt1 + summary.ignored
      /\ element_rows # <<>> => gpu.max_ulp = worst.gpu_ulp
      /\ check_failures = 0
=============================================================================
