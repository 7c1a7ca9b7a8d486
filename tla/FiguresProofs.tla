---------------------------- MODULE FiguresProofs ----------------------------
(***************************************************************************)
(* The two halves of the figure script: the distance of Bf16Ulp and its    *)
(* tables for a number format of any width, and the supplemental           *)
(* measurements of FigureCoverage for any runs and any campaign.           *)
(***************************************************************************)
EXTENDS MCFigures, FiniteSetTheorems, WellFoundedInduction, TLAPS

(* The ordered integers lie on both sides of the sign bit's pattern.       *)
LEMMA OrderedType ==
  ASSUME NEW b \in Bits
  PROVE  /\ bf16_ordered_int(b) \in 0 .. 2 * Sign - 1
         /\ Value(b) \in Int
         /\ b < Sign => bf16_ordered_int(b) = Sign + Value(b)
         /\ b = Sign => bf16_ordered_int(b) = Sign + Value(b)
         /\ b > Sign => bf16_ordered_int(b) = Sign + Value(b) - 1
BY UlpAssumption, SMTT(30) DEF Bits, bf16_ordered_int, Value

(* bf16_ordered_int orders the patterns as their values are ordered, and   *)
(* patterns of the same value, the two zeros, are one integer.             *)
THEOREM OrderedAsValues ==
  ASSUME NEW a \in Bits, NEW b \in Bits
  PROVE  /\ Value(a) < Value(b) <=> bf16_ordered_int(a) < bf16_ordered_int(b)
         /\ Value(a) = Value(b) <=> bf16_ordered_int(a) = bf16_ordered_int(b)
<1>1. /\ Value(a) \in Int /\ (a <= Sign => Value(a) >= 0) /\ (a > Sign => Value(a) < 0)
      /\ Value(b) \in Int /\ (b <= Sign => Value(b) >= 0) /\ (b > Sign => Value(b) < 0)
      /\ a \in Int /\ b \in Int /\ Sign \in Int
  BY UlpAssumption DEF Bits, Value
<1>2. /\ bf16_ordered_int(a) = Sign + (IF a <= Sign THEN Value(a) ELSE Value(a) - 1)
      /\ bf16_ordered_int(b) = Sign + (IF b <= Sign THEN Value(b) ELSE Value(b) - 1)
  BY <1>1, OrderedType
<1> QED
  BY <1>1, <1>2

(* The distance is the number of steps between the values, and one more if *)
(* just one of them is negative: the smallest negative number is at two    *)
(* from zero (bf16_ordered_int).  Only equal values are at none.           *)
THEOREM DistanceCountsSteps ==
  ASSUME NEW a \in Bits, NEW b \in Bits
  PROVE  /\ bf16_ulp_distance(a, b) =
              Abs(Value(a) - Value(b)) + (IF (Value(a) < 0) # (Value(b) < 0) THEN 1 ELSE 0)
         /\ bf16_ulp_distance(a, b) = 0 <=> Value(a) = Value(b)
<1>1. /\ Value(a) \in Int /\ (a <= Sign => Value(a) >= 0) /\ (a > Sign => Value(a) < 0)
      /\ Value(b) \in Int /\ (b <= Sign => Value(b) >= 0) /\ (b > Sign => Value(b) < 0)
      /\ a \in Int /\ b \in Int /\ Sign \in Int
  BY UlpAssumption DEF Bits, Value
<1> QED
  BY <1>1, OrderedType DEF bf16_ulp_distance, Abs

(* The distance is symmetric, and a detour over a third result is never    *)
(* shorter: what the RTL and the GPU each differ from the CPU bounds what  *)
(* they differ from each other.                                            *)
THEOREM DistanceTriangle ==
  ASSUME NEW a \in Bits, NEW b \in Bits, NEW c \in Bits
  PROVE  /\ bf16_ulp_distance(a, b) = bf16_ulp_distance(b, a)
         /\ bf16_ulp_distance(a, c) <= bf16_ulp_distance(a, b) + bf16_ulp_distance(b, c)
<1>1. /\ bf16_ordered_int(a) \in Int /\ bf16_ordered_int(b) \in Int
      /\ bf16_ordered_int(c) \in Int
  BY OrderedType, UlpAssumption
<1> QED
  BY <1>1 DEF bf16_ulp_distance, Abs

(* The vectorised distance of the figures is the scalar one.               *)
THEOREM ArrayAgrees ==
  ASSUME NEW values \in Seq(Bits), NEW i \in DOMAIN values
  PROVE  bf16_ordered_array(values)[i] = bf16_ordered_int(values[i])
<1>1. values[i] \in Bits
  OBVIOUS
<1> QED
  BY <1>1, UlpAssumption DEF bf16_ordered_array, bf16_ordered_int, Magnitude, Bits

---------------------------------------------------------------------------
(* The element tables.                                                     *)

(* What an element table holds.                                            *)
RowsOK ==
  /\ stage \in Stages
  /\ \A i \in DOMAIN element_rows :
       LET row == element_rows[i]
       IN  /\ row.rtl \in Bits /\ row.cpu \in Bits /\ row.gpu \in Bits
           /\ row.cpu_ulp = bf16_ulp_distance(row.rtl, row.cpu)
           /\ row.gpu_ulp = bf16_ulp_distance(row.rtl, row.gpu)

RowType == [rtl : Bits, cpu : Bits, gpu : Bits, cpu_ulp : Int, gpu_ulp : Int]

IInv == RowsOK /\ element_rows \in Seq(RowType)

(* Truncating a float32 pattern gives a BF16 pattern.                      *)
LEMMA TruncationType ==
  ASSUME NEW y \in 0 .. 2 * Sign * Low - 1
  PROVE  float32_to_bf16(y) \in Bits
BY UlpAssumption, SMTT(60) DEF float32_to_bf16, Bits

(* A collected element has the distances of its own patterns.              *)
LEMMA CollectKeepsRows ==
  ASSUME IInv, Collect
  PROVE  IInv'
<1>1. PICK r \in Results, g \in Results, y \in References :
        element_rows' = Append(element_rows,
          LET cpu == float32_to_bf16(IF stage = "post_activation" /\ y >= Sign * Low
                                     THEN 0 ELSE y)
          IN  [rtl |-> relu(r), cpu |-> cpu, gpu |-> relu(g),
               cpu_ulp |-> bf16_ulp_distance(relu(r), cpu),
               gpu_ulp |-> bf16_ulp_distance(relu(r), relu(g))])
  BY DEF Collect
<1> DEFINE cpu == float32_to_bf16(IF stage = "post_activation" /\ y >= Sign * Low THEN 0 ELSE y)
           row == [rtl |-> relu(r), cpu |-> cpu, gpu |-> relu(g),
                   cpu_ulp |-> bf16_ulp_distance(relu(r), cpu),
                   gpu_ulp |-> bf16_ulp_distance(relu(r), relu(g))]
<1>2. relu(r) \in Bits /\ relu(g) \in Bits
  BY InputAssumption, UlpAssumption DEF relu, Bits
<1>3. cpu \in Bits
  <2> DEFINE z == IF stage = "post_activation" /\ y >= Sign * Low THEN 0 ELSE y
  <2>1. 0 \in 0 .. 2 * Sign * Low - 1
    <3>1. 2 * Sign * Low \in Nat /\ 2 * Sign * Low >= 1
      BY UlpAssumption, SMTT(30)
    <3> QED
      BY <3>1
  <2>2. z \in 0 .. 2 * Sign * Low - 1
    BY <2>1, InputAssumption
  <2> QED
    BY <2>2, TruncationType
<1>4. row \in RowType
  <2>1. \A a, b \in Bits : bf16_ulp_distance(a, b) \in Int
    BY OrderedType, UlpAssumption DEF bf16_ulp_distance, Abs
  <2> QED
    BY <1>2, <1>3, <2>1 DEF RowType
<1>5. element_rows' = Append(element_rows, row) /\ stage' = stage
  BY <1>1 DEF Collect
<1>6. element_rows' \in Seq(RowType)
  BY <1>4, <1>5 DEF IInv
<1>7. ASSUME NEW i \in DOMAIN element_rows'
      PROVE  /\ element_rows'[i].rtl \in Bits /\ element_rows'[i].cpu \in Bits
             /\ element_rows'[i].gpu \in Bits
             /\ element_rows'[i].cpu_ulp =
                  bf16_ulp_distance(element_rows'[i].rtl, element_rows'[i].cpu)
             /\ element_rows'[i].gpu_ulp =
                  bf16_ulp_distance(element_rows'[i].rtl, element_rows'[i].gpu)
  <2>1. CASE i \in DOMAIN element_rows
    <3>1. element_rows'[i] = element_rows[i]
      BY <1>4, <1>5, <2>1 DEF IInv
    <3> QED
      BY <3>1, <2>1 DEF IInv, RowsOK
  <2>2. CASE i \notin DOMAIN element_rows
    <3>1. element_rows'[i] = row
      BY <1>4, <1>5, <2>2 DEF IInv
    <3> QED
      BY <3>1, <1>2, <1>3
  <2> QED
    BY <2>1, <2>2
<1> QED
  BY <1>5, <1>6, <1>7 DEF IInv, RowsOK

(* The rows of an element table are elements of BF16 patterns with their   *)
(* own distances, from the first to the last.                              *)
THEOREM TablesAreConsistent == Spec => []IInv
<1>1. Init => IInv
  BY DEF Init, IInv, RowsOK
<1>2. IInv /\ [Next]_vars => IInv'
  <2>1. ASSUME IInv, Next PROVE IInv'
    BY <2>1, CollectKeepsRows DEF Next
  <2>2. ASSUME IInv, UNCHANGED vars PROVE IInv'
    BY <2>2 DEF IInv, RowsOK, vars
  <2> QED
    BY <2>1, <2>2
<1> QED
  BY <1>1, <1>2, PTL DEF Spec

(* The type invariant of the tables.                                       *)
THEOREM TypeCorrect == Spec => []TypeOK
<1>1. IInv => TypeOK
  BY DEF IInv, RowsOK, TypeOK
<1> QED
  BY <1>1, TablesAreConsistent, PTL

(* DistanceIsMetric, for tables of any size over a format of any width.    *)
THEOREM TablesAreMetric == Spec => []DistanceIsMetric
<1>1. ASSUME IInv PROVE DistanceIsMetric
  <2> SUFFICES ASSUME NEW i \in DOMAIN element_rows
               PROVE  LET row == element_rows[i]
                          gap == Abs(Value(row.rtl) - Value(row.gpu))
                          apart == (Value(row.rtl) < 0) # (Value(row.gpu) < 0)
                      IN  /\ row.gpu_ulp = 0 <=> Value(row.rtl) = Value(row.gpu)
                          /\ row.gpu_ulp = gap + (IF apart THEN 1 ELSE 0)
                          /\ row.gpu_ulp <= row.cpu_ulp + bf16_ulp_distance(row.cpu, row.gpu)
    BY DEF DistanceIsMetric
  <2> DEFINE row == element_rows[i]
  <2>1. /\ row.rtl \in Bits /\ row.cpu \in Bits /\ row.gpu \in Bits
        /\ row.cpu_ulp = bf16_ulp_distance(row.rtl, row.cpu)
        /\ row.gpu_ulp = bf16_ulp_distance(row.rtl, row.gpu)
    BY <1>1 DEF IInv, RowsOK
  <2> HIDE DEF row
  <2> QED
    BY <2>1, DistanceCountsSteps, DistanceTriangle DEF row
<1> QED
  BY <1>1, TablesAreConsistent, PTL

---------------------------------------------------------------------------
(* The summaries of the tables.                                            *)

(* The aggregates are the rows' own distances, in the order of the rows.   *)
LEMMA ColumnDistance ==
  ASSUME IInv, NEW i \in DOMAIN element_rows
  PROVE  /\ bf16_ulp_distance_array(Column("cpu"), Column("rtl"))[i] = element_rows[i].cpu_ulp
         /\ bf16_ulp_distance_array(Column("rtl"), Column("gpu"))[i] = element_rows[i].gpu_ulp
<1> DEFINE n == Len(element_rows)
<1>1. n \in Nat /\ DOMAIN element_rows = 1 .. n
  BY DEF IInv
<1>2. ASSUME NEW field \in {"rtl", "cpu", "gpu"}
      PROVE  /\ Column(field) \in Seq(Bits) /\ DOMAIN Column(field) = DOMAIN element_rows
             /\ Column(field)[i] = element_rows[i][field]
             /\ bf16_ordered_array(Column(field))[i] = bf16_ordered_int(element_rows[i][field])
  <2>1. \A j \in DOMAIN element_rows : element_rows[j][field] \in Bits
    BY DEF IInv, RowsOK
  <2> HIDE DEF n
  <2>2. Column(field) \in [1 .. n -> Bits]
    BY <1>1, <2>1 DEF Column
  <2>3. Column(field) \in Seq(Bits)
    BY <1>1, <2>2, SMT
  <2>4. DOMAIN Column(field) = DOMAIN element_rows /\ Column(field)[i] = element_rows[i][field]
    BY DEF Column
  <2> QED
    BY <2>3, <2>4, ArrayAgrees
<1>3. /\ element_rows[i].rtl \in Bits /\ element_rows[i].cpu \in Bits /\ element_rows[i].gpu \in Bits
      /\ element_rows[i].cpu_ulp = bf16_ulp_distance(element_rows[i].rtl, element_rows[i].cpu)
      /\ element_rows[i].gpu_ulp = bf16_ulp_distance(element_rows[i].rtl, element_rows[i].gpu)
  BY DEF IInv, RowsOK
<1>4. /\ bf16_ulp_distance_array(Column("cpu"), Column("rtl"))[i]
           = bf16_ulp_distance(element_rows[i].cpu, element_rows[i].rtl)
      /\ bf16_ulp_distance_array(Column("rtl"), Column("gpu"))[i]
           = bf16_ulp_distance(element_rows[i].rtl, element_rows[i].gpu)
  BY <1>2 DEF bf16_ulp_distance_array, bf16_ulp_distance
<1>5. bf16_ulp_distance(element_rows[i].cpu, element_rows[i].rtl)
        = bf16_ulp_distance(element_rows[i].rtl, element_rows[i].cpu)
  BY <1>3, DistanceTriangle
<1> QED
  BY <1>3, <1>4, <1>5

LEMMA Arrays ==
  ASSUME IInv
  PROVE  /\ Len(element_rows) \in Nat /\ DOMAIN element_rows = 1 .. Len(element_rows)
         /\ DOMAIN bf16_ulp_distance_array(Column("cpu"), Column("rtl")) = DOMAIN element_rows
         /\ DOMAIN bf16_ulp_distance_array(Column("rtl"), Column("gpu")) = DOMAIN element_rows
         /\ Len(Column("cpu")) = Len(element_rows) /\ Len(Column("rtl")) = Len(element_rows)
<1> DEFINE n == Len(element_rows)
<1>1. n \in Nat /\ DOMAIN element_rows = 1 .. n
  BY DEF IInv
<1> HIDE DEF n
<1>2. \A field : DOMAIN Column(field) = 1 .. n
  BY <1>1 DEF Column
<1>3. \A field : Column(field) = [j \in 1 .. n |-> element_rows[j][field]]
  BY <1>1 DEF Column
<1>4. \A field : Len(Column(field)) = n
  BY <1>1, <1>3
<1> QED
  BY <1>1, <1>2, <1>4 DEF bf16_ulp_distance_array, n

(* The elements that satisfy a condition and those that do not are all.    *)
LEMMA Complement ==
  ASSUME NEW n \in Nat, NEW A \in SUBSET (1 .. n)
  PROVE  /\ IsFiniteSet(A) /\ Cardinality(A) \in Nat
         /\ n - Cardinality((1 .. n) \ A) = Cardinality(A)
<1>1. IsFiniteSet(1 .. n) /\ Cardinality(1 .. n) = n
  BY FS_Interval
<1>2. IsFiniteSet(A) /\ Cardinality(A) \in Nat
  BY <1>1, FS_Subset, FS_CardinalityType
<1>3. Cardinality((1 .. n) \ A) = Cardinality(1 .. n) - Cardinality((1 .. n) \cap A)
  BY <1>1, FS_Difference
<1>4. (1 .. n) \cap A = A
  OBVIOUS
<1>5. Cardinality((1 .. n) \ A) = n - Cardinality(A)
  BY <1>1, <1>3, <1>4
<1> DEFINE a == Cardinality(A)
           b == Cardinality((1 .. n) \ A)
<1> HIDE DEF a, b
<1>6. a \in Nat /\ b = n - a
  BY <1>2, <1>5 DEF a, b
<1>7. n - b = a
  BY <1>6
<1> QED
  BY <1>2, <1>7 DEF a, b

LEMMA Split ==
  ASSUME NEW n \in Nat, NEW A \in SUBSET (1 .. n), NEW B \in SUBSET (1 .. n), A \cap B = {}
  PROVE  Cardinality(A \cup B) = Cardinality(A) + Cardinality(B)
<1>1. IsFiniteSet(A) /\ IsFiniteSet(B) /\ Cardinality(A) \in Nat /\ Cardinality(B) \in Nat
  BY Complement
<1>2. Cardinality(A \cup B) = Cardinality(A) + Cardinality(B) - Cardinality(A \cap B)
  BY <1>1, FS_Union
<1>3. Cardinality(A \cap B) = 0
  BY FS_EmptySet
<1> DEFINE a == Cardinality(A)
           b == Cardinality(B)
<1> HIDE DEF a, b
<1>4. a \in Nat /\ b \in Nat /\ Cardinality(A \cup B) = a + b - 0
  BY <1>1, <1>2, <1>3 DEF a, b
<1>5. a + b - 0 = a + b
  BY <1>4
<1> QED
  BY <1>4, <1>5 DEF a, b

(* The least number principle.                                             *)
LEMMA LeastNatural ==
  ASSUME NEW T \in SUBSET Nat, T # {}
  PROVE  \E x \in T : \A y \in T : x <= y
<1>1. \E x \in T : \A y \in T : <<y, x>> \notin OpToRel(<, Nat)
  BY WFMin, NatLessThanWellFounded
<1>2. PICK x \in T : \A y \in T : <<y, x>> \notin OpToRel(<, Nat)
  BY <1>1
<1>3. \A y \in T : ~(y < x)
  BY <1>2 DEF OpToRel
<1> QED
  BY <1>3

(* Of rows there is a worst one.                                           *)
Error(row) == Abs(Value(row.rtl) - Value(row.gpu))

LEMMA WorstExists ==
  ASSUME IInv, element_rows # <<>>
  PROVE  /\ worst \in Rows
         /\ \A row \in Rows : row.gpu_ulp <= worst.gpu_ulp
<1> DEFINE Bound == 2 * Sign
           Dist == {Bound - row.gpu_ulp : row \in Rows}
<1>1. ASSUME NEW row \in Rows
      PROVE  row.gpu_ulp \in 0 .. Bound /\ Error(row) \in 0 .. Bound
  <2>1. /\ row.rtl \in Bits /\ row.gpu \in Bits
        /\ row.gpu_ulp = bf16_ulp_distance(row.rtl, row.gpu)
    BY DEF IInv, RowsOK, Rows
  <2>2. bf16_ordered_int(row.rtl) \in 0 .. 2 * Sign - 1 /\ bf16_ordered_int(row.gpu) \in 0 .. 2 * Sign - 1
    BY <2>1, OrderedType
  <2>3. row.gpu_ulp \in 0 .. Bound
    BY <2>1, <2>2, UlpAssumption DEF bf16_ulp_distance, Abs
  <2>4. Error(row) \in 0 .. Bound
    BY <2>1, UlpAssumption DEF Error, Abs, Value, Bits
  <2> QED
    BY <2>3, <2>4
<1>2. Bound \in Nat
  BY UlpAssumption
<1>3. Rows # {}
  <2>1. 1 \in DOMAIN element_rows
    BY DEF IInv
  <2> QED
    BY <2>1 DEF Rows
<1> HIDE DEF Bound
<1>4. PICK top \in Rows : \A row \in Rows : row.gpu_ulp <= top.gpu_ulp
  <2>1. Dist \in SUBSET Nat /\ Dist # {}
    BY <1>1, <1>2, <1>3
  <2>2. PICK d \in Dist : \A e \in Dist : d <= e
    BY <2>1, LeastNatural
  <2>3. PICK top \in Rows : d = Bound - top.gpu_ulp
    BY <2>2
  <2>4. ASSUME NEW row \in Rows PROVE row.gpu_ulp <= top.gpu_ulp
    <3>1. Bound - top.gpu_ulp <= Bound - row.gpu_ulp
      BY <2>2, <2>3
    <3> QED
      BY <3>1, <1>1, <1>2
  <2> QED
    BY <2>4
<1> DEFINE Farthest == {row \in Rows : row.gpu_ulp = top.gpu_ulp}
           Errors == {Bound - Error(row) : row \in Farthest}
<1>5. PICK w \in Farthest : \A row \in Farthest : Error(row) <= Error(w)
  <2>1. Errors \in SUBSET Nat /\ Errors # {}
    BY <1>1, <1>2
  <2>2. PICK d \in Errors : \A e \in Errors : d <= e
    BY <2>1, LeastNatural
  <2>3. PICK w \in Farthest : d = Bound - Error(w)
    BY <2>2
  <2>4. ASSUME NEW row \in Farthest PROVE Error(row) <= Error(w)
    <3>1. Bound - Error(w) <= Bound - Error(row)
      BY <2>2, <2>3
    <3> QED
      BY <3>1, <1>1, <1>2
  <2> QED
    BY <2>4
<1> DEFINE IsWorst(row) ==
             \A i \in DOMAIN element_rows :
               \/ element_rows[i].gpu_ulp < row.gpu_ulp
               \/ element_rows[i].gpu_ulp = row.gpu_ulp /\ Error(element_rows[i]) <= Error(row)
<1>6. w \in Rows /\ IsWorst(w)
  <2>1. w \in Rows /\ w.gpu_ulp = top.gpu_ulp
    OBVIOUS
  <2>2. ASSUME NEW i \in DOMAIN element_rows
        PROVE  \/ element_rows[i].gpu_ulp < w.gpu_ulp
               \/ element_rows[i].gpu_ulp = w.gpu_ulp /\ Error(element_rows[i]) <= Error(w)
    <3>1. element_rows[i] \in Rows
      BY DEF Rows
    <3>2. element_rows[i].gpu_ulp <= w.gpu_ulp
      BY <1>4, <2>1, <3>1
    <3>3. element_rows[i].gpu_ulp \in Int /\ w.gpu_ulp \in Int
      BY <1>1, <1>2, <2>1, <3>1
    <3>4. element_rows[i].gpu_ulp = w.gpu_ulp => element_rows[i] \in Farthest
      BY <2>1, <3>1
    <3> QED
      BY <1>5, <3>2, <3>3, <3>4
  <2> QED
    BY <2>1, <2>2
<1>7. worst = CHOOSE row \in Rows : IsWorst(row)
  BY DEF worst, Error
<1>8. worst \in Rows /\ IsWorst(worst)
  <2> HIDE DEF IsWorst
  <2> QED
    BY <1>6, <1>7
<1>9. ASSUME NEW row \in Rows PROVE row.gpu_ulp <= worst.gpu_ulp
  <2>1. PICK i \in DOMAIN element_rows : row = element_rows[i]
    BY DEF Rows
  <2>2. row.gpu_ulp \in Int /\ worst.gpu_ulp \in Int
    BY <1>1, <1>2, <1>8
  <2> QED
    BY <1>8, <2>1, <2>2
<1> QED
  BY <1>8, <1>9

(* Truncating what a code was extended to gives the code back.             *)
LEMMA Roundtrip ==
  ASSUME NEW b \in Bits
  PROVE  bf16_roundtrip_ok(b)
<1>1. Low \in Nat \ {0} /\ b \in Nat
  BY UlpAssumption DEF Bits
<1>2. (b * Low) \div Low = b
  BY <1>1, SMTT(30)
<1> QED
  BY <1>2 DEF bf16_roundtrip_ok, float32_to_bf16, bf16_to_float32

LEMMA NoCheckFails ==
  ASSUME IInv
  PROVE  check_failures = 0
<1> DEFINE Wrong == {row \in Rows :
                       \/ \E b \in {row.rtl, row.cpu, row.gpu} : ~bf16_roundtrip_ok(b)
                       \/ row.cpu_ulp # bf16_ulp_distance(row.rtl, row.cpu)
                       \/ row.gpu_ulp # bf16_ulp_distance(row.rtl, row.gpu)}
<1>1. Wrong = {}
  <2> SUFFICES ASSUME NEW row \in Rows PROVE row \notin Wrong
    OBVIOUS
  <2>1. /\ row.rtl \in Bits /\ row.cpu \in Bits /\ row.gpu \in Bits
        /\ row.cpu_ulp = bf16_ulp_distance(row.rtl, row.cpu)
        /\ row.gpu_ulp = bf16_ulp_distance(row.rtl, row.gpu)
    BY DEF IInv, RowsOK, Rows
  <2>2. \A b \in {row.rtl, row.cpu, row.gpu} : bf16_roundtrip_ok(b)
    BY <2>1, Roundtrip
  <2> QED
    BY <2>1, <2>2
<1>2. check_failures = Cardinality({i \in DOMAIN element_rows : element_rows[i] \in Wrong})
  BY DEF check_failures, Count
<1>3. {i \in DOMAIN element_rows : element_rows[i] \in Wrong} = {}
  BY <1>1
<1> QED
  BY <1>2, <1>3, FS_EmptySet

(* What counting rows comes to in terms of the elements.                   *)
LEMMA CountIs ==
  ASSUME NEW S, NEW I, I = {i \in DOMAIN element_rows : element_rows[i] \in S}
  PROVE  Count(S) = Cardinality(I)
BY DEF Count

LEMMA CpuColumns ==
  ASSUME IInv
  PROVE  LET cpu == compare_bits(Column("cpu"), Column("rtl"))
         IN  /\ cpu.den - cpu.within_1 = summarize_figure1a_ulp.cpu_gt1
             /\ cpu.max_ulp = summarize_figure1a_ulp.cpu_max
<1> DEFINE n == Len(element_rows)
           diff == bf16_ulp_distance_array(Column("cpu"), Column("rtl"))
           over == {i \in 1 .. n : element_rows[i].cpu_ulp > 1}
           cpu == compare_bits(Column("cpu"), Column("rtl"))
<1>1. /\ n \in Nat /\ DOMAIN element_rows = 1 .. n /\ DOMAIN diff = 1 .. n
      /\ Len(Column("cpu")) = n
  BY Arrays
<1>2. \A i \in 1 .. n : diff[i] = element_rows[i].cpu_ulp
  BY <1>1, ColumnDistance
<1>3. ASSUME NEW i \in 1 .. n PROVE element_rows[i].cpu_ulp \in Int
  <2>1. element_rows[i] \in RowType
    BY <1>1 DEF IInv
  <2> QED
    BY <2>1 DEF RowType
<1>4. /\ cpu.den = Len(Column("cpu"))
      /\ cpu.within_1 = Cardinality({i \in DOMAIN diff : diff[i] <= 1})
      /\ cpu.max_ulp = Max({diff[i] : i \in DOMAIN diff} \union {0})
  BY DEF compare_bits
<1> HIDE DEF n, diff
<1>5. {i \in DOMAIN diff : diff[i] <= 1} = (1 .. n) \ over
  BY <1>1, <1>2, <1>3
<1>6. summarize_figure1a_ulp.cpu_gt1 = Cardinality(over)
  <2>1. over = {i \in DOMAIN element_rows : element_rows[i] \in {row \in Rows : row.cpu_ulp > 1}}
    BY <1>1 DEF Rows
  <2>2. summarize_figure1a_ulp.cpu_gt1 = Count({row \in Rows : row.cpu_ulp > 1})
    BY DEF summarize_figure1a_ulp
  <2> QED
    BY <2>1, <2>2, CountIs
<1>7. n - Cardinality((1 .. n) \ over) = Cardinality(over)
  BY <1>1, Complement
<1>8. {diff[i] : i \in DOMAIN diff} = {row.cpu_ulp : row \in Rows}
  <2>1. {diff[i] : i \in DOMAIN diff} = {element_rows[i].cpu_ulp : i \in DOMAIN element_rows}
    BY <1>1, <1>2
  <2> QED
    BY <2>1 DEF Rows
<1>9. summarize_figure1a_ulp.cpu_max = Max({row.cpu_ulp : row \in Rows} \union {0})
  BY DEF summarize_figure1a_ulp
<1> QED
  BY <1>1, <1>4, <1>5, <1>6, <1>7, <1>8, <1>9 DEF n

LEMMA GpuColumns ==
  ASSUME IInv
  PROVE  LET gpu == compare_bits(Column("rtl"), Column("gpu"))
         IN  gpu.den - gpu.within_1
               = summarize_figure1a_ulp.gpu_gt1 + summarize_figure1a_ulp.ignored
<1> DEFINE n == Len(element_rows)
           diff == bf16_ulp_distance_array(Column("rtl"), Column("gpu"))
           over == {i \in 1 .. n : element_rows[i].gpu_ulp > 1}
           flips == {i \in over : is_gpu_relu_boundary_flip(element_rows[i])}
           ignored == IF stage = "pre_activation" THEN {} ELSE flips
           gpu == compare_bits(Column("rtl"), Column("gpu"))
<1>1. /\ n \in Nat /\ DOMAIN element_rows = 1 .. n /\ DOMAIN diff = 1 .. n
      /\ Len(Column("rtl")) = n
  BY Arrays
<1>2. \A i \in 1 .. n : diff[i] = element_rows[i].gpu_ulp
  BY <1>1, ColumnDistance
<1>3. ASSUME NEW i \in 1 .. n PROVE element_rows[i].gpu_ulp \in Int
  <2>1. element_rows[i] \in RowType
    BY <1>1 DEF IInv
  <2> QED
    BY <2>1 DEF RowType
<1>4. /\ gpu.den = Len(Column("rtl"))
      /\ gpu.within_1 = Cardinality({i \in DOMAIN diff : diff[i] <= 1})
  BY DEF compare_bits
<1> HIDE DEF n, diff
<1>5. {i \in DOMAIN diff : diff[i] <= 1} = (1 .. n) \ over
  BY <1>1, <1>2, <1>3
<1>6. summarize_figure1a_ulp.gpu_gt1 = Cardinality(over \ ignored)
  <2>1. \A row : Ignored(row) <=> stage # "pre_activation" /\ is_gpu_relu_boundary_flip(row)
    BY DEF Ignored, IInv, RowsOK, Stages
  <2>2. over \ ignored = {i \in DOMAIN element_rows :
                            element_rows[i] \in {row \in Rows : row.gpu_ulp > 1 /\ ~Ignored(row)}}
    BY <1>1, <2>1 DEF Rows
  <2>3. summarize_figure1a_ulp.gpu_gt1 = Count({row \in Rows : row.gpu_ulp > 1 /\ ~Ignored(row)})
    BY DEF summarize_figure1a_ulp
  <2> QED
    BY <2>2, <2>3, CountIs
<1>7. summarize_figure1a_ulp.ignored = Cardinality(ignored)
  <2>1. CASE stage = "pre_activation"
    BY <2>1, FS_EmptySet DEF summarize_figure1a_ulp
  <2>2. CASE stage # "pre_activation"
    <3>1. flips = {i \in DOMAIN element_rows :
                     element_rows[i] \in {row \in Rows : row.gpu_ulp > 1 /\ is_gpu_relu_boundary_flip(row)}}
      BY <1>1 DEF Rows
    <3>2. summarize_figure1a_ulp.ignored
            = Count({row \in Rows : row.gpu_ulp > 1 /\ is_gpu_relu_boundary_flip(row)})
      BY <2>2 DEF summarize_figure1a_ulp
    <3> QED
      BY <2>2, <3>1, <3>2, CountIs
  <2> QED
    BY <2>1, <2>2
<1>8. n - Cardinality((1 .. n) \ over) = Cardinality(over)
  BY <1>1, Complement
<1>9. Cardinality(over) = Cardinality(over \ ignored) + Cardinality(ignored)
  <2> DEFINE kept == over \ ignored
  <2>1. /\ kept \in SUBSET (1 .. n) /\ ignored \in SUBSET (1 .. n)
        /\ kept \cap ignored = {} /\ kept \cup ignored = over
    OBVIOUS
  <2> HIDE DEF over, ignored, kept
  <2>2. Cardinality(kept \cup ignored) = Cardinality(kept) + Cardinality(ignored)
    BY <1>1, <2>1, Split
  <2> QED
    BY <2>1, <2>2 DEF kept
<1> QED
  BY <1>1, <1>4, <1>5, <1>6, <1>7, <1>8, <1>9 DEF n

LEMMA WorstIsMax ==
  ASSUME IInv, element_rows # <<>>
  PROVE  compare_bits(Column("rtl"), Column("gpu")).max_ulp = worst.gpu_ulp
<1> DEFINE diff == bf16_ulp_distance_array(Column("rtl"), Column("gpu"))
           S == {diff[i] : i \in DOMAIN diff} \union {0}
<1>1. DOMAIN diff = DOMAIN element_rows
  BY Arrays
<1>2. \A i \in DOMAIN element_rows : diff[i] = element_rows[i].gpu_ulp
  BY ColumnDistance
<1>3. compare_bits(Column("rtl"), Column("gpu")).max_ulp = Max(S)
  BY DEF compare_bits
<1> HIDE DEF diff
<1>4. S = {row.gpu_ulp : row \in Rows} \union {0}
  <2>1. {diff[i] : i \in DOMAIN diff} = {element_rows[i].gpu_ulp : i \in DOMAIN element_rows}
    BY <1>1, <1>2
  <2> QED
    BY <2>1 DEF Rows
<1>5. worst \in Rows /\ \A row \in Rows : row.gpu_ulp <= worst.gpu_ulp
  BY WorstExists
<1>6. \A row \in Rows : row.gpu_ulp \in Int /\ row.gpu_ulp >= 0
  <2> TAKE row \in Rows
  <2>1. /\ row.rtl \in Bits /\ row.gpu \in Bits
        /\ row.gpu_ulp = bf16_ulp_distance(row.rtl, row.gpu)
    BY DEF IInv, RowsOK, Rows
  <2> QED
    BY <2>1, OrderedType, UlpAssumption DEF bf16_ulp_distance, Abs
<1>7. worst.gpu_ulp \in S /\ (\A y \in S : y \in Int /\ y <= worst.gpu_ulp)
  <2>1. worst.gpu_ulp \in S /\ worst.gpu_ulp \in Int /\ worst.gpu_ulp >= 0
    BY <1>4, <1>5, <1>6
  <2>2. ASSUME NEW y \in S PROVE y \in Int /\ y <= worst.gpu_ulp
    <3>1. y = 0 \/ \E row \in Rows : y = row.gpu_ulp
      BY <1>4
    <3> HIDE DEF S
    <3>2. CASE y = 0
      BY <2>1, <3>2
    <3>3. CASE \E row \in Rows : y = row.gpu_ulp
      BY <1>5, <1>6, <3>3
    <3> QED
      BY <3>1, <3>2, <3>3
  <2> QED
    BY <2>1, <2>2
<1> HIDE DEF S
<1>8. ASSUME NEW m \in S, \A y \in S : m >= y PROVE m = worst.gpu_ulp
  BY <1>7, <1>8
<1>9. \E m \in S : \A y \in S : m >= y
  BY <1>7
<1> QED
  BY <1>3, <1>8, <1>9 DEF Max

(* SummariesAgree, for tables of any size over a format of any width: the  *)
(* vectorised aggregates of compare_bits, the per-element summary of the   *)
(* figure and the outlier table count the same elements.                   *)
THEOREM TablesAgree == Spec => []SummariesAgree
<1>1. IInv => SummariesAgree
  <2> SUFFICES ASSUME IInv PROVE SummariesAgree
    OBVIOUS
  <2>1. element_rows # <<>> => compare_bits(Column("rtl"), Column("gpu")).max_ulp = worst.gpu_ulp
    BY WorstIsMax
  <2> QED
    BY <2>1, CpuColumns, GpuColumns, NoCheckFails DEF SummariesAgree
<1> QED
  BY <1>1, TablesAreConsistent, PTL

---------------------------------------------------------------------------
(* The supplemental measurements.                                          *)

(* Rows of torch, in memory or in the file, whole or a prefix of it: one   *)
(* that is "ok" was measured on all elements of its run.                   *)
RowsAreOfRuns(rows) ==
  DOMAIN rows \subseteq Figures!Runs /\ \A k \in DOMAIN rows : "status" \in DOMAIN rows[k]

TorchOK(rows) ==
  RowsAreOfRuns(rows) /\ \A k \in DOMAIN rows : rows[k].status = "ok" => rows[k].den = Elements

CupyOK(rows) == RowsAreOfRuns(rows)

(* Made from the tables as they are.                                       *)
Current(rows) ==
  DOMAIN rows = Figures!Functional /\ \A k \in DOMAIN rows : rows[k].version = published[k].version

MeasuredOK ==
  /\ TorchOK(torch_rows) /\ TorchOK(torch_file.rows)
  /\ CupyOK(cupy_rows) /\ CupyOK(cupy_file.rows)

(* While this invocation works, and at its end, forced rows are current.   *)
ForcedOK ==
  force /\ pc \in {"write torch", "torch", "write cupy", "cupy", "validate", "done"} =>
    Current(torch_rows) /\ Current(cupy_rows)

VerdictOK ==
  verdict = "PASS" =>
    /\ pc \in {"idle", "done"}
    /\ \A k \in DOMAIN torch_rows : torch_rows[k].status = "ok"
    /\ \A k \in DOMAIN cupy_rows : cupy_rows[k].status = "ok"

(* What is written is of every published run; a file that was written to   *)
(* its end lists those of its time, and so does what was read from it.     *)
Writing == {"write torch", "torch", "write cupy", "cupy"}

WholeOK ==
  /\ torch_file.whole => DOMAIN torch_file.rows = torch_file.of
  /\ cupy_file.whole => DOMAIN cupy_file.rows = cupy_file.of
  /\ pc \in Writing => DOMAIN torch_rows = Figures!Functional /\ DOMAIN cupy_rows = Figures!Functional
  /\ pc = "torch" => torch_file.of = Figures!Functional
  /\ pc = "cupy" => cupy_file.of = Figures!Functional
  /\ (pc \in {"write cupy", "cupy", "validate"} \/ verdict = "PASS") /\ torch_file.whole =>
       DOMAIN torch_rows = torch_file.of
  /\ (pc = "validate" \/ verdict = "PASS") /\ cupy_file.whole => DOMAIN cupy_rows = cupy_file.of

FInv == MeasuredOK /\ ForcedOK /\ VerdictOK /\ WholeOK

(* A table that passes the coverage has no row without a result.           *)
LEMMA CoveredRows ==
  ASSUME NEW rows, DOMAIN rows \subseteq Figures!Runs,
         \A c \in Expected : Figures!status(rows, c) = "ok"
  PROVE  \A k \in DOMAIN rows : rows[k].status = "ok"
<1> SUFFICES ASSUME NEW k \in DOMAIN rows PROVE rows[k].status = "ok"
  OBVIOUS
<1>1. CaseOf[k] \in Expected
  BY Assumption DEF Figures!FigureAssumption
<1>2. k \in Figures!RowsOfCase(rows, CaseOf[k])
  BY DEF Figures!RowsOfCase
<1>3. Figures!status(rows, CaseOf[k]) = "ok"
  BY <1>1
<1> QED
  BY <1>2, <1>3 DEF Figures!status

(* What an interruption leaves of a file is rows of the same kind.         *)
LEMMA PrefixOK ==
  ASSUME NEW rows, NEW n
  PROVE  /\ TorchOK(rows) => TorchOK(Figures!Prefixed(rows, n))
         /\ CupyOK(rows) => CupyOK(Figures!Prefixed(rows, n))
<1> DEFINE p == Figures!Prefixed(rows, n)
<1>1. DOMAIN p \subseteq DOMAIN rows /\ \A k \in DOMAIN p : p[k] = rows[k]
  BY DEF Figures!Prefixed
<1> HIDE DEF p
<1> QED
  BY <1>1 DEF TorchOK, CupyOK, RowsAreOfRuns, p

LEMMA RemainsOK ==
  ASSUME NEW rows, NEW left \in Figures!Remains(rows)
  PROVE  /\ TorchOK(rows) => TorchOK(left)
         /\ CupyOK(rows) => CupyOK(left)
<1>1. ASSUME NEW n, left = Figures!Prefixed(rows, n)
      PROVE  (TorchOK(rows) => TorchOK(left)) /\ (CupyOK(rows) => CupyOK(left))
  BY <1>1, PrefixOK
<1>2. ASSUME NEW n, NEW cut \in {"unavailable", "cut"},
             left = Figures!CutInRow(rows, n, cut)
      PROVE  (TorchOK(rows) => TorchOK(left)) /\ (CupyOK(rows) => CupyOK(left))
  <2> DEFINE p == Figures!Prefixed(rows, n)
             last == RunOrder[n]
  <2> HIDE DEF p, last
  <2>1. (TorchOK(rows) => TorchOK(p)) /\ (CupyOK(rows) => CupyOK(p))
    BY PrefixOK DEF p
  <2>2. left = [p EXCEPT ![last].status = cut]
    BY <1>2 DEF p, last, Figures!CutInRow
  <2>3. DOMAIN left = DOMAIN p /\ \A k \in DOMAIN p : k # last => left[k] = p[k]
    BY <2>2
  <2>4. last \in DOMAIN p => left[last] = [p[last] EXCEPT !.status = cut]
    BY <2>2
  <2>5. ASSUME RowsAreOfRuns(p), NEW k \in DOMAIN left
        PROVE  "status" \in DOMAIN left[k] /\ (left[k].status = "ok" => left[k] = p[k])
    <3>1. CASE k # last
      BY <2>3, <2>5, <3>1 DEF RowsAreOfRuns
    <3>2. CASE k = last
      <4>1. left[k] = [p[k] EXCEPT !.status = cut] /\ "status" \in DOMAIN p[k]
        BY <2>3, <2>4, <2>5, <3>2 DEF RowsAreOfRuns
      <4>2. DOMAIN left[k] = DOMAIN p[k] /\ left[k].status = cut
        BY <4>1
      <4> QED
        BY <4>1, <4>2
    <3> QED
      BY <3>1, <3>2
  <2> QED
    BY <2>1, <2>3, <2>5 DEF TorchOK, CupyOK, RowsAreOfRuns
<1>3. \/ \E n \in 0 .. Len(RunOrder) : left = Figures!Prefixed(rows, n)
      \/ \E n \in 1 .. Len(RunOrder) : \/ left = Figures!CutInRow(rows, n, "unavailable")
                                        \/ left = Figures!CutInRow(rows, n, "cut")
  BY DEF Figures!Remains
<1> QED
  BY <1>1, <1>2, <1>3

LEMMA MeasureKeeps ==
  ASSUME FInv, Figures!Measure
  PROVE  FInv'
<1>1. PICK gpu \in BOOLEAN :
        /\ torch_rows' = [k \in Figures!Functional |-> Figures!torch_row(k, gpu)]
        /\ cupy_rows' = [k \in Figures!Functional |-> Figures!cupy_row(k, gpu)]
  BY DEF Figures!Measure
<1>2. /\ pc = "measure" /\ pc' = "write torch" /\ UNCHANGED <<published, force, verdict>>
      /\ UNCHANGED <<torch_file, cupy_file>>
  BY DEF Figures!Measure, Figures!stored
<1>3. Figures!Functional \subseteq Figures!Runs /\ Figures!Functional' = Figures!Functional
  BY <1>2 DEF Figures!Functional
<1>4. TorchOK(torch_rows')
  <2>1. DOMAIN torch_rows' = Figures!Functional
    BY <1>1
  <2>2. ASSUME NEW k \in Figures!Functional, torch_rows'[k].status = "ok"
        PROVE  torch_rows'[k].den = Elements
    <3>1. torch_rows'[k] = Figures!torch_row(k, gpu)
      BY <1>1
    <3> QED
      BY <2>2, <3>1 DEF Figures!torch_row
  <2>3. ASSUME NEW k \in Figures!Functional PROVE "status" \in DOMAIN torch_rows'[k]
    BY <1>1 DEF Figures!torch_row
  <2> QED
    BY <1>3, <2>1, <2>2, <2>3 DEF TorchOK, RowsAreOfRuns
<1>5. CupyOK(cupy_rows')
  <2>1. DOMAIN cupy_rows' = Figures!Functional
    BY <1>1
  <2>2. ASSUME NEW k \in Figures!Functional PROVE "status" \in DOMAIN cupy_rows'[k]
    <3>1. cupy_rows'[k] = Figures!cupy_row(k, gpu)
      BY <1>1
    <3> QED
      BY <3>1 DEF Figures!cupy_row, FInv, MeasuredOK, CupyOK, RowsAreOfRuns
  <2> QED
    BY <1>3, <2>1, <2>2 DEF CupyOK, RowsAreOfRuns
<1>6. ForcedOK'
  <2> SUFFICES ASSUME force' PROVE Current(torch_rows)' /\ Current(cupy_rows)'
    BY DEF ForcedOK
  <2>1. ASSUME NEW k \in Figures!Functional
        PROVE  torch_rows'[k].version = published[k].version /\ cupy_rows'[k].version = published[k].version
    <3>1. torch_rows'[k] = Figures!torch_row(k, gpu) /\ cupy_rows'[k] = Figures!cupy_row(k, gpu)
      BY <1>1
    <3>2. force
      BY <1>2
    <3> QED
      BY <3>1, <3>2 DEF Figures!torch_row, Figures!cupy_row
  <2>2. DOMAIN torch_rows' = Figures!Functional /\ DOMAIN cupy_rows' = Figures!Functional
    BY <1>1
  <2> QED
    BY <1>2, <1>3, <2>1, <2>2 DEF Current
<1>7. MeasuredOK'
  BY <1>2, <1>4, <1>5 DEF FInv, MeasuredOK
<1>8. VerdictOK'
  BY <1>2 DEF FInv, VerdictOK
<1>9. WholeOK'
  BY <1>1, <1>2, <1>3 DEF FInv, VerdictOK, WholeOK
<1> QED
  BY <1>6, <1>7, <1>8, <1>9 DEF FInv

LEMMA ValidateKeeps ==
  ASSUME FInv, Figures!Validate
  PROVE  FInv'
<1>1. /\ pc = "validate" /\ pc' \in {"done", "idle"}
      /\ \/ verdict' = IF Figures!validate_coverage THEN "PASS" ELSE "FAIL"
         \/ verdict' = verdict
      /\ UNCHANGED <<published, force, torch_rows, cupy_rows, torch_file, cupy_file>>
  BY DEF Figures!Validate, Figures!memory, Figures!stored
<1>2. MeasuredOK'
  BY <1>1 DEF FInv, MeasuredOK
<1>3. ForcedOK'
  BY <1>1 DEF FInv, ForcedOK, Current, Figures!Functional
<1>4. VerdictOK'
  <2>1. verdict # "PASS"
    BY <1>1 DEF FInv, VerdictOK
  <2> SUFFICES ASSUME Figures!validate_coverage
               PROVE  /\ \A k \in DOMAIN torch_rows : torch_rows[k].status = "ok"
                      /\ \A k \in DOMAIN cupy_rows : cupy_rows[k].status = "ok"
    BY <1>1, <2>1 DEF VerdictOK
  <2>2. \A c \in Expected : Figures!status(torch_rows, c) = "ok" /\ Figures!status(cupy_rows, c) = "ok"
    BY DEF Figures!validate_coverage
  <2>3. DOMAIN torch_rows \subseteq Figures!Runs /\ DOMAIN cupy_rows \subseteq Figures!Runs
    BY DEF FInv, MeasuredOK, TorchOK, CupyOK, RowsAreOfRuns
  <2> QED
    BY <2>2, <2>3, CoveredRows
<1>5. WholeOK'
  BY <1>1 DEF FInv, WholeOK, Writing, Figures!Functional
<1> QED
  BY <1>2, <1>3, <1>4, <1>5 DEF FInv

LEMMA KillKeeps ==
  ASSUME FInv, Figures!Kill
  PROVE  FInv'
<1>1. /\ pc' = "idle" /\ UNCHANGED <<published, force, verdict>> /\ verdict # "PASS"
      /\ torch_rows' = Figures!Nothing /\ cupy_rows' = Figures!Nothing
  BY DEF Figures!Kill, FInv, VerdictOK
<1>2. /\ TorchOK(torch_file'.rows) /\ CupyOK(cupy_file'.rows)
      /\ torch_file'.whole => torch_file' = torch_file
      /\ cupy_file'.whole => cupy_file' = cupy_file
  <2>1. CASE UNCHANGED <<torch_file, cupy_file>>
    BY <2>1 DEF FInv, MeasuredOK
  <2>2. ASSUME NEW left \in Figures!Remains(torch_rows), UNCHANGED cupy_file,
               torch_file' = Figures!Left(torch_file, left, FALSE)
        PROVE  /\ TorchOK(torch_file'.rows) /\ CupyOK(cupy_file'.rows) /\ ~torch_file'.whole
    BY <2>2, RemainsOK DEF FInv, MeasuredOK, Figures!Left
  <2>3. ASSUME NEW left \in Figures!Remains(cupy_rows), UNCHANGED torch_file,
               cupy_file' = Figures!Left(cupy_file, left, FALSE)
        PROVE  /\ TorchOK(torch_file'.rows) /\ CupyOK(cupy_file'.rows) /\ ~cupy_file'.whole
    BY <2>3, RemainsOK DEF FInv, MeasuredOK, Figures!Left
  <2> QED
    BY <2>1, <2>2, <2>3 DEF Figures!Kill, Figures!stored
<1>3. TorchOK(Figures!Nothing) /\ CupyOK(Figures!Nothing)
  BY DEF TorchOK, CupyOK, RowsAreOfRuns, Figures!Nothing
<1>4. MeasuredOK'
  BY <1>1, <1>2, <1>3 DEF MeasuredOK
<1>5. WholeOK'
  BY <1>1, <1>2 DEF FInv, WholeOK, Writing
<1> QED
  BY <1>1, <1>4, <1>5 DEF FInv, ForcedOK, VerdictOK

(* Files are opened and filled with what is in memory, or read back.       *)
LEMMA FilesKeep ==
  ASSUME FInv, \/ Figures!UseCached \/ Figures!OpenTorch \/ Figures!CloseTorch
               \/ Figures!OpenCupy \/ Figures!CloseCupy
  PROVE  FInv'
<1>1. TorchOK(Figures!Nothing) /\ CupyOK(Figures!Nothing)
  BY DEF TorchOK, CupyOK, RowsAreOfRuns, Figures!Nothing
<1>2. CASE Figures!UseCached
  <2>1. /\ torch_rows' = torch_file.rows /\ cupy_rows' = cupy_file.rows /\ ~force'
        /\ pc = "measure" /\ pc' = "validate" /\ UNCHANGED <<torch_file, cupy_file, verdict>>
    BY <1>2 DEF Figures!UseCached, Figures!Reusable, Figures!stored
  <2>2. MeasuredOK'
    BY <2>1 DEF FInv, MeasuredOK, TorchOK, CupyOK
  <2>3. WholeOK'
    BY <2>1 DEF FInv, VerdictOK, WholeOK, Writing
  <2> QED
    BY <2>1, <2>2, <2>3 DEF FInv, ForcedOK, VerdictOK
<1>3. CASE \/ Figures!OpenTorch \/ Figures!CloseTorch \/ Figures!OpenCupy \/ Figures!CloseCupy
  <2>1. /\ UNCHANGED <<published, force, torch_rows, cupy_rows, verdict>>
        /\ pc \in {"write torch", "torch", "write cupy", "cupy"}
        /\ pc' \in {"torch", "write cupy", "cupy", "validate"}
    BY <1>3 DEF Figures!OpenTorch, Figures!CloseTorch, Figures!OpenCupy, Figures!CloseCupy,
                Figures!memory
  <2>2. /\ torch_file'.rows \in {torch_file.rows, torch_rows, Figures!Nothing}
        /\ cupy_file'.rows \in {cupy_file.rows, cupy_rows, Figures!Nothing}
    <3>1. CASE Figures!OpenTorch
      BY <3>1 DEF Figures!OpenTorch, Figures!Opened
    <3>2. CASE Figures!CloseTorch
      BY <3>2 DEF Figures!CloseTorch, Figures!Left
    <3>3. CASE Figures!OpenCupy
      BY <3>3 DEF Figures!OpenCupy, Figures!Opened
    <3>4. CASE Figures!CloseCupy
      BY <3>4 DEF Figures!CloseCupy, Figures!Left
    <3> QED
      BY <1>3, <3>1, <3>2, <3>3, <3>4
  <2>3. MeasuredOK'
    BY <1>1, <2>1, <2>2 DEF FInv, MeasuredOK, TorchOK, CupyOK
  <2>4. ForcedOK'
    BY <2>1 DEF FInv, ForcedOK, Current, Figures!Functional
  <2>5. VerdictOK'
    BY <2>1 DEF FInv, VerdictOK
  <2>6. WholeOK'
    <3>1. /\ Figures!Functional' = Figures!Functional /\ verdict # "PASS" /\ verdict' # "PASS"
          /\ DOMAIN torch_rows = Figures!Functional /\ DOMAIN cupy_rows = Figures!Functional
      BY <2>1 DEF Figures!Functional, FInv, VerdictOK, WholeOK, Writing
    <3>2. CASE Figures!OpenTorch
      BY <2>1, <3>1, <3>2 DEF Figures!OpenTorch, Figures!Opened, FInv, WholeOK, Writing
    <3>3. CASE Figures!CloseTorch
      BY <2>1, <3>1, <3>3 DEF Figures!CloseTorch, Figures!Left, FInv, WholeOK, Writing
    <3>4. CASE Figures!OpenCupy
      BY <2>1, <3>1, <3>4 DEF Figures!OpenCupy, Figures!Opened, FInv, WholeOK, Writing
    <3>5. CASE Figures!CloseCupy
      BY <2>1, <3>1, <3>5 DEF Figures!CloseCupy, Figures!Left, FInv, WholeOK, Writing
    <3> QED
      BY <1>3, <3>2, <3>3, <3>4, <3>5
  <2> QED
    BY <2>3, <2>4, <2>5, <2>6 DEF FInv
<1> QED
  BY <1>2, <1>3

LEMMA CampaignKeeps ==
  ASSUME FInv, Figures!Publish \/ Figures!Launch \/ Figures!LoadFails
  PROVE  FInv'
<1>1. CASE Figures!Publish
  <2>1. /\ pc' = "idle" /\ UNCHANGED <<torch_rows, cupy_rows, torch_file, cupy_file, verdict>>
    BY <1>1 DEF Figures!Publish, Figures!memory, Figures!stored
  <2> QED
    BY <2>1 DEF FInv, MeasuredOK, TorchOK, CupyOK, ForcedOK, VerdictOK, WholeOK, Writing
<1>2. CASE Figures!Launch
  <2>1. /\ pc' = "measure" /\ verdict' = "none" /\ UNCHANGED <<torch_file, cupy_file>>
        /\ torch_rows' = Figures!Nothing /\ cupy_rows' = Figures!Nothing
    BY <1>2 DEF Figures!Launch, Figures!stored
  <2>2. TorchOK(torch_rows') /\ CupyOK(cupy_rows')
    BY <2>1 DEF TorchOK, CupyOK, RowsAreOfRuns, Figures!Nothing
  <2> QED
    BY <2>1, <2>2 DEF FInv, MeasuredOK, TorchOK, CupyOK, ForcedOK, VerdictOK, WholeOK, Writing
<1>3. CASE Figures!LoadFails
  <2>1. /\ pc = "measure" /\ pc' = "idle"
        /\ UNCHANGED <<published, torch_rows, cupy_rows, torch_file, cupy_file, verdict>>
    BY <1>3 DEF Figures!LoadFails, Figures!memory, Figures!stored
  <2> QED
    BY <2>1 DEF FInv, MeasuredOK, TorchOK, CupyOK, ForcedOK, VerdictOK, WholeOK, Writing
<1> QED
  BY <1>1, <1>2, <1>3

(* Whatever is published, forced, killed or reused: figures are drawn of   *)
(* rows with a result, of all the runs published when a report was written *)
(* if that came to its end, and with --force of those of the tables as     *)
(* they are (generate_supplemental_rows, validate_coverage).               *)
THEOREM PassMeasured == FiguresSpec => []PassIsMeasured
<1>1. FiguresInit => FInv
  <2> SUFFICES ASSUME Figures!Init PROVE FInv
    BY DEF FiguresInit
  <2>1. /\ pc = "idle" /\ verdict = "none" /\ torch_rows = Figures!Nothing /\ cupy_rows = Figures!Nothing
        /\ torch_file.rows = Figures!Nothing /\ cupy_file.rows = Figures!Nothing
        /\ ~torch_file.whole /\ ~cupy_file.whole
    BY DEF Figures!Init, Figures!NoFile
  <2> QED
    BY <2>1 DEF FInv, MeasuredOK, TorchOK, CupyOK, RowsAreOfRuns, ForcedOK, VerdictOK, WholeOK,
                Writing, Figures!Nothing
<1>2. FInv /\ [FiguresNext]_<<part, figures, vars>> => FInv'
  <2> SUFFICES ASSUME FInv, [FiguresNext]_<<part, figures, vars>> PROVE FInv'
    OBVIOUS
  <2>1. CASE Figures!Next
    BY <2>1, CampaignKeeps, FilesKeep, MeasureKeeps, ValidateKeeps, KillKeeps DEF Figures!Next
  <2>2. CASE UNCHANGED figures
    BY <2>2 DEF figures, FInv, MeasuredOK, TorchOK, CupyOK, ForcedOK, Current, VerdictOK,
                WholeOK, Figures!Functional
  <2> QED
    BY <2>1, <2>2 DEF FiguresNext
<1>3. FInv => PassIsMeasured
  <2> SUFFICES ASSUME FInv, verdict = "PASS"
               PROVE  /\ \A k \in DOMAIN torch_rows : torch_rows[k].den = Elements
                      /\ \A k \in DOMAIN cupy_rows : cupy_rows[k].status = "ok"
                      /\ torch_file.whole => DOMAIN torch_rows = torch_file.of
                      /\ cupy_file.whole => DOMAIN cupy_rows = cupy_file.of
                      /\ pc = "done" /\ force =>
                           /\ DOMAIN torch_rows = Figures!Functional
                           /\ DOMAIN cupy_rows = Figures!Functional
                           /\ \A k \in Figures!Functional :
                                /\ torch_rows[k].version = published[k].version
                                /\ cupy_rows[k].version = published[k].version
    BY DEF PassIsMeasured, Figures!PassIsMeasured
  <2> QED
    BY DEF FInv, MeasuredOK, TorchOK, ForcedOK, Current, VerdictOK, WholeOK
<1> QED
  BY <1>1, <1>2, <1>3, PTL DEF FiguresSpec
=============================================================================
