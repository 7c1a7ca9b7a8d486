------------------------- MODULE ExperimentsProofs -------------------------
(***************************************************************************)
(* The interrupted and repeated programs, for every instance.  The stage 5 *)
(* to 7 campaign: a PASS stands on Mode 1 and Mode 2 runs of every row     *)
(* that came to their ends, and what is added up over a projection's       *)
(* chunks is what its rows give together, each once.  The runner: only     *)
(* missing cases are simulated, a forward that returns has the right       *)
(* products, each counted once, and no worker fails by itself; nor does a  *)
(* driver.  The downloader: what is read is the tensor that was asked for. *)
(***************************************************************************)
EXTENDS MCExperiments, ForwardDivergenceProofs, WellFoundedInduction, Functions

(* A chunk of a running invocation is one of its ranges.                   *)
PlaceInRanges ==
  /\ stage_cmd \in StageCommands
  /\ chunk \in Nat \ {0}
  /\ Pipeline!Running => chunk <= Len(Pipeline!RangesOf(stage_cmd))

(* A report has either no cycle count yet, or that of the whole trace and  *)
(* statistics of all rows of its directory's range.                        *)
Reported(k, report) ==
  \/ report.cycles = 0
  \/ report.cycles = 100 /\ report.stats.n = Pipeline!Size(k.range)

ReportsOK ==
  \A k \in DOMAIN run_dirs :
    /\ DOMAIN run_dirs[k] = {"trace", "metadata", "report", "mode1"}
    /\ Reported(k, run_dirs[k].report)

EInv == PlaceInRanges /\ ReportsOK

---------------------------------------------------------------------------
(* What is consolidated.                                                   *)

LEMMA RowsCounted ==
  ASSUME NEW ulp, NEW range
  PROVE  Pipeline!write_report(ulp, range).n = Cardinality(range)
BY DEF Pipeline!write_report, Pipeline!Cardinality, Cardinality

LEMMA Verdict ==
  ASSUME Pipeline!Timing.mode_cycle_result = "PASS", NEW c \in Pipeline!Comparison
  PROVE  c.modes # {} /\ \A t \in c.modes : t.result = "PASS"
BY DEF Pipeline!Timing, Pipeline!consolidate_reference_time_aggregate

---------------------------------------------------------------------------
(* The ranges of a chunked projection.                                     *)

LEMMA Quotient ==
  ASSUME NEW n \in Nat, NEW d \in Nat \ {0}
  PROVE  /\ n \div d \in Nat /\ d * (n \div d) <= n
         /\ n >= d => n \div d >= 1
<1> DEFINE q == n \div d
<1>1. /\ q \in Int /\ n = d * q + (n % d) /\ n % d \in 0 .. d - 1
  BY Z3
<1> QED
  BY <1>1, Z3

LEMMA MinOfTwo ==
  ASSUME NEW a \in Nat, NEW b \in Nat
  PROVE  /\ Pipeline!Min({a, b}) \in {a, b}
         /\ Pipeline!Min({a, b}) <= a /\ Pipeline!Min({a, b}) <= b
<1>1. \E x \in {a, b} : \A y \in {a, b} : x <= y
  <2>1. CASE a <= b
    BY <2>1
  <2>2. CASE b <= a
    BY <2>2
  <2> QED
    BY <2>1, <2>2
<1> QED
  BY <1>1 DEF Pipeline!Min

(* There is a range for every chunk, with rows in it.                      *)
RangesOK(ranges) ==
  /\ Len(ranges) \in Nat \ {0} /\ DOMAIN ranges = 1 .. Len(ranges)
  /\ \A i \in 1 .. Len(ranges) :
       ranges[i][1] \in Nat /\ ranges[i][2] \in Nat /\ ranges[i][1] < ranges[i][2]

LEMMA RangeShape ==
  ASSUME NEW r \in Nat \ {0}, NEW size \in Nat \ {0}
  PROVE  RangesOK(Pipeline!chunk_ranges(r, size))
<1> DEFINE ranges == Pipeline!chunk_ranges(r, size)
<1> SUFFICES RangesOK(ranges)
  OBVIOUS
<1>1. CASE r <= size
  <2>1. ranges = <<<<0, r>>>>
    BY <1>1 DEF Pipeline!chunk_ranges
  <2>2. Len(ranges) = 1 /\ DOMAIN ranges = 1 .. 1 /\ ranges[1] = <<0, r>>
    BY <2>1
  <2> HIDE DEF ranges
  <2> QED
    BY <2>2 DEF RangesOK
<1>2. CASE ~(r <= size)
  <2> DEFINE n == (r + size - 1) \div size
             last(i) == Pipeline!Min({r, i * size})
             e(i) == <<(i - 1) * size, last(i)>>
  <2>1. n \in Nat /\ n >= 1 /\ size * n <= r + size - 1
    BY <1>2, Quotient
  <2>2. ranges = [i \in 1 .. n |-> e(i)]
    BY <1>2 DEF Pipeline!chunk_ranges
  <2>3. \A i \in 1 .. n : e(i)[1] = (i - 1) * size /\ e(i)[2] = last(i)
    OBVIOUS
  <2> HIDE DEF n, e
  <2>4. ASSUME NEW i \in 1 .. n
        PROVE  /\ (i - 1) * size \in Nat /\ last(i) \in Nat /\ (i - 1) * size < last(i)
    <3> DEFINE a == i * size
    <3>1. a \in Nat /\ (i - 1) * size = a - size /\ a - size \in Nat
      BY <2>1, <2>4, Z3
    <3>2. a <= size * n
      BY <2>1, <2>4, Z3
    <3>3. last(i) \in {r, a} /\ last(i) \in Nat
      BY <3>1, MinOfTwo
    <3> HIDE DEF a
    <3> QED
      BY <3>1, <3>2, <3>3, <2>1, Z3
  <2> HIDE DEF ranges, last
  <2>5. Len(ranges) = n /\ DOMAIN ranges = 1 .. n
    <3>1. n \in Nat
      BY <2>1
    <3> QED
      BY <3>1, <2>2
  <2>6. \A i \in 1 .. n : ranges[i] = e(i)
    BY <2>2
  <2> QED
    BY <2>1, <2>3, <2>4, <2>5, <2>6 DEF RangesOK
<1> QED
  BY <1>1, <1>2

LEMMA RangesOfCommand ==
  ASSUME NEW c \in StageCommands
  PROVE  RangesOK(Pipeline!RangesOf(c))
<1>1. OutputRows \in Nat \ {0} /\ c.chunk_rows \in Nat \ {0}
  BY Assumptions DEF Pipeline!StageAssumption, Pipeline!CommandType
<1> QED
  BY <1>1, RangeShape DEF Pipeline!RangesOf

---------------------------------------------------------------------------
(* The files.                                                              *)

(* A program that does not write the report leaves what is reported.       *)
LEMMA OtherField ==
  ASSUME ReportsOK, NEW id, NEW field \in {"trace", "metadata", "mode1"}, NEW value,
         Pipeline!Put(id, field, value)
  PROVE  ReportsOK'
<1>1. run_dirs' = [run_dirs EXCEPT ![id] = [@ EXCEPT ![field] = value]]
  BY DEF Pipeline!Put
<1>2. ASSUME NEW k \in DOMAIN run_dirs
      PROVE  /\ DOMAIN run_dirs'[k] = {"trace", "metadata", "report", "mode1"}
             /\ run_dirs'[k].report = run_dirs[k].report
  <2>1. DOMAIN run_dirs[k] = {"trace", "metadata", "report", "mode1"}
    BY DEF ReportsOK
  <2> QED
    BY <1>1, <2>1
<1> QED
  BY <1>1, <1>2 DEF ReportsOK, Reported

LEMMA ReportField ==
  ASSUME ReportsOK, NEW id, NEW value, Reported(id, value), Pipeline!Put(id, "report", value)
  PROVE  ReportsOK'
<1>1. run_dirs' = [run_dirs EXCEPT ![id] = [@ EXCEPT !["report"] = value]]
  BY DEF Pipeline!Put
<1>2. ASSUME NEW k \in DOMAIN run_dirs
      PROVE  /\ DOMAIN run_dirs'[k] = {"trace", "metadata", "report", "mode1"}
             /\ run_dirs'[k].report = IF k = id THEN value ELSE run_dirs[k].report
  <2>1. DOMAIN run_dirs[k] = {"trace", "metadata", "report", "mode1"}
    BY DEF ReportsOK
  <2> QED
    BY <1>1, <2>1
<1> QED
  BY <1>1, <1>2 DEF ReportsOK, Reported

(* write_report counts every row of its chunk.                             *)
LEMMA WholeReport ==
  ASSUME EInv, stage_pc = "report"
  PROVE  Reported(Pipeline!run_id,
           [state |-> "whole", digest |-> Pipeline!Digest(stage_cmd), cycles |-> Pipeline!Cycles("whole"),
            stats |-> Pipeline!write_report(Ulp,
                        Pipeline!RangesOf(stage_cmd)[chunk][1]
                          .. Pipeline!RangesOf(stage_cmd)[chunk][2] - 1)])
<1> DEFINE ranges == Pipeline!RangesOf(stage_cmd)
           first == ranges[chunk][1]
           end == ranges[chunk][2]
           stats == Pipeline!write_report(Ulp, first .. end - 1)
<1>1. RangesOK(ranges) /\ chunk \in 1 .. Len(ranges)
  BY RangesOfCommand DEF EInv, PlaceInRanges, Pipeline!Running, RangesOK
<1>2. first \in Nat /\ end \in Nat /\ first < end
  BY <1>1 DEF RangesOK
<1>3. stats.n = Cardinality(first .. end - 1)
  BY RowsCounted
<1>4. Pipeline!Size(Pipeline!run_id.range) = end - first
  BY DEF Pipeline!Size, Pipeline!run_id
<1>5. Pipeline!Cycles("whole") = 100
  BY DEF Pipeline!Cycles
<1> HIDE DEF ranges, first, end, stats
<1>6. Cardinality(first .. end - 1) = end - first
  BY <1>2, FS_Interval
<1> QED
  BY <1>3, <1>4, <1>5, <1>6 DEF Reported, stats, first, end, ranges

---------------------------------------------------------------------------
(* The steps of a campaign.                                                *)

LEMMA PipelineKeepsPlace ==
  ASSUME EInv, Pipeline!Next
  PROVE  PlaceInRanges'
<1>1. \A c \in StageCommands : 1 <= Len(Pipeline!RangesOf(c)) /\ Len(Pipeline!RangesOf(c)) \in Nat
  BY RangesOfCommand DEF RangesOK
<1>2. CASE Pipeline!Launch
  BY <1>1, <1>2 DEF Pipeline!Launch, PlaceInRanges, Pipeline!Running
<1>3. CASE Pipeline!NextChunk
  BY <1>1, <1>3 DEF Pipeline!NextChunk, EInv, PlaceInRanges, Pipeline!Running
<1>4. CASE UNCHANGED <<stage_cmd, chunk>> /\ Pipeline!Running
  BY <1>4 DEF EInv, PlaceInRanges, Pipeline!Running
<1> USE DEF Pipeline!Goto, Pipeline!Running
<1>5. CASE \/ Pipeline!SkipStage5 \/ Pipeline!OpenTrace \/ Pipeline!WriteTrace
           \/ Pipeline!OpenMetadata \/ Pipeline!WriteMetadata \/ Pipeline!Simulate
  BY <1>4, <1>5 DEF Pipeline!SkipStage5, Pipeline!OpenTrace, Pipeline!WriteTrace,
                    Pipeline!OpenMetadata, Pipeline!WriteMetadata, Pipeline!Simulate
<1>6. CASE Pipeline!WriteReport
  BY <1>4, <1>6 DEF Pipeline!WriteReport
<1>7. CASE \/ Pipeline!SkipStage6 \/ Pipeline!OpenMode1 \/ Pipeline!RunMode1 \/ Pipeline!WriteWall
  BY <1>4, <1>7 DEF Pipeline!SkipStage6, Pipeline!OpenMode1, Pipeline!RunMode1, Pipeline!WriteWall
<1>8. CASE \/ Pipeline!SkipStage7 \/ Pipeline!OpenReference \/ Pipeline!WriteReference
           \/ Pipeline!ProgramFails \/ Pipeline!Kill
  BY <1>4, <1>8 DEF Pipeline!SkipStage7, Pipeline!OpenReference, Pipeline!WriteReference,
                    Pipeline!ProgramFails, Pipeline!Kill
<1> QED
  BY <1>2, <1>3, <1>5, <1>6, <1>7, <1>8 DEF Pipeline!Next, Pipeline!Step

LEMMA PipelineKeepsReports ==
  ASSUME EInv, Pipeline!Next
  PROVE  ReportsOK'
<1> USE DEF EInv
<1>1. CASE UNCHANGED run_dirs
  BY <1>1 DEF ReportsOK, Reported
<1>2. CASE Pipeline!OpenTrace \/ Pipeline!WriteTrace
  BY <1>2, OtherField DEF Pipeline!OpenTrace, Pipeline!WriteTrace
<1>3. CASE Pipeline!OpenMetadata \/ Pipeline!WriteMetadata
  BY <1>3, OtherField DEF Pipeline!OpenMetadata, Pipeline!WriteMetadata
<1>4. CASE Pipeline!OpenMode1 \/ Pipeline!WriteWall
  BY <1>4, OtherField DEF Pipeline!OpenMode1, Pipeline!WriteWall
<1>5. CASE Pipeline!RunMode1
  BY <1>1, <1>5, OtherField DEF Pipeline!RunMode1
<1>6. CASE Pipeline!Simulate
  <2>1. Reported(Pipeline!run_id, Pipeline!EmptyReport)
    BY DEF Reported, Pipeline!EmptyReport, Pipeline!NoReport
  <2> QED
    BY <1>6, <2>1, ReportField DEF Pipeline!Simulate
<1>7. CASE Pipeline!WriteReport
  BY <1>7, WholeReport, ReportField DEF Pipeline!WriteReport
<1>8. CASE Pipeline!Launch \/ Pipeline!ProgramFails \/ Pipeline!Kill \/ Pipeline!NextChunk
  BY <1>1, <1>8 DEF Pipeline!Launch, Pipeline!ProgramFails, Pipeline!Kill, Pipeline!NextChunk,
                    Pipeline!files
<1>9. CASE \/ Pipeline!SkipStage5 \/ Pipeline!SkipStage6 \/ Pipeline!SkipStage7
           \/ Pipeline!OpenReference \/ Pipeline!WriteReference
  BY <1>1, <1>9 DEF Pipeline!SkipStage5, Pipeline!SkipStage6, Pipeline!SkipStage7,
                    Pipeline!OpenReference, Pipeline!WriteReference, Pipeline!files
<1> QED
  BY <1>2, <1>3, <1>4, <1>5, <1>6, <1>7, <1>8, <1>9 DEF Pipeline!Next, Pipeline!Step

(* What passes is a report with cycles, and its run's Mode 1 has as many.  *)
LEMMA Earned ==
  ASSUME ReportsOK, NEW t \in Pipeline!Modes, t.result = "PASS"
  PROVE  /\ t.row.stats.n = Pipeline!Size(t.row.range)
         /\ t.mode1 = Pipeline!Cycles("whole") /\ t.mode2 = Pipeline!Cycles("whole")
<1>1. PICK c \in Pipeline!Published :
        t = [row |-> c, mode1 |-> run_dirs[c.dir].mode1.cycles, mode2 |-> c.cycles,
             result |-> Pipeline!result(run_dirs[c.dir].mode1.cycles, c.cycles)]
  BY DEF Pipeline!Modes, Pipeline!consolidate_tier2
<1>2. c \in Pipeline!candidates(run_dirs)
  BY <1>1 DEF Pipeline!Published, Pipeline!consolidate_hf_weight_functional
<1>3. PICK k \in DOMAIN run_dirs :
        c = [layout |-> k.layout, source |-> k.source, range |-> k.range,
             digest |-> run_dirs[k].metadata, measured |-> run_dirs[k].report.digest,
             cycles |-> run_dirs[k].report.cycles, stats |-> run_dirs[k].report.stats,
             dir |-> k]
  BY <1>2 DEF Pipeline!candidates
<1>4. Reported(k, run_dirs[k].report)
  BY DEF ReportsOK
<1>5. t.mode1 # 0 /\ t.mode1 = t.mode2 /\ t.mode2 = run_dirs[k].report.cycles /\ t.row = c
  BY <1>1, <1>3 DEF Pipeline!result
<1>6. t.row.stats = run_dirs[k].report.stats /\ t.row.range = k.range
  BY <1>3, <1>5
<1> QED
  BY <1>4, <1>5, <1>6 DEF Reported, Pipeline!Cycles

LEMMA EInvInductive ==
  /\ ExperimentsInit => EInv
  /\ EInv /\ [ExperimentsNext]_experiments => EInv'
<1>1. ExperimentsInit => EInv
  <2> SUFFICES ASSUME ExperimentsInit PROVE EInv
    OBVIOUS
  <2>1. Pipeline!Init
    BY DEF ExperimentsInit
  <2>2. PlaceInRanges
    BY <2>1 DEF Pipeline!Init, PlaceInRanges, Pipeline!Running
  <2>3. ReportsOK
    BY <2>1 DEF Pipeline!Init, ReportsOK, Reported, Pipeline!NoReport
  <2> QED
    BY <2>2, <2>3 DEF EInv
<1>2. EInv /\ [ExperimentsNext]_experiments => EInv'
  <2> SUFFICES ASSUME EInv, [ExperimentsNext]_experiments PROVE EInv'
    OBVIOUS
  <2>1. CASE Pipeline!Next
    BY <2>1, PipelineKeepsPlace, PipelineKeepsReports DEF EInv
  <2>2. CASE UNCHANGED pipeline
    BY <2>2 DEF pipeline, EInv, PlaceInRanges, ReportsOK, Reported, Pipeline!Running
  <2>3. Pipeline!Next \/ UNCHANGED pipeline
    BY DEF ExperimentsNext, experiments, RunDownload, RunRunner, RunDriver, RunPipeline
  <2> QED
    BY <2>1, <2>2, <2>3
<1> QED
  BY <1>1, <1>2

(* Whatever was run, interrupted and consolidated in whatever state: a     *)
(* projection that passes has for each of its cases a Mode 2 report of all *)
(* its rows and a Mode 1 run that ended (consolidate_reference_time).      *)
THEOREM EarnedPass == ExperimentsSpec => []PassIsEarned
<1>1. EInv => PassIsEarned
  <2> SUFFICES ASSUME EInv, Pipeline!Timing.mode_cycle_result = "PASS",
                      NEW c \in Pipeline!Comparison
               PROVE  \E t \in Pipeline!Modes :
                        /\ Pipeline!SameCase(t.row, c.case)
                        /\ t.row.stats.n = Pipeline!Size(t.row.range)
                        /\ t.mode1 = Pipeline!Cycles("whole") /\ t.mode2 = Pipeline!Cycles("whole")
    BY DEF PassIsEarned, Pipeline!PassIsEarned
  <2>1. c.modes # {} /\ \A t \in c.modes : t.result = "PASS"
    BY Verdict
  <2>2. c.modes = {t \in Pipeline!Modes : Pipeline!SameCase(t.row, c.case)}
    BY DEF Pipeline!Comparison, Pipeline!consolidate_reference_time
  <2> QED
    BY <2>1, <2>2, Earned DEF EInv
<1> QED
  BY <1>1, EInvInductive, PTL DEF ExperimentsSpec

---------------------------------------------------------------------------
(* The chunks of a batch: the missing tokens, each in one of them.         *)

Splits(chunks, S) ==
  /\ chunks \in Seq(SUBSET S)
  /\ \A k \in DOMAIN chunks : chunks[k] # {}
  /\ \A i, j \in DOMAIN chunks : i # j => chunks[i] \cap chunks[j] = {}
  /\ \A n \in S : \E k \in DOMAIN chunks : n \in chunks[k]

(* The least number principle.                                             *)
LEMMA LeastNatural ==
  ASSUME NEW S \in SUBSET Nat, S # {}
  PROVE  \E x \in S : \A y \in S : x <= y
<1>1. PICK x \in S : \A y \in S : <<y, x>> \notin OpToRel(<, Nat)
  BY WFMin, NatLessThanWellFounded
<1>2. \A y \in S : ~(y < x)
  BY <1>1 DEF OpToRel
<1> QED
  BY <1>2

(* A finite set of numbers has one of every rank.                          *)
LEMMA Ranks ==
  ASSUME NEW S \in SUBSET Nat, IsFiniteSet(S)
  PROVE  LET rank(n) == Cardinality({m \in S : m < n})
         IN  /\ Cardinality(S) \in Nat
             /\ \A n \in S : rank(n) \in 0 .. Cardinality(S) - 1
             /\ \A i \in 0 .. Cardinality(S) - 1 : \E n \in S : rank(n) = i
             /\ \A m, n \in S : m < n => rank(m) < rank(n)
<1> DEFINE Below(n) == {m \in S : m < n}
           rank(n) == Cardinality(Below(n))
           c == Cardinality(S)
           f == [n \in S |-> rank(n)]
<1>1. c \in Nat
  BY FS_CardinalityType
<1>2. ASSUME NEW n \in S
      PROVE  IsFiniteSet(Below(n)) /\ rank(n) \in Nat /\ rank(n) < c
  <2>1. Below(n) \in SUBSET S /\ n \notin Below(n)
    OBVIOUS
  <2>2. IsFiniteSet(Below(n)) /\ rank(n) <= c /\ (c = rank(n) => S = Below(n))
    BY <2>1, FS_Subset
  <2>3. rank(n) \in Nat
    BY <2>2, FS_CardinalityType
  <2>4. c # rank(n)
    BY <2>1, <2>2
  <2> HIDE DEF rank, c, Below
  <2> QED
    BY <1>1, <2>2, <2>3, <2>4
<1>3. ASSUME NEW m \in S, NEW n \in S, m < n
      PROVE  rank(m) < rank(n)
  <2>1. Below(m) \in SUBSET Below(n) /\ m \in Below(n) /\ m \notin Below(m)
    <3>1. m \in Nat /\ n \in Nat /\ ~(m < m)
      OBVIOUS
    <3>2. \A k \in S : k < m => k < n
      BY <1>3, <3>1
    <3>3. Below(m) \in SUBSET Below(n)
      BY <3>2
    <3>4. m \in Below(n)
      BY <1>3
    <3>5. m \notin Below(m)
      BY <3>1
    <3> QED
      BY <3>3, <3>4, <3>5
  <2>2. rank(m) <= rank(n) /\ (rank(n) = rank(m) => Below(n) = Below(m))
    BY <1>2, <2>1, FS_Subset
  <2>3. rank(m) # rank(n)
    BY <2>1, <2>2
  <2>4. rank(m) \in Nat /\ rank(n) \in Nat
    BY <1>2
  <2> HIDE DEF rank, Below
  <2> QED
    BY <2>2, <2>3, <2>4
<1>4. f \in Injection(S, 0 .. c - 1)
  <2>1. \A n \in S : rank(n) \in 0 .. c - 1
    <3> TAKE n \in S
    <3>1. rank(n) \in Nat /\ rank(n) < c
      BY <1>2
    <3> HIDE DEF rank, c
    <3> QED
      BY <3>1, <1>1
  <2>2. \A m, n \in S : rank(m) = rank(n) => m = n
    <3> TAKE m, n \in S
    <3>1. m < n => rank(m) < rank(n)
      BY <1>3
    <3>2. n < m => rank(n) < rank(m)
      BY <1>3
    <3>3. rank(m) \in Nat /\ rank(n) \in Nat /\ m \in Nat /\ n \in Nat
      BY <1>2
    <3> HIDE DEF rank
    <3> QED
      BY <3>1, <3>2, <3>3
  <2> HIDE DEF rank, c
  <2> QED
    BY <2>1, <2>2 DEF Injection, IsInjective
<1>5. IsFiniteSet(0 .. c - 1) /\ Cardinality(0 .. c - 1) = c
  <2>1. c - 1 \in Int
    BY <1>1
  <2> HIDE DEF c
  <2> QED
    BY <1>1, <2>1, FS_Interval
<1>6. f \in Surjection(S, 0 .. c - 1)
  BY <1>4, <1>5, FS_Injection
<1>7. \A i \in 0 .. c - 1 : \E n \in S : rank(n) = i
  <2> HIDE DEF rank, c
  <2> QED
    BY <1>6 DEF Surjection
<1>8. \A n \in S : rank(n) \in 0 .. c - 1
  <2> HIDE DEF rank, c
  <2> QED
    BY <1>4 DEF Injection
<1> QED
  BY <1>1, <1>3, <1>7, <1>8

(* Slices of one size, the last one shorter, cover all ranks.              *)
LEMMA Counting ==
  ASSUME NEW c \in Nat \ {0}, NEW size \in Nat \ {0}
  PROVE  LET count == (c + size - 1) \div size
         IN  /\ count \in Nat
             /\ \A q \in 0 .. count - 1 : q * size \in 0 .. c - 1 /\ (q * size) \div size = q
             /\ \A i \in 0 .. c - 1 : i \div size \in 0 .. count - 1
<1> DEFINE count == (c + size - 1) \div size
<1>1. /\ count \in Nat /\ size * count <= c + size - 1 /\ c + size - 1 < size * count + size
  <2> DEFINE n == c + size - 1
  <2>1. n \in Nat
    OBVIOUS
  <2>2. /\ n \div size \in Nat /\ n = size * (n \div size) + (n % size)
        /\ n % size \in 0 .. size - 1
    BY <2>1, Quotient, Z3
  <2> QED
    BY <2>2, Z3
<1> HIDE DEF count
<1>2. ASSUME NEW q \in 0 .. count - 1
      PROVE  q * size \in 0 .. c - 1 /\ (q * size) \div size = q
  <2>1. q * size <= size * count - size /\ q * size \in Nat
    BY <1>1, Z3
  <2>2. (q * size) \div size = q
    BY <1>1, Z3
  <2> QED
    BY <1>1, <2>1, <2>2, Z3
<1>3. ASSUME NEW i \in 0 .. c - 1
      PROVE  i \div size \in 0 .. count - 1
  <2>1. i \div size \in Nat /\ size * (i \div size) <= i
    BY Quotient
  <2>2. size * (i \div size) < size * count
    BY <1>1, <2>1
  <2>3. i \div size < count
    BY <1>1, <2>1, <2>2, Z3
  <2> QED
    BY <1>1, <2>1, <2>3
<1> QED
  BY <1>1, <1>2, <1>3 DEF count

(* The chunks of that many ranks each have every element once.             *)
LEMMA ChunksSplit ==
  ASSUME NEW S \in SUBSET Nat, IsFiniteSet(S), S # {}, NEW size \in Nat \ {0}
  PROVE  LET rank(n) == Cardinality({m \in S : m < n})
             c == Cardinality(S)
         IN  Splits([k \in 1 .. (c + size - 1) \div size |->
                       {n \in S : rank(n) \div size = k - 1}], S)
<1> DEFINE rank(n) == Cardinality({m \in S : m < n})
           c == Cardinality(S)
           count == (c + size - 1) \div size
           chunks == [k \in 1 .. count |-> {n \in S : rank(n) \div size = k - 1}]
<1>1. /\ c \in Nat
      /\ \A n \in S : rank(n) \in 0 .. c - 1
      /\ \A i \in 0 .. c - 1 : \E n \in S : rank(n) = i
  BY Ranks
<1>2. c # 0
  BY FS_EmptySet
<1> HIDE DEF rank, c
<1>3. /\ count \in Nat
      /\ \A q \in 0 .. count - 1 : q * size \in 0 .. c - 1 /\ (q * size) \div size = q
      /\ \A i \in 0 .. c - 1 : i \div size \in 0 .. count - 1
  BY <1>1, <1>2, Counting
<1> HIDE DEF count
<1>4. chunks \in Seq(SUBSET S) /\ DOMAIN chunks = 1 .. count
  BY <1>3
<1>5. ASSUME NEW k \in 1 .. count PROVE chunks[k] # {}
  <2>1. k - 1 \in 0 .. count - 1
    BY <1>3
  <2>2. PICK n \in S : rank(n) = (k - 1) * size
    BY <1>1, <1>3, <2>1
  <2>3. rank(n) \div size = k - 1
    BY <1>3, <2>1, <2>2
  <2> QED
    BY <2>3
<1>6. ASSUME NEW i \in 1 .. count, NEW j \in 1 .. count, NEW n \in chunks[i], n \in chunks[j]
      PROVE  i = j
  <2>1. i - 1 = j - 1
    BY <1>6
  <2> QED
    BY <1>3, <2>1
<1>7. ASSUME NEW n \in S PROVE \E k \in 1 .. count : n \in chunks[k]
  <2>1. rank(n) \div size \in 0 .. count - 1
    BY <1>1, <1>3
  <2> DEFINE k == rank(n) \div size + 1
  <2>2. k \in 1 .. count /\ rank(n) \div size = k - 1
    BY <1>3, <2>1
  <2> HIDE DEF k
  <2>3. chunks[k] = {m \in S : rank(m) \div size = k - 1}
    BY <2>2
  <2> QED
    BY <2>2, <2>3
<1>8. Splits(chunks, S)
  <2> HIDE DEF chunks
  <2> QED
    BY <1>4, <1>5, <1>6, <1>7 DEF Splits
<1> QED
  BY <1>8 DEF chunks, count, rank, c

---------------------------------------------------------------------------
(* The runner: its state, and which cases it had when a forward began.     *)

Bits == {"none", "right", "wrong", "fail"}
Pcs == {"idle", "open_aimd", "close_aimd", "load", "simulate", "parse",
        "open_cache", "close_cache", "unlink"}
WorkType == [pc : Pcs, task : SUBSET Runner!Tokens, bits : Bits, left : SUBSET Runner!Tokens]
FileType == [exists : BOOLEAN, by : Workers \union {Runner!Nobody}, value : Bits]
CacheType == [rows : Nat, tail : Runner!Tails \union {"absent"}, value : Bits,
              by : Workers \union {Runner!Nobody}]

RunnerTypes ==
  /\ setup \in Setups
  /\ tasks \in Seq(SUBSET Runner!Tokens)
  /\ worker \in [Workers -> WorkType]
  /\ aimd \in [Runner!Dirs -> FileType] /\ csv \in [Runner!Dirs -> FileType]
  /\ cache \in [Activations -> CacheType]

(* A file with all rows ends behind them.                                  *)
CacheShape == \A a \in Activations : cache[a].rows = R => cache[a].tail = "none"

(* A task that waits has tokens, one unless it is a batch's.               *)
WaitingOK ==
  \A i \in DOMAIN tasks :
    /\ tasks[i] # {}
    /\ ~Runner!IsBatch => \E n \in Runner!Tokens : tasks[i] = {n}

(* What is left of the task of a worker fits to what it does.              *)
WorkerOK(r) ==
  /\ r.left \subseteq r.task
  /\ r.pc = "idle" => r = Runner!Idle
  /\ r.pc # "idle" => /\ r.task # {}
                      /\ ~Runner!IsBatch => \E n \in Runner!Tokens : r.task = {n}
  /\ r.pc \in {"open_aimd", "close_aimd", "load", "simulate", "parse"} => r.left = r.task
  /\ r.pc \in {"open_cache", "close_cache"} => r.left # {}
  /\ r.pc = "unlink" => r.left = {}

WorkOK ==
  /\ phase # "pool" => Runner!AllIdle
  /\ \A w \in Workers : WorkerOK(worker[w])

(* With resume: the cases that were whole when the forward began are, and  *)
(* nobody works on one of them.                                            *)
HadOK ==
  setup.resume =>
    /\ phase = "pool" => \A a \in had : a \in Activations /\ Runner!Complete(a)
    /\ \A w \in Workers : \A n \in worker[w].task : setup.prompt[n] \notin had
    /\ phase = "pool" /\ Runner!IsBatch =>
         \A i \in DOMAIN tasks : \A n \in tasks[i] : setup.prompt[n] \notin had

MInv == RunnerTypes /\ CacheShape /\ WaitingOK /\ WorkOK /\ HadOK

LEMMA SetupFacts ==
  ASSUME setup \in Setups
  PROVE  /\ setup.prompt \in Seq(Activations) /\ Len(setup.prompt) \in Nat
         /\ Runner!Tokens = 1 .. Len(setup.prompt)
         /\ \A n \in Runner!Tokens : setup.prompt[n] \in Activations
         /\ setup.parallel_workers \subseteq Workers
         /\ setup.batch_token_chunk_size \in Nat
<1>1. setup \in Runner!SetupType
  BY Assumptions DEF Runner!RunnerAssumption
<1>2. setup.prompt \in Seq(Activations) /\ setup.parallel_workers \subseteq Workers
      /\ setup.batch_token_chunk_size \in Nat
  BY <1>1 DEF Runner!SetupType
<1> HIDE DEF Runner!SetupType
<1> QED
  BY <1>2 DEF Runner!Tokens

LEMMA Bounds ==
  /\ R \in Nat \ {0}
  /\ Runner!Nobody \notin Workers
BY Assumptions DEF Runner!RunnerAssumption

(* One worker's step, when what it writes in the cache is its task's.      *)
LEMMA WorkerSteps ==
  ASSUME MInv, NEW w \in Workers, worker[w].pc # "idle", phase = "pool",
         NEW r \in WorkType, worker' = [worker EXCEPT ![w] = r], WorkerOK(r),
         r = Runner!Idle \/ r.task = worker[w].task,
         UNCHANGED <<setup, phase, tasks, had>>,
         cache' \in [Activations -> CacheType],
         \A a \in Activations :
           (\A n \in worker[w].task : setup.prompt[n] # a) => cache'[a] = cache[a]
  PROVE  /\ worker' \in [Workers -> WorkType]' /\ WaitingOK' /\ WorkOK' /\ HadOK'
<1>1. worker \in [Workers -> WorkType]
  BY DEF MInv, RunnerTypes
<1>2. /\ worker' \in [Workers -> WorkType]
      /\ worker'[w] = r /\ \A v \in Workers : v # w => worker'[v] = worker[v]
  BY <1>1
<1>3. [Workers -> WorkType]' = [Workers -> WorkType]
  BY DEF WorkType, Runner!Tokens
<1>4. WaitingOK'
  BY DEF MInv, WaitingOK, Runner!IsBatch, Runner!Tokens
<1>5. WorkOK'
  <2>1. \A v \in Workers : WorkerOK(worker'[v])
    BY <1>2 DEF MInv, WorkOK
  <2> QED
    BY <2>1 DEF WorkOK, WorkerOK, Runner!IsBatch, Runner!Tokens
<1>6. HadOK'
  <2> SUFFICES ASSUME setup.resume
               PROVE  /\ \A a \in had : a \in Activations /\ Runner!Complete(a)'
                      /\ \A v \in Workers : \A n \in worker'[v].task : setup.prompt[n] \notin had
                      /\ Runner!IsBatch =>
                           \A i \in DOMAIN tasks : \A n \in tasks[i] : setup.prompt[n] \notin had
    BY DEF HadOK, Runner!IsBatch
  <2>1. \A v \in Workers : worker'[v].task \subseteq worker[v].task
    BY <1>2 DEF Runner!Idle
  <2>2. \A v \in Workers : \A n \in worker[v].task : setup.prompt[n] \notin had
    BY DEF MInv, HadOK
  <2>3. ASSUME NEW a \in had PROVE a \in Activations /\ cache'[a] = cache[a]
    BY <2>2 DEF MInv, HadOK
  <2> QED
    BY <2>1, <2>2, <2>3 DEF MInv, HadOK, Runner!Complete
<1> QED
  BY <1>2, <1>3, <1>4, <1>5, <1>6

(* A worker's step on files keeps all of it.                               *)
LEMMA WorkerKeeps ==
  ASSUME MInv, NEW w \in Workers, worker[w].pc # "idle", phase = "pool",
         NEW r \in WorkType, worker' = [worker EXCEPT ![w] = r], WorkerOK(r),
         r = Runner!Idle \/ r.task = worker[w].task,
         UNCHANGED <<setup, phase, tasks, had>>,
         cache' \in [Activations -> CacheType], CacheShape',
         \A a \in Activations :
           (\A n \in worker[w].task : setup.prompt[n] # a) => cache'[a] = cache[a],
         aimd' \in [Runner!Dirs -> FileType], csv' \in [Runner!Dirs -> FileType]
  PROVE  MInv'
<1>1. /\ worker' \in [Workers -> WorkType]' /\ WaitingOK' /\ WorkOK' /\ HadOK'
  BY WorkerSteps
<1>2. Runner!Dirs' = Runner!Dirs /\ Runner!Tokens' = Runner!Tokens
  BY DEF Runner!Dirs, Runner!Tokens
<1>3. setup' \in Setups /\ tasks' \in Seq(SUBSET Runner!Tokens)
  BY DEF MInv, RunnerTypes
<1> QED
  BY <1>1, <1>2, <1>3 DEF MInv, RunnerTypes

LEMMA NextIsLeft ==
  ASSUME MInv, NEW w \in Workers, worker[w].left # {}
  PROVE  /\ Runner!NextToken(w) \in worker[w].left
         /\ Runner!NextToken(w) \in worker[w].task /\ Runner!NextToken(w) \in Runner!Tokens
<1>1. worker[w].left \in SUBSET Nat /\ worker[w].left \subseteq worker[w].task
      /\ worker[w].task \subseteq Runner!Tokens
  BY SetupFacts DEF MInv, RunnerTypes, WorkType, WorkOK, WorkerOK
<1>2. \E n \in worker[w].left : \A k \in worker[w].left : n <= k
  BY <1>1, LeastNatural
<1>3. Runner!NextToken(w) \in worker[w].left
  BY <1>2 DEF Runner!NextToken
<1> QED
  BY <1>1, <1>3

LEMMA TaskDirectory ==
  ASSUME MInv, NEW w \in Workers, worker[w].pc # "idle"
  PROVE  Runner!DirOf(worker[w].task) \in Runner!Dirs
<1>1. /\ worker[w].task # {} /\ worker[w].task \in SUBSET Runner!Tokens
      /\ ~Runner!IsBatch => \E n \in Runner!Tokens : worker[w].task = {n}
  BY DEF MInv, RunnerTypes, WorkType, WorkOK, WorkerOK
<1>2. CASE Runner!IsBatch
  BY <1>1, <1>2 DEF Runner!DirOf, Runner!Dirs
<1>3. CASE ~Runner!IsBatch
  <2>1. PICK n \in Runner!Tokens : worker[w].task = {n}
    BY <1>1, <1>3
  <2>2. (CHOOSE m \in worker[w].task : TRUE) = n
    BY <2>1
  <2>3. setup.prompt[n] \in Activations
    BY SetupFacts DEF MInv, RunnerTypes
  <2> QED
    BY <1>3, <2>2, <2>3 DEF Runner!DirOf, Runner!Dirs, Runner!case_dir_for
<1> QED
  BY <1>2, <1>3

LEMMA OpenAimdKeeps ==
  ASSUME MInv, NEW w \in Workers, Runner!open_aimd(w)
  PROVE  MInv'
<1> DEFINE r == [worker[w] EXCEPT !.pc = "close_aimd"]
<1>1. /\ worker' = [worker EXCEPT ![w] = r] /\ phase = "pool" /\ worker[w].pc = "open_aimd"
      /\ UNCHANGED <<setup, phase, tasks, had, csv, cache>>
  BY DEF Runner!open_aimd, Runner!At, Runner!Goto, Runner!Rest
<1>2. worker[w] \in WorkType /\ WorkerOK(worker[w])
  BY DEF MInv, RunnerTypes, WorkOK
<1>3. r \in WorkType /\ r.task = worker[w].task /\ WorkerOK(r)
  BY <1>1, <1>2 DEF WorkType, WorkerOK, Pcs
<1>4. aimd' \in [Runner!Dirs -> FileType]
  BY DEF Runner!open_aimd, Runner!OpenFile, MInv, RunnerTypes, FileType, Bits
<1> HIDE DEF r
<1> QED
  BY <1>1, <1>3, <1>4, WorkerKeeps DEF MInv, RunnerTypes, CacheShape

LEMMA ClosedFile ==
  ASSUME NEW f \in FileType, NEW w, NEW v \in Bits
  PROVE  Runner!CloseFile(f, w, v) \in FileType
BY DEF Runner!CloseFile, FileType

LEMMA CloseAimdKeeps ==
  ASSUME MInv, NEW w \in Workers, Runner!close_aimd(w)
  PROVE  MInv'
<1> DEFINE r == [worker[w] EXCEPT !.pc = "load"]
           d == Runner!DirOf(worker[w].task)
<1>1. /\ worker' = [worker EXCEPT ![w] = r] /\ phase = "pool" /\ worker[w].pc = "close_aimd"
      /\ UNCHANGED <<setup, phase, tasks, had, csv, cache>>
  BY DEF Runner!close_aimd, Runner!At, Runner!Goto, Runner!Rest
<1>2. worker[w] \in WorkType /\ WorkerOK(worker[w])
  BY DEF MInv, RunnerTypes, WorkOK
<1>3. r \in WorkType /\ r.task = worker[w].task /\ WorkerOK(r)
  BY <1>1, <1>2 DEF WorkType, WorkerOK, Pcs
<1>4. aimd' \in [Runner!Dirs -> FileType]
  <2>1. aimd' = [aimd EXCEPT ![d] = Runner!CloseFile(aimd[d], w, "right")]
    BY DEF Runner!close_aimd
  <2>2. d \in Runner!Dirs /\ aimd \in [Runner!Dirs -> FileType]
    BY <1>1, TaskDirectory DEF MInv, RunnerTypes
  <2> HIDE DEF d
  <2>3. Runner!CloseFile(aimd[d], w, "right") \in FileType
    BY <2>2, ClosedFile DEF Bits
  <2> QED
    BY <2>1, <2>2, <2>3
<1> HIDE DEF r
<1> QED
  BY <1>1, <1>3, <1>4, WorkerKeeps DEF MInv, RunnerTypes, CacheShape

LEMMA LoadKeeps ==
  ASSUME MInv, NEW w \in Workers, Runner!load(w)
  PROVE  MInv'
<1> DEFINE d == Runner!DirOf(worker[w].task)
<1>1. /\ phase = "pool" /\ worker[w].pc = "load" /\ csv' = [csv EXCEPT ![d] = Runner!OpenFile(csv[d], w)]
      /\ UNCHANGED <<setup, phase, tasks, had, aimd, cache>>
  BY DEF Runner!load, Runner!At, Runner!Rest
<1>2. d \in Runner!Dirs /\ aimd[d].value \in Bits
  BY <1>1, TaskDirectory DEF MInv, RunnerTypes, FileType
<1>3. PICK v \in Bits : worker' = [worker EXCEPT ![w].pc = "simulate", ![w].bits = v]
  BY <1>2 DEF Runner!load, Bits
<1> DEFINE r == [worker[w] EXCEPT !.pc = "simulate", !.bits = v]
<1>4. worker[w] \in WorkType /\ WorkerOK(worker[w])
  BY DEF MInv, RunnerTypes, WorkOK
<1>5. worker' = [worker EXCEPT ![w] = r]
  BY <1>3 DEF MInv, RunnerTypes
<1>6. r \in WorkType /\ r.task = worker[w].task /\ WorkerOK(r)
  BY <1>1, <1>4 DEF WorkType, WorkerOK, Pcs
<1>7. csv' \in [Runner!Dirs -> FileType]
  BY <1>1 DEF Runner!OpenFile, MInv, RunnerTypes, FileType, Bits
<1> HIDE DEF r, d
<1> QED
  BY <1>1, <1>5, <1>6, <1>7, WorkerKeeps DEF MInv, RunnerTypes, CacheShape

LEMMA RaiseKeeps ==
  ASSUME MInv, NEW w \in Workers, worker[w].pc # "idle", phase = "pool", Runner!Raise(w),
         UNCHANGED <<setup, phase, tasks, had, aimd, csv, cache>>
  PROVE  MInv'
<1>1. Runner!Idle \in WorkType /\ WorkerOK(Runner!Idle)
  BY DEF Runner!Idle, WorkType, WorkerOK, Pcs, Bits
<1>2. worker' = [worker EXCEPT ![w] = Runner!Idle]
  BY DEF Runner!Raise
<1> QED
  BY <1>1, <1>2, WorkerKeeps DEF MInv, RunnerTypes, CacheShape

LEMMA SimulateKeeps ==
  ASSUME MInv, NEW w \in Workers, Runner!simulate(w)
  PROVE  MInv'
<1> DEFINE r == [worker[w] EXCEPT !.pc = "parse"]
           d == Runner!DirOf(worker[w].task)
<1>1. /\ phase = "pool" /\ worker[w].pc = "simulate"
      /\ UNCHANGED <<setup, phase, tasks, had, aimd, cache>>
  BY DEF Runner!simulate, Runner!At, Runner!Rest
<1>2. CASE Runner!Raise(w) /\ UNCHANGED csv
  BY <1>1, <1>2, RaiseKeeps
<1>3. CASE Runner!Goto(w, "parse") /\ csv' = [csv EXCEPT ![d] = Runner!CloseFile(csv[d], w, worker[w].bits)]
  <2>1. worker[w] \in WorkType /\ WorkerOK(worker[w])
    BY DEF MInv, RunnerTypes, WorkOK
  <2>2. worker' = [worker EXCEPT ![w] = r]
    BY <1>3 DEF Runner!Goto
  <2>3. r \in WorkType /\ r.task = worker[w].task /\ WorkerOK(r)
    BY <1>1, <2>1 DEF WorkType, WorkerOK, Pcs
  <2>4. csv' \in [Runner!Dirs -> FileType]
    <3>1. d \in Runner!Dirs /\ csv \in [Runner!Dirs -> FileType] /\ worker[w].bits \in Bits
      BY <1>1, <2>1, TaskDirectory DEF MInv, RunnerTypes, WorkType
    <3> HIDE DEF d
    <3>2. Runner!CloseFile(csv[d], w, worker[w].bits) \in FileType
      BY <3>1, ClosedFile
    <3> QED
      BY <1>3, <3>1, <3>2
  <2> HIDE DEF r, d
  <2> QED
    BY <1>1, <2>2, <2>3, <2>4, WorkerKeeps DEF MInv, RunnerTypes, CacheShape
<1> QED
  BY <1>2, <1>3 DEF Runner!simulate

LEMMA ParseKeeps ==
  ASSUME MInv, NEW w \in Workers, Runner!parse(w)
  PROVE  MInv'
<1> DEFINE d == Runner!DirOf(worker[w].task)
           r == [worker[w] EXCEPT !.pc = "open_cache", !.bits = csv[d].value]
<1>1. /\ phase = "pool" /\ worker[w].pc = "parse"
      /\ UNCHANGED <<setup, phase, tasks, had, aimd, csv, cache>>
  BY DEF Runner!parse, Runner!At, Runner!Rest, Runner!FileVars
<1>2. CASE Runner!Raise(w)
  BY <1>1, <1>2, RaiseKeeps
<1>3. CASE worker' = [worker EXCEPT ![w].pc = "open_cache", ![w].bits = csv[d].value]
  <2>1. worker[w] \in WorkType /\ WorkerOK(worker[w])
    BY DEF MInv, RunnerTypes, WorkOK
  <2>2. worker' = [worker EXCEPT ![w] = r]
    BY <1>3 DEF MInv, RunnerTypes
  <2>3. csv[d].value \in Bits
    BY <1>1, TaskDirectory DEF MInv, RunnerTypes, FileType
  <2> HIDE DEF d
  <2>4. r \in WorkType /\ r.task = worker[w].task /\ WorkerOK(r)
    BY <1>1, <2>1, <2>3 DEF WorkType, WorkerOK, Pcs
  <2> HIDE DEF r
  <2> QED
    BY <1>1, <2>2, <2>4, WorkerKeeps DEF MInv, RunnerTypes, CacheShape
<1> QED
  BY <1>2, <1>3 DEF Runner!parse

LEMMA OpenCacheKeeps ==
  ASSUME MInv, NEW w \in Workers, Runner!open_cache(w)
  PROVE  MInv'
<1> DEFINE r == [worker[w] EXCEPT !.pc = "close_cache"]
           n == Runner!NextToken(w)
           a == setup.prompt[n]
           f == [Runner!CacheFile(0, "none", worker[w].bits) EXCEPT !.by = w]
<1>1. /\ phase = "pool" /\ worker[w].pc = "open_cache" /\ worker' = [worker EXCEPT ![w] = r]
      /\ cache' = [cache EXCEPT ![a] = f]
      /\ UNCHANGED <<setup, phase, tasks, had, aimd, csv>>
  BY DEF Runner!open_cache, Runner!At, Runner!Goto, Runner!Rest, Runner!case_dir_for
<1>2. worker[w] \in WorkType /\ WorkerOK(worker[w])
  BY DEF MInv, RunnerTypes, WorkOK
<1>3. r \in WorkType /\ r.task = worker[w].task /\ WorkerOK(r)
  BY <1>1, <1>2 DEF WorkType, WorkerOK, Pcs
<1>4. n \in worker[w].task
  BY <1>1, <1>2, NextIsLeft DEF WorkerOK
<1>5. f \in CacheType /\ f.rows = 0
  BY <1>2 DEF Runner!CacheFile, CacheType, WorkType, Runner!Tails
<1> HIDE DEF r, n, a, f
<1>6. cache' \in [Activations -> CacheType] /\ CacheShape'
  BY <1>1, <1>5, Bounds DEF MInv, RunnerTypes, CacheShape
<1>7. \A b \in Activations : (\A m \in worker[w].task : setup.prompt[m] # b) => cache'[b] = cache[b]
  BY <1>1, <1>4 DEF MInv, RunnerTypes, a
<1> QED
  BY <1>1, <1>3, <1>6, <1>7, WorkerKeeps DEF MInv, RunnerTypes

LEMMA CloseCacheKeeps ==
  ASSUME MInv, NEW w \in Workers, Runner!close_cache(w)
  PROVE  MInv'
<1> DEFINE n == Runner!NextToken(w)
           r == [worker[w] EXCEPT !.left = worker[w].left \ {n},
                                  !.pc = IF worker[w].left = {n} THEN "unlink" ELSE "open_cache"]
           a == setup.prompt[n]
           f == IF cache[a].by = w THEN Runner!CacheFile(R, "none", worker[w].bits) ELSE cache[a]
<1>1. /\ phase = "pool" /\ worker[w].pc = "close_cache"
      /\ cache' = [cache EXCEPT ![a] = f]
      /\ UNCHANGED <<setup, phase, tasks, had, aimd, csv>>
  BY DEF Runner!close_cache, Runner!At, Runner!Rest, Runner!case_dir_for
<1>2. worker[w] \in WorkType /\ WorkerOK(worker[w])
  BY DEF MInv, RunnerTypes, WorkOK
<1>3. worker' = [worker EXCEPT ![w] = r]
  BY DEF Runner!close_cache, MInv, RunnerTypes
<1>4. n \in worker[w].task /\ n \in worker[w].left /\ a \in Activations
  BY <1>1, <1>2, NextIsLeft, SetupFacts DEF WorkerOK, MInv, RunnerTypes
<1> HIDE DEF n
<1>5. r \in WorkType /\ r.task = worker[w].task /\ WorkerOK(r)
  <2>1. r.left = worker[w].left \ {n} /\ r.task = worker[w].task
        /\ r.pc = (IF worker[w].left = {n} THEN "unlink" ELSE "open_cache")
    BY <1>2 DEF WorkType
  <2>2. r \in WorkType
    BY <1>2 DEF WorkType, Pcs
  <2>3. r.pc = "unlink" => r.left = {}
    BY <2>1
  <2>4. r.pc = "open_cache" => r.left # {}
    BY <2>1, <1>4
  <2>5. r.left \subseteq r.task
    BY <2>1, <1>2 DEF WorkerOK
  <2> HIDE DEF r
  <2>6. r.pc \in {"unlink", "open_cache"}
    BY <2>1
  <2>7. r.task # {} /\ (~Runner!IsBatch => \E m \in Runner!Tokens : r.task = {m})
    BY <1>1, <1>2, <2>1 DEF WorkerOK
  <2> QED
    BY <2>1, <2>2, <2>3, <2>4, <2>5, <2>6, <2>7 DEF WorkerOK
<1>6. f \in CacheType /\ (f.rows = R => f.tail = "none")
  BY <1>2, <1>4, Bounds DEF Runner!CacheFile, CacheType, WorkType, MInv, RunnerTypes, CacheShape,
                             Runner!Tails
<1> HIDE DEF r, a, f
<1>7. cache' \in [Activations -> CacheType] /\ CacheShape'
  BY <1>1, <1>6 DEF MInv, RunnerTypes, CacheShape
<1>8. \A b \in Activations : (\A m \in worker[w].task : setup.prompt[m] # b) => cache'[b] = cache[b]
  BY <1>1, <1>4 DEF MInv, RunnerTypes, a
<1> QED
  BY <1>1, <1>3, <1>5, <1>7, <1>8, WorkerKeeps DEF MInv, RunnerTypes

LEMMA UnlinkKeeps ==
  ASSUME MInv, NEW w \in Workers, Runner!unlink(w)
  PROVE  MInv'
<1>1. /\ phase = "pool" /\ worker[w].pc = "unlink" /\ worker' = [worker EXCEPT ![w] = Runner!Idle]
      /\ UNCHANGED <<setup, phase, tasks, had, cache>>
  BY DEF Runner!unlink, Runner!At
<1>2. Runner!Idle \in WorkType /\ WorkerOK(Runner!Idle)
  BY DEF Runner!Idle, WorkType, WorkerOK, Pcs, Bits
<1>3. Runner!NoFile \in FileType
  BY DEF Runner!NoFile, FileType, Bits
<1>4. aimd' \in [Runner!Dirs -> FileType]
  BY <1>3 DEF Runner!unlink, MInv, RunnerTypes
<1>5. csv' \in [Runner!Dirs -> FileType]
  BY <1>3 DEF Runner!unlink, MInv, RunnerTypes
<1> QED
  BY <1>1, <1>2, <1>4, <1>5, WorkerKeeps DEF MInv, RunnerTypes, CacheShape

LEMMA SameCardinality == \A S : Runner!Cardinality(S) = Cardinality(S)
BY DEF Runner!Cardinality, Cardinality

(* The tokens of a prompt that are missing are each in one chunk.          *)
LEMMA BatchChunks ==
  ASSUME setup \in Setups, NEW missing \in SUBSET Runner!Tokens, missing # {}
  PROVE  Splits(Runner!batch_chunks(missing), missing)
<1> DEFINE c == Cardinality(missing)
           size == IF setup.batch_token_chunk_size = 0 THEN c ELSE setup.batch_token_chunk_size
           rank(n) == Cardinality({m \in missing : m < n})
           chunks == [k \in 1 .. (c + size - 1) \div size |->
                        {n \in missing : rank(n) \div size = k - 1}]
<1>1. missing \in SUBSET Nat /\ IsFiniteSet(missing)
  <2>1. Runner!Tokens = 1 .. Len(setup.prompt) /\ Len(setup.prompt) \in Nat
    BY SetupFacts
  <2>2. IsFiniteSet(1 .. Len(setup.prompt))
    BY <2>1, FS_Interval
  <2>3. missing \in SUBSET (1 .. Len(setup.prompt))
    BY <2>1
  <2>4. IsFiniteSet(missing)
    BY <2>2, <2>3, FS_Subset
  <2> QED
    BY <2>1, <2>3, <2>4
<1>2. size \in Nat \ {0}
  BY <1>1, SetupFacts, FS_CardinalityType, FS_EmptySet
<1>3. Runner!batch_chunks(missing) = chunks
  BY SameCardinality DEF Runner!batch_chunks
<1> HIDE DEF size
<1>4. Splits(chunks, missing)
  BY <1>1, <1>2, ChunksSplit
<1> QED
  BY <1>3, <1>4

(* A case that is looked up and missed is not whole.                       *)
LEMMA MissedIsIncomplete ==
  ASSUME RunnerTypes, CacheShape, setup.resume, NEW a \in Activations,
         NEW f \in Runner!Contents(a), Runner!read_cached_bits(f) = "miss"
  PROVE  ~Runner!Complete(a)
<1> SUFFICES ASSUME Runner!Complete(a) PROVE FALSE
  OBVIOUS
<1>1. f = cache[a] /\ cache[a].rows = R /\ cache[a].tail = "none"
  BY DEF Runner!Complete, Runner!Contents, CacheShape
<1>2. cache[a].value \in Bits /\ R \in Nat
  BY Bounds DEF RunnerTypes, CacheType
<1> QED
  BY <1>1, <1>2 DEF Runner!read_cached_bits, Bits

LEMMA TailOf ==
  ASSUME NEW S, NEW q \in Seq(S), q # <<>>
  PROVE  /\ Head(q) = q[1] /\ 1 \in DOMAIN q /\ q[1] \in S
         /\ Tail(q) \in Seq(S)
         /\ \A i \in DOMAIN Tail(q) : i + 1 \in DOMAIN q /\ i + 1 # 1 /\ Tail(q)[i] = q[i + 1]
         /\ \A i \in DOMAIN q : i # 1 => i - 1 \in DOMAIN Tail(q) /\ q[i] = Tail(q)[i - 1]
         /\ Len(Tail(q)) = Len(q) - 1
OBVIOUS

LEMMA PickTaskKeeps ==
  ASSUME MInv, NEW w \in Workers, Runner!PickTask(w)
  PROVE  MInv'
<1> DEFINE task == Head(tasks)
           work == [pc |-> "open_aimd", task |-> task, bits |-> "none", left |-> task]
<1>1. /\ phase = "pool" /\ tasks # <<>> /\ worker[w] = Runner!Idle /\ tasks' = Tail(tasks)
      /\ UNCHANGED <<setup, phase, had, aimd, csv, cache>>
      /\ \/ UNCHANGED worker
         \/ /\ worker' = [worker EXCEPT ![w] = work]
            /\ Runner!IsBatch \/ \E n \in task : \E f \in Runner!Contents(setup.prompt[n]) :
                                   Runner!read_cached_bits(f) = "miss"
  BY DEF Runner!PickTask, Runner!case_dir_for
<1>2. tasks \in Seq(SUBSET Runner!Tokens)
  BY DEF MInv, RunnerTypes
<1>3. /\ task = tasks[1] /\ 1 \in DOMAIN tasks /\ task \in SUBSET Runner!Tokens
      /\ tasks' \in Seq(SUBSET Runner!Tokens)
      /\ \A i \in DOMAIN tasks' : i + 1 \in DOMAIN tasks /\ tasks'[i] = tasks[i + 1]
  BY <1>1, <1>2, TailOf
<1> HIDE DEF task
<1>4. task # {} /\ (~Runner!IsBatch => \E n \in Runner!Tokens : task = {n})
  BY <1>3 DEF MInv, WaitingOK
<1>5. work \in WorkType /\ WorkerOK(work)
  BY <1>3, <1>4 DEF WorkType, Pcs, Bits, WorkerOK
<1>6. WaitingOK'
  BY <1>1, <1>3 DEF MInv, WaitingOK, Runner!IsBatch, Runner!Tokens
<1>7. worker' \in [Workers -> WorkType]
  BY <1>1, <1>5 DEF MInv, RunnerTypes
<1>8. RunnerTypes'
  BY <1>1, <1>3, <1>7 DEF MInv, RunnerTypes, WorkType, Runner!Tokens, Runner!Dirs
<1>9. CacheShape'
  BY <1>1 DEF MInv, CacheShape
<1>10. WorkOK'
  <2>1. \A v \in Workers : WorkerOK(worker[v])
    BY DEF MInv, WorkOK
  <2>2. \A v \in Workers : worker'[v] = worker[v] \/ worker'[v] = work
    BY <1>1 DEF MInv, RunnerTypes
  <2>3. \A v \in Workers : WorkerOK(worker'[v])
    BY <1>5, <2>1, <2>2
  <2> QED
    BY <1>1, <2>3 DEF WorkOK, WorkerOK, Runner!IsBatch, Runner!Tokens
<1>11. ASSUME setup.resume, worker' = [worker EXCEPT ![w] = work],
              Runner!IsBatch \/ \E n \in task : \E f \in Runner!Contents(setup.prompt[n]) :
                                  Runner!read_cached_bits(f) = "miss"
       PROVE  \A n \in task : setup.prompt[n] \notin had
  <2>1. CASE Runner!IsBatch
    BY <1>1, <1>3, <1>11, <2>1 DEF MInv, HadOK
  <2>2. CASE ~Runner!IsBatch
    <3>1. PICK n \in task : \E f \in Runner!Contents(setup.prompt[n]) :
                              Runner!read_cached_bits(f) = "miss"
      BY <1>11, <2>2
    <3>2. setup.prompt[n] \in Activations
      BY <1>3, SetupFacts DEF MInv, RunnerTypes
    <3>3. ~Runner!Complete(setup.prompt[n])
      BY <1>11, <3>1, <3>2, MissedIsIncomplete DEF MInv
    <3>4. setup.prompt[n] \notin had
      BY <1>1, <1>11, <3>3 DEF MInv, HadOK
    <3> QED
      BY <1>4, <2>2, <3>4
  <2> QED
    BY <2>1, <2>2
<1>12. HadOK'
  <2> SUFFICES ASSUME setup.resume
               PROVE  /\ \A a \in had : a \in Activations /\ Runner!Complete(a)'
                      /\ \A v \in Workers : \A n \in worker'[v].task : setup.prompt[n] \notin had
                      /\ Runner!IsBatch =>
                           \A i \in DOMAIN tasks' : \A n \in tasks'[i] : setup.prompt[n] \notin had
    BY <1>1 DEF HadOK, Runner!IsBatch
  <2>1. \A a \in had : a \in Activations /\ Runner!Complete(a)'
    BY <1>1 DEF MInv, HadOK, Runner!Complete
  <2>2. \A v \in Workers : \A n \in worker[v].task : setup.prompt[n] \notin had
    BY DEF MInv, HadOK
  <2>3. \A v \in Workers : \A n \in worker'[v].task : setup.prompt[n] \notin had
    <3>1. CASE UNCHANGED worker
      BY <2>2, <3>1
    <3>2. CASE ~UNCHANGED worker
      <4>1. \A n \in task : setup.prompt[n] \notin had
        BY <1>1, <1>11, <3>2
      <4>2. \A v \in Workers : worker'[v] = worker[v] \/ worker'[v] = work
        BY <1>1 DEF MInv, RunnerTypes
      <4> QED
        BY <2>2, <4>1, <4>2
    <3> QED
      BY <3>1, <3>2
  <2> QED
    BY <1>1, <1>3, <2>1, <2>3 DEF MInv, HadOK
<1> QED
  BY <1>6, <1>8, <1>9, <1>10, <1>12 DEF MInv

LEMMA BeginBatchKeeps ==
  ASSUME MInv, Runner!BeginBatch
  PROVE  MInv'
<1>1. /\ phase = "ready" /\ Runner!IsBatch /\ phase' = "pool"
      /\ had' = {a \in Activations : Runner!Complete(a)}
      /\ UNCHANGED <<setup, worker, aimd, csv, cache>>
  BY DEF Runner!BeginBatch
<1>2. PICK missing \in SUBSET Runner!Tokens :
        /\ \A n \in missing : \E f \in Runner!Contents(setup.prompt[n]) :
             Runner!read_cached_bits(f) = "miss"
        /\ tasks' = <<>> \/ (missing # {} /\ tasks' = Runner!batch_chunks(missing))
  <2>1. PICK found \in [Runner!Tokens -> {"miss", "raise", "right", "wrong"}] :
          /\ \A n \in Runner!Tokens : \E f \in Runner!Contents(Runner!case_dir_for(n)) :
               found[n] = Runner!read_cached_bits(f)
          /\ LET missing == {n \in Runner!Tokens : found[n] = "miss"}
             IN  tasks' = IF failed' \/ missing = {} THEN <<>> ELSE Runner!batch_chunks(missing)
    BY DEF Runner!BeginBatch
  <2> DEFINE missing == {n \in Runner!Tokens : found[n] = "miss"}
  <2>2. tasks' = <<>> \/ (missing # {} /\ tasks' = Runner!batch_chunks(missing))
    BY <2>1
  <2>3. \A n \in missing : \E f \in Runner!Contents(setup.prompt[n]) :
          Runner!read_cached_bits(f) = "miss"
    BY <2>1 DEF Runner!case_dir_for
  <2> HIDE DEF missing
  <2> QED
    BY <2>2, <2>3 DEF missing
<1>3. tasks' = <<>> \/ Splits(tasks', missing)
  BY <1>2, BatchChunks DEF MInv, RunnerTypes
<1>4. /\ tasks' \in Seq(SUBSET Runner!Tokens)
      /\ \A i \in DOMAIN tasks' : tasks'[i] # {} /\ tasks'[i] \subseteq missing
  <2>1. CASE tasks' = <<>>
    BY <2>1
  <2>2. CASE Splits(tasks', missing)
    BY <2>2 DEF Splits
  <2> QED
    BY <1>3, <2>1, <2>2
<1>5. \A w \in Workers : worker[w] = Runner!Idle
  BY <1>1 DEF MInv, WorkOK, Runner!AllIdle
<1>6. RunnerTypes'
  BY <1>1, <1>4 DEF MInv, RunnerTypes, WorkType, Runner!Tokens, Runner!Dirs
<1>7. CacheShape'
  BY <1>1 DEF MInv, CacheShape
<1>8. WaitingOK'
  BY <1>1, <1>4 DEF WaitingOK, Runner!IsBatch
<1>9. WorkOK'
  BY <1>1, <1>5 DEF MInv, WorkOK, WorkerOK, Runner!IsBatch, Runner!Tokens
<1>10. HadOK'
  <2> SUFFICES ASSUME setup.resume
               PROVE  /\ \A a \in had' : a \in Activations /\ Runner!Complete(a)'
                      /\ \A w \in Workers : \A n \in worker[w].task : setup.prompt[n] \notin had'
                      /\ \A i \in DOMAIN tasks' : \A n \in tasks'[i] : setup.prompt[n] \notin had'
    BY <1>1 DEF HadOK, Runner!IsBatch
  <2>1. \A a \in had' : a \in Activations /\ Runner!Complete(a)'
    BY <1>1 DEF Runner!Complete
  <2>2. \A w \in Workers : worker[w].task = {}
    BY <1>5 DEF Runner!Idle
  <2>3. ASSUME NEW n \in missing PROVE setup.prompt[n] \notin had'
    <3>1. setup.prompt[n] \in Activations
      BY SetupFacts DEF MInv, RunnerTypes
    <3>2. ~Runner!Complete(setup.prompt[n])
      BY <1>2, <3>1, MissedIsIncomplete DEF MInv
    <3> QED
      BY <1>1, <3>2
  <2> QED
    BY <1>4, <2>1, <2>2, <2>3
<1> QED
  BY <1>6, <1>7, <1>8, <1>9, <1>10 DEF MInv

LEMMA BeginSingleKeeps ==
  ASSUME MInv, Runner!BeginSingle
  PROVE  MInv'
<1>1. /\ phase = "ready" /\ ~Runner!IsBatch /\ phase' = "pool"
      /\ had' = {a \in Activations : Runner!Complete(a)}
      /\ tasks' = [n \in Runner!Tokens |-> {n}]
      /\ UNCHANGED <<setup, worker, aimd, csv, cache>>
  BY DEF Runner!BeginSingle
<1>2. tasks' \in Seq(SUBSET Runner!Tokens)
  <2>1. Runner!Tokens = 1 .. Len(setup.prompt) /\ Len(setup.prompt) \in Nat
    BY SetupFacts DEF MInv, RunnerTypes
  <2> DEFINE l == Len(setup.prompt)
             Ts == Runner!Tokens
  <2>2. Ts = 1 .. l /\ l \in Nat /\ tasks' = [n \in Ts |-> {n}]
    BY <1>1, <2>1
  <2> HIDE DEF l, Ts
  <2>3. tasks' \in Seq(SUBSET Ts)
    BY <2>2
  <2> QED
    BY <2>3 DEF Ts
<1>3. \A w \in Workers : worker[w] = Runner!Idle
  BY <1>1 DEF MInv, WorkOK, Runner!AllIdle
<1>4. RunnerTypes'
  BY <1>1, <1>2 DEF MInv, RunnerTypes, WorkType, Runner!Tokens, Runner!Dirs
<1>5. WaitingOK'
  BY <1>1 DEF WaitingOK, Runner!IsBatch, Runner!Tokens
<1>6. WorkOK'
  BY <1>1, <1>3 DEF MInv, WorkOK, WorkerOK, Runner!IsBatch, Runner!Tokens
<1>7. HadOK'
  BY <1>1, <1>3 DEF HadOK, Runner!IsBatch, Runner!Complete, Runner!Idle
<1> QED
  BY <1>1, <1>4, <1>5, <1>6, <1>7 DEF MInv, CacheShape

(* The steps of the process itself.                                        *)
LEMMA ProcessKeeps ==
  ASSUME MInv, Runner!EndForward \/ Runner!Exit \/ Runner!Finished
  PROVE  MInv'
<1>1. /\ UNCHANGED <<setup, tasks, worker, aimd, csv, cache, had>>
      /\ phase' # "pool" => Runner!AllIdle
      /\ phase' = "pool" => phase = "pool"
  BY DEF Runner!EndForward, Runner!Exit, Runner!Finished, Runner!FileVars, Runner!vars, MInv, WorkOK
<1>2. RunnerTypes' /\ CacheShape' /\ WaitingOK'
  BY <1>1 DEF MInv, RunnerTypes, WorkType, Runner!Tokens, Runner!Dirs, CacheShape, WaitingOK,
              Runner!IsBatch
<1>3. WorkOK'
  BY <1>1 DEF MInv, WorkOK, WorkerOK, Runner!AllIdle, Runner!IsBatch, Runner!Tokens
<1>4. HadOK'
  BY <1>1 DEF MInv, HadOK, Runner!Complete, Runner!IsBatch
<1> QED
  BY <1>2, <1>3, <1>4 DEF MInv

LEMMA RestartKeeps ==
  ASSUME MInv, Runner!Restart
  PROVE  MInv'
<1>1. /\ UNCHANGED <<setup, aimd, csv, cache>> /\ tasks' = <<>>
      /\ worker' = [w \in Workers |-> Runner!Idle] /\ had' = {} /\ phase' = "ready"
  BY DEF Runner!Restart, Runner!FileVars
<1>2. Runner!Idle \in WorkType /\ WorkerOK(Runner!Idle)
  BY DEF Runner!Idle, WorkType, WorkerOK, Pcs, Bits
<1>3. RunnerTypes' /\ CacheShape' /\ WaitingOK'
  BY <1>1, <1>2 DEF MInv, RunnerTypes, WorkType, Runner!Tokens, Runner!Dirs, CacheShape, WaitingOK
<1>4. WorkOK'
  BY <1>1, <1>2 DEF WorkOK, WorkerOK, Runner!AllIdle, Runner!IsBatch, Runner!Tokens
<1>5. HadOK'
  BY <1>1 DEF HadOK, Runner!Idle
<1> QED
  BY <1>3, <1>4, <1>5 DEF MInv

LEMMA CutShape ==
  ASSUME NEW v \in Bits, NEW f \in Runner!CutFiles(v)
  PROVE  /\ f \in CacheType /\ (f.rows = R => f.tail = "none")
         /\ f.by = Runner!Nobody /\ f.value = v /\ f.tail \in Runner!Tails
BY Bounds DEF Runner!CutFiles, Runner!CacheFile, CacheType, Runner!Tails

LEMMA KillKeeps ==
  ASSUME MInv, Runner!Kill
  PROVE  MInv'
<1>1. /\ UNCHANGED <<setup, tasks, aimd, csv, had>> /\ phase' = "exited"
      /\ worker' = [w \in Workers |-> Runner!Idle]
  BY DEF Runner!Kill
<1>2. /\ DOMAIN cache' = Activations
      /\ \A a \in Activations : cache'[a] = cache[a] \/ cache'[a] \in Runner!CutFiles(cache[a].value)
  <2>1. PICK left \in [Activations -> UNION {Runner!CutFiles(v) : v \in {"right", "wrong", "none"}}
                                      \union {Runner!NoCache}] :
          /\ \A a \in Activations : left[a] \in IF cache[a].by = Runner!Nobody THEN {cache[a]}
                                                ELSE Runner!CutFiles(cache[a].value)
          /\ cache' = left
    BY DEF Runner!Kill
  <2>2. \A a \in Activations : left[a] = cache[a] \/ left[a] \in Runner!CutFiles(cache[a].value)
    BY <2>1
  <2> QED
    BY <2>1, <2>2
<1>3. \A a \in Activations : cache[a] \in CacheType /\ cache[a].value \in Bits
  BY DEF MInv, RunnerTypes, CacheType
<1>4. \A a \in Activations : cache'[a] \in CacheType /\ (cache'[a].rows = R => cache'[a].tail = "none")
  BY <1>2, <1>3, CutShape DEF MInv, CacheShape
<1>5. cache' \in [Activations -> CacheType] /\ CacheShape'
  <2>1. cache' = [a \in Activations |-> cache'[a]]
    BY DEF Runner!Kill
  <2> QED
    BY <2>1, <1>4 DEF CacheShape
<1>6. Runner!Idle \in WorkType /\ WorkerOK(Runner!Idle)
  BY DEF Runner!Idle, WorkType, WorkerOK, Pcs, Bits
<1>7. RunnerTypes' /\ WaitingOK'
  BY <1>1, <1>5, <1>6 DEF MInv, RunnerTypes, WorkType, Runner!Tokens, Runner!Dirs, WaitingOK,
                          Runner!IsBatch
<1>8. WorkOK'
  BY <1>1, <1>6 DEF WorkOK, WorkerOK, Runner!AllIdle, Runner!IsBatch, Runner!Tokens
<1>9. HadOK'
  BY <1>1 DEF HadOK, Runner!Idle
<1> QED
  BY <1>5, <1>7, <1>8, <1>9 DEF MInv

LEMMA RunnerKeeps ==
  ASSUME MInv, Runner!Next
  PROVE  MInv'
<1>1. ASSUME NEW w \in Workers, Runner!Work(w) PROVE MInv'
  BY <1>1, PickTaskKeeps, OpenAimdKeeps, CloseAimdKeeps, LoadKeeps, SimulateKeeps, ParseKeeps,
     OpenCacheKeeps, CloseCacheKeeps, UnlinkKeeps DEF Runner!Work
<1> QED
  BY <1>1, BeginBatchKeeps, BeginSingleKeeps, ProcessKeeps, RestartKeeps, KillKeeps
     DEF Runner!Next

LEMMA RunnerStarts ==
  ASSUME Runner!Init
  PROVE  MInv
<1>1. /\ setup \in Setups /\ phase = "ready" /\ tasks = <<>> /\ had = {}
      /\ worker = [w \in Workers |-> Runner!Idle]
      /\ aimd = [d \in Runner!Dirs |-> Runner!NoFile] /\ csv = [d \in Runner!Dirs |-> Runner!NoFile]
      /\ cache = [a \in Activations |-> Runner!NoCache]
  BY DEF Runner!Init
<1>2. Runner!Idle \in WorkType /\ WorkerOK(Runner!Idle)
  BY DEF Runner!Idle, WorkType, WorkerOK, Pcs, Bits
<1>3. Runner!NoFile \in FileType /\ Runner!NoCache \in CacheType /\ Runner!NoCache.rows = 0
  BY DEF Runner!NoFile, FileType, Bits, Runner!NoCache, Runner!CacheFile, CacheType
<1>4. RunnerTypes /\ CacheShape /\ WaitingOK
  BY <1>1, <1>2, <1>3, Bounds DEF RunnerTypes, CacheShape, WaitingOK
<1>5. WorkOK /\ HadOK
  BY <1>1, <1>2 DEF WorkOK, HadOK, Runner!AllIdle, Runner!Idle
<1> QED
  BY <1>4, <1>5 DEF MInv

LEMMA MInvInductive ==
  /\ ExperimentsInit => MInv
  /\ MInv /\ [ExperimentsNext]_experiments => MInv'
<1>1. ExperimentsInit => MInv
  BY RunnerStarts DEF ExperimentsInit
<1>2. ASSUME MInv, UNCHANGED runner PROVE MInv'
  BY <1>2 DEF runner, MInv, RunnerTypes, CacheShape, WaitingOK, WorkOK, WorkerOK, HadOK, WorkType,
              Runner!Tokens, Runner!Dirs, Runner!IsBatch, Runner!AllIdle, Runner!Complete
<1>3. [ExperimentsNext]_experiments => Runner!Next \/ UNCHANGED runner
  BY DEF ExperimentsNext, experiments, RunDownload, RunRunner, RunDriver, RunPipeline
<1> QED
  BY <1>1, <1>2, <1>3, RunnerKeeps

(* Whatever workers, chunks, equal tokens and interruptions: a runner that *)
(* resumes simulates for missing cases only (run_gemv, run_gemv_batch).    *)
THEOREM RunsOnlyMissing == ExperimentsSpec => OnlyMissingRun
<1>1. MInv => \A w \in Workers : Runner!simulate(w) /\ setup.resume =>
                \E n \in worker[w].task : Runner!case_dir_for(n) \notin had
  <2> SUFFICES ASSUME MInv, NEW w \in Workers, Runner!simulate(w), setup.resume
               PROVE  \E n \in worker[w].task : setup.prompt[n] \notin had
    BY DEF Runner!case_dir_for
  <2>1. worker[w].pc = "simulate"
    BY DEF Runner!simulate, Runner!At
  <2>2. worker[w].task # {}
    BY <2>1 DEF MInv, WorkOK, WorkerOK
  <2> QED
    BY <2>2 DEF MInv, HadOK
<1>2. ExperimentsSpec => []MInv
  BY MInvInductive, PTL DEF ExperimentsSpec
<1>3. MInv => [\A w \in Workers : Runner!simulate(w) /\ setup.resume =>
                 \E n \in worker[w].task : Runner!case_dir_for(n) \notin had]_(Runner!vars)
  BY <1>1
<1> QED
  BY <1>2, <1>3, PTL DEF OnlyMissingRun, Runner!OnlyMissingRun

---------------------------------------------------------------------------
(* The runner's products are right, and counted once.                      *)

Members == \A w \in Workers : worker[w].pc # "idle" => w \in setup.parallel_workers

(* A token waits in one task or is worked on by one worker.                *)
Apart ==
  /\ \A v, w \in Workers : v # w => worker[v].task \cap worker[w].task = {}
  /\ \A i \in DOMAIN tasks : \A w \in Workers : tasks[i] \cap worker[w].task = {}
  /\ \A i, j \in DOMAIN tasks : i # j => tasks[i] \cap tasks[j] = {}

(* Tokens not yet looked at, not yet computed, simulated but not computed. *)
Waiting == {n \in Runner!Tokens : \E i \in DOMAIN tasks : n \in tasks[i]}
Left == {n \in Runner!Tokens : \E w \in Workers : n \in worker[w].left}
AfterRun == {"parse", "open_cache", "close_cache"}
Simulated ==
  {n \in Runner!Tokens : \E w \in Workers : n \in worker[w].left /\ worker[w].pc \in AfterRun}

Counters ==
  gemv \in Nat /\ gemv_calls \in Nat /\ cache_hits \in Nat /\ computed \in Nat /\ runs \in Nat

Counted ==
  /\ phase = "ready" =>
       /\ gemv_calls = gemv * Len(setup.prompt)
       /\ cache_hits + computed = gemv_calls
       /\ ~Runner!IsBatch => runs = computed
  /\ phase = "pool" /\ ~failed =>
       /\ Runner!IsBatch =>
            /\ gemv_calls = (gemv + 1) * Len(setup.prompt)
            /\ cache_hits + computed + Cardinality(Waiting \union Left) = gemv_calls
       /\ ~Runner!IsBatch =>
            /\ gemv_calls + Len(tasks) = (gemv + 1) * Len(setup.prompt)
            /\ cache_hits + computed + Cardinality(Left) = gemv_calls
            /\ runs = computed + Cardinality(Simulated)

(* Who works on what and what was counted: for every setup.                *)
CountInv == Members /\ Apart /\ Counters /\ Counted

(* What a worker finds in its directory is what it put there.              *)
Opened(w) == [exists |-> TRUE, by |-> w, value |-> "none"]
Right == [exists |-> TRUE, by |-> Runner!Nobody, value |-> "right"]

Directory(d, task) ==
  IF Runner!IsBatch THEN d = task ELSE \E n \in task : d = setup.prompt[n]

FilesRightOf(w) ==
  LET r == worker[w] IN
  \A d \in Runner!Dirs : Directory(d, r.task) =>
    /\ r.pc = "close_aimd" => aimd[d] = Opened(w)
    /\ r.pc = "load" => aimd[d] = Right
    /\ r.pc = "simulate" => csv[d] = Opened(w) /\ r.bits = "right"
    /\ r.pc = "parse" => csv[d] = Right
    /\ r.pc \in {"open_cache", "close_cache", "unlink"} => r.bits = "right"

FilesRight == \A w \in Workers : FilesRightOf(w)

(* A cached value is right wherever its file is cut, and a file that is    *)
(* open is that of a worker's next token.                                  *)
OpenBy(a, w) ==
  /\ cache[a].tail = "none" /\ worker[w].pc = "close_cache"
  /\ setup.prompt[Runner!NextToken(w)] = a

CacheRight ==
  \A a \in Activations :
    /\ cache[a].tail = "absent" \/ cache[a].value = "right"
    /\ \A w \in Workers : cache[a].by = w => OpenBy(a, w)

(* A file whose cut the reader does not notice, or cannot stand, is not    *)
(* the file of a token that was missed: nobody writes it again.            *)
Spoilt(a) == Runner!Misread(a) \/ Runner!Unreadable(a)
NoneSpoilt ==
  setup.resume =>
    /\ \A w \in Workers : \A n \in worker[w].task : ~Spoilt(setup.prompt[n])
    /\ phase = "pool" /\ Runner!IsBatch =>
         \A i \in DOMAIN tasks : \A n \in tasks[i] : ~Spoilt(setup.prompt[n])

Blamed ==
  /\ faults \in Nat
  /\ failed => \/ faults > 0
               \/ setup.resume /\ \E n \in Runner!Tokens : Runner!Unreadable(setup.prompt[n])

(* A token of a forward has its product or somebody still cares for it.    *)
Settled(n) == products[n] = "right" \/ (setup.resume /\ Runner!Misread(setup.prompt[n]))
Served ==
  phase = "pool" /\ ~failed =>
    \A n \in Runner!Tokens :
      \/ Settled(n)
      \/ \E i \in DOMAIN tasks : n \in tasks[i]
      \/ \E w \in Workers : n \in worker[w].task

(* What is stored and handed back: of workers with directories of their    *)
(* own.                                                                    *)
ProductInv == FilesRight /\ CacheRight /\ NoneSpoilt /\ Blamed /\ Served

RInv == CountInv /\ (~Runner!SharedCases => ProductInv)

LEMMA SharingFacts ==
  ASSUME ~Runner!SharedCases, ~Runner!IsBatch,
         NEW v \in setup.parallel_workers, NEW w \in setup.parallel_workers, v # w,
         NEW m \in Runner!Tokens, NEW n \in Runner!Tokens, m # n
  PROVE  setup.prompt[m] # setup.prompt[n]
BY DEF Runner!SharedCases, Runner!Parallel, Runner!case_dir_for

(* Counting.  A step of one worker leaves the others what they work on.    *)
LEMMA ApartKeeps ==
  ASSUME MInv, Members, Apart, NEW w \in Workers, worker[w].pc # "idle",
         NEW r \in WorkType, worker' = [worker EXCEPT ![w] = r],
         r = Runner!Idle \/ r.task = worker[w].task,
         UNCHANGED <<setup, tasks>>
  PROVE  Members' /\ Apart'
<1>1. worker'[w] = r /\ \A v \in Workers : v # w => worker'[v] = worker[v]
  BY DEF MInv, RunnerTypes
<1>2. Members'
  BY <1>1 DEF Members
<1>3. \A v \in Workers : worker'[v].task \subseteq worker[v].task
  BY <1>1 DEF Runner!Idle
<1>4. \A u, v \in Workers : u # v => worker'[u].task \cap worker'[v].task = {}
  BY <1>3 DEF Apart
<1>5. \A i \in DOMAIN tasks : \A v \in Workers : tasks[i] \cap worker'[v].task = {}
  BY <1>3 DEF Apart
<1> QED
  BY <1>2, <1>4, <1>5 DEF Apart

(* Steps between the simulation and the cache count nothing.               *)
LEMMA SetsKeep ==
  ASSUME MInv, NEW w \in Workers, NEW r \in WorkType, worker' = [worker EXCEPT ![w] = r],
         r.left = worker[w].left,
         r.left = {} \/ (r.pc \in AfterRun <=> worker[w].pc \in AfterRun),
         UNCHANGED <<setup, tasks>>
  PROVE  Waiting' = Waiting /\ Left' = Left /\ Simulated' = Simulated
<1>1. worker'[w] = r /\ \A v \in Workers : v # w => worker'[v] = worker[v]
  BY DEF MInv, RunnerTypes
<1>2. Waiting' = Waiting
  BY DEF Waiting, Runner!Tokens
<1>3. Left' = Left
  <2>1. \A v \in Workers : worker'[v].left = worker[v].left
    BY <1>1
  <2> QED
    BY <2>1 DEF Left, Runner!Tokens
<1>4. Simulated' = Simulated
  <2>1. \A v \in Workers : \A n : n \in worker'[v].left /\ worker'[v].pc \in AfterRun
                             <=> n \in worker[v].left /\ worker[v].pc \in AfterRun
    BY <1>1
  <2> HIDE DEF AfterRun
  <2> QED
    BY <2>1 DEF Simulated, Runner!Tokens
<1> QED
  BY <1>2, <1>3, <1>4

LEMMA CountQuiet ==
  ASSUME MInv, CountInv, NEW w \in Workers, worker[w].pc # "idle",
         NEW r \in WorkType, worker' = [worker EXCEPT ![w] = r],
         r.task = worker[w].task, r.left = worker[w].left,
         r.pc \in AfterRun <=> worker[w].pc \in AfterRun,
         UNCHANGED <<setup, phase, tasks, failed, gemv, gemv_calls, cache_hits, computed, runs>>
  PROVE  CountInv'
<1>1. Members' /\ Apart'
  BY ApartKeeps DEF CountInv
<1>2. Waiting' = Waiting /\ Left' = Left /\ Simulated' = Simulated
  BY SetsKeep
<1>3. Counters'
  BY DEF CountInv, Counters
<1>4. Counted'
  BY <1>2 DEF CountInv, Counted, Runner!IsBatch
<1> QED
  BY <1>1, <1>3, <1>4 DEF CountInv

LEMMA CountFiles ==
  ASSUME MInv, CountInv, NEW w \in Workers,
         Runner!open_aimd(w) \/ Runner!close_aimd(w) \/ Runner!load(w) \/ Runner!open_cache(w)
  PROVE  CountInv'
<1>1. /\ worker[w].pc \in {"open_aimd", "close_aimd", "load", "open_cache"}
      /\ UNCHANGED <<setup, phase, tasks, failed, gemv, gemv_calls, cache_hits, computed, runs>>
  BY DEF Runner!open_aimd, Runner!close_aimd, Runner!load, Runner!open_cache, Runner!At, Runner!Rest
<1>2. worker[w] \in WorkType
  BY DEF MInv, RunnerTypes
<1>3. CASE Runner!load(w)
  <2> DEFINE d == Runner!DirOf(worker[w].task)
  <2>1. aimd[d].value \in Bits
    BY <1>1, TaskDirectory DEF MInv, RunnerTypes, FileType
  <2>2. PICK v \in Bits : worker' = [worker EXCEPT ![w].pc = "simulate", ![w].bits = v]
    BY <1>3, <2>1 DEF Runner!load, Bits
  <2> DEFINE r == [worker[w] EXCEPT !.pc = "simulate", !.bits = v]
  <2>3. worker' = [worker EXCEPT ![w] = r]
    BY <2>2 DEF MInv, RunnerTypes
  <2>4. r \in WorkType /\ r.task = worker[w].task /\ r.left = worker[w].left /\ r.pc = "simulate"
    BY <1>2 DEF WorkType, Pcs
  <2>5. worker[w].pc = "load"
    BY <1>3 DEF Runner!load, Runner!At
  <2> HIDE DEF r, d
  <2> QED
    BY <1>1, <2>3, <2>4, <2>5, CountQuiet DEF AfterRun
<1>4. ASSUME NEW p \in Pcs, Runner!Goto(w, p), p \in AfterRun <=> worker[w].pc \in AfterRun
      PROVE  CountInv'
  <2> DEFINE r == [worker[w] EXCEPT !.pc = p]
  <2>1. worker' = [worker EXCEPT ![w] = r]
    BY <1>4 DEF Runner!Goto
  <2>2. r \in WorkType /\ r.task = worker[w].task /\ r.left = worker[w].left /\ r.pc = p
    BY <1>2 DEF WorkType
  <2> HIDE DEF r
  <2> QED
    BY <1>1, <1>4, <2>1, <2>2, CountQuiet
<1>5. CASE Runner!open_aimd(w)
  BY <1>4, <1>5 DEF Runner!open_aimd, Runner!At, Pcs, AfterRun
<1>6. CASE Runner!close_aimd(w)
  BY <1>4, <1>6 DEF Runner!close_aimd, Runner!At, Pcs, AfterRun
<1>7. CASE Runner!open_cache(w)
  BY <1>4, <1>7 DEF Runner!open_cache, Runner!At, Pcs, AfterRun
<1> QED
  BY <1>3, <1>5, <1>6, <1>7

LEMMA CountRaise ==
  ASSUME MInv, CountInv, NEW w \in Workers, worker[w].pc # "idle", phase = "pool",
         Runner!Raise(w), runs' \in Nat,
         UNCHANGED <<setup, phase, tasks, gemv, gemv_calls, cache_hits, computed>>
  PROVE  CountInv'
<1>1. /\ worker' = [worker EXCEPT ![w] = Runner!Idle] /\ failed'
      /\ Runner!Idle \in WorkType
  BY DEF Runner!Raise, Runner!Idle, WorkType, Pcs, Bits
<1>2. Members' /\ Apart'
  BY <1>1, ApartKeeps DEF CountInv
<1>3. Counters' /\ Counted'
  BY <1>1 DEF CountInv, Counters, Counted
<1> QED
  BY <1>2, <1>3 DEF CountInv

LEMMA CountParse ==
  ASSUME MInv, CountInv, NEW w \in Workers, Runner!parse(w)
  PROVE  CountInv'
<1> DEFINE d == Runner!DirOf(worker[w].task)
           r == [worker[w] EXCEPT !.pc = "open_cache", !.bits = csv[d].value]
<1>1. /\ phase = "pool" /\ worker[w].pc = "parse"
      /\ UNCHANGED <<setup, phase, tasks, gemv, gemv_calls, cache_hits, computed, runs>>
  BY DEF Runner!parse, Runner!At, Runner!Rest
<1>2. CASE Runner!Raise(w)
  BY <1>1, <1>2, CountRaise DEF CountInv, Counters
<1>3. CASE worker' = [worker EXCEPT ![w].pc = "open_cache", ![w].bits = csv[d].value] /\ UNCHANGED failed
  <2>1. worker[w] \in WorkType /\ csv[d].value \in Bits
    BY <1>1, TaskDirectory DEF MInv, RunnerTypes, FileType
  <2>2. worker' = [worker EXCEPT ![w] = r]
    BY <1>3 DEF MInv, RunnerTypes
  <2> HIDE DEF d
  <2>3. r \in WorkType /\ r.task = worker[w].task /\ r.left = worker[w].left /\ r.pc = "open_cache"
    BY <2>1 DEF WorkType, Pcs
  <2> HIDE DEF r
  <2> QED
    BY <1>1, <1>3, <2>2, <2>3, CountQuiet DEF AfterRun
<1> QED
  BY <1>2, <1>3 DEF Runner!parse

LEMMA LeftKeeps ==
  ASSUME MInv, NEW w \in Workers, NEW r \in WorkType, worker' = [worker EXCEPT ![w] = r],
         r.left = worker[w].left, UNCHANGED <<setup, tasks>>
  PROVE  Waiting' = Waiting /\ Left' = Left
<1>1. \A v \in Workers : worker'[v].left = worker[v].left
  BY DEF MInv, RunnerTypes
<1> QED
  BY <1>1 DEF Waiting, Left, Runner!Tokens

LEMMA Finite ==
  ASSUME setup \in Setups, NEW S \in SUBSET Runner!Tokens
  PROVE  IsFiniteSet(S) /\ Cardinality(S) \in Nat
<1>1. Runner!Tokens = 1 .. Len(setup.prompt) /\ Len(setup.prompt) \in Nat
  BY SetupFacts
<1>2. IsFiniteSet(Runner!Tokens)
  BY <1>1, FS_Interval
<1> QED
  BY <1>2, FS_Subset, FS_CardinalityType

LEMMA AddOne ==
  ASSUME setup \in Setups, NEW S \in SUBSET Runner!Tokens, NEW n \in Runner!Tokens, n \notin S
  PROVE  Cardinality(S \union {n}) = Cardinality(S) + 1
BY Finite, FS_AddElement

(* The token of a simulation that ended is not counted yet.                *)
LEMMA OneMoreSimulated ==
  ASSUME MInv, Apart, NEW w \in Workers, NEW r \in WorkType, worker' = [worker EXCEPT ![w] = r],
         worker[w].pc = "simulate", r.pc \in AfterRun, r.left = worker[w].left,
         ~Runner!IsBatch, UNCHANGED setup
  PROVE  Cardinality(Simulated') = Cardinality(Simulated) + 1
<1>1. worker'[w] = r /\ \A v \in Workers : v # w => worker'[v] = worker[v]
  BY DEF MInv, RunnerTypes
<1>2. WorkerOK(worker[w])
  BY DEF MInv, WorkOK
<1>3. PICK n \in Runner!Tokens : worker[w].task = {n} /\ worker[w].left = {n}
  BY <1>2 DEF WorkerOK
<1>4. \A v \in Workers : v # w => n \notin worker[v].left
  BY <1>3 DEF Apart, MInv, WorkOK, WorkerOK
<1>5. worker[w].pc \notin AfterRun
  BY DEF AfterRun
<1> HIDE DEF AfterRun
<1>6. n \notin Simulated
  BY <1>4, <1>5 DEF Simulated
<1>7. Simulated' = Simulated \union {n}
  <2>1. \A k \in Runner!Tokens :
          (\E v \in Workers : k \in worker'[v].left /\ worker'[v].pc \in AfterRun)
          <=> (\E v \in Workers : k \in worker[v].left /\ worker[v].pc \in AfterRun) \/ k = n
    BY <1>1, <1>3, <1>5
  <2> QED
    BY <2>1, <1>3 DEF Simulated, Runner!Tokens
<1>8. Simulated \in SUBSET Runner!Tokens /\ setup \in Setups
  BY DEF Simulated, MInv, RunnerTypes
<1> HIDE DEF Simulated
<1> QED
  BY <1>6, <1>7, <1>8, AddOne

LEMMA CountSimulate ==
  ASSUME MInv, CountInv, NEW w \in Workers, Runner!simulate(w)
  PROVE  CountInv'
<1> DEFINE r == [worker[w] EXCEPT !.pc = "parse"]
<1>1. /\ phase = "pool" /\ worker[w].pc = "simulate" /\ runs' = runs + 1 /\ runs' \in Nat
      /\ UNCHANGED <<setup, phase, tasks, gemv, gemv_calls, cache_hits, computed>>
  BY DEF Runner!simulate, Runner!At, Runner!Rest, CountInv, Counters
<1>2. CASE Runner!Raise(w)
  BY <1>1, <1>2, CountRaise
<1>3. CASE Runner!Goto(w, "parse") /\ UNCHANGED failed
  <2>1. worker' = [worker EXCEPT ![w] = r]
    BY <1>3 DEF Runner!Goto
  <2>2. r \in WorkType /\ r.task = worker[w].task /\ r.left = worker[w].left
        /\ r.pc = "parse"
    BY DEF MInv, RunnerTypes, WorkType, Pcs
  <2> HIDE DEF r
  <2>3. Members' /\ Apart'
    BY <1>1, <2>1, <2>2, ApartKeeps DEF CountInv
  <2>4. Counters'
    BY <1>1 DEF CountInv, Counters
  <2>5. Waiting' = Waiting /\ Left' = Left
    BY <1>1, <2>1, <2>2, LeftKeeps
  <2>6. ~Runner!IsBatch => Cardinality(Simulated') = Cardinality(Simulated) + 1
    BY <1>1, <2>1, <2>2, OneMoreSimulated DEF CountInv, AfterRun
  <2>7. Cardinality(Simulated) \in Nat
    BY Finite DEF MInv, RunnerTypes, Simulated
  <2> HIDE DEF Simulated
  <2>8. phase' = "pool" /\ Runner!IsBatch' = Runner!IsBatch
    BY <1>1 DEF Runner!IsBatch
  <2>9. CASE failed
    BY <1>3, <2>3, <2>4, <2>8, <2>9 DEF CountInv, Counted
  <2>10. CASE ~failed /\ Runner!IsBatch
    BY <1>1, <2>3, <2>4, <2>5, <2>8, <2>10 DEF CountInv, Counted
  <2>11. CASE ~failed /\ ~Runner!IsBatch
    <3>1. runs' = computed + Cardinality(Simulated')
      BY <1>1, <2>6, <2>7, <2>11 DEF CountInv, Counted, Counters
    <3> QED
      BY <1>1, <2>3, <2>4, <2>5, <2>8, <2>11, <3>1 DEF CountInv, Counted
  <2> QED
    BY <2>9, <2>10, <2>11
<1> QED
  BY <1>2, <1>3 DEF Runner!simulate

LEMMA RemoveOne ==
  ASSUME setup \in Setups, NEW S \in SUBSET Runner!Tokens, NEW n \in S
  PROVE  Cardinality(S \ {n}) = Cardinality(S) - 1 /\ Cardinality(S) \in Nat
BY Finite, FS_RemoveElement

(* A token that is computed is counted once.                               *)
LEMMA OneLessLeft ==
  ASSUME MInv, Apart, NEW w \in Workers, NEW r \in WorkType, worker' = [worker EXCEPT ![w] = r],
         worker[w].pc \in AfterRun, r.pc \in AfterRun \/ r.left = {},
         NEW n \in worker[w].left, r.left = worker[w].left \ {n},
         UNCHANGED <<setup, tasks>>
  PROVE  /\ Left' = Left \ {n} /\ n \in Left
         /\ (Waiting \union Left)' = (Waiting \union Left) \ {n}
         /\ Simulated' = Simulated \ {n} /\ n \in Simulated
<1>1. worker'[w] = r /\ \A v \in Workers : v # w => worker'[v] = worker[v]
  BY DEF MInv, RunnerTypes
<1>2. /\ n \in worker[w].task /\ n \in Runner!Tokens
      /\ \A v \in Workers : v # w => n \notin worker[v].left
      /\ \A i \in DOMAIN tasks : n \notin tasks[i]
  <2>1. \A v \in Workers : worker[v].left \subseteq worker[v].task
    BY DEF MInv, WorkOK, WorkerOK
  <2>2. worker[w].task \subseteq Runner!Tokens
    BY DEF MInv, RunnerTypes, WorkType
  <2> QED
    BY <2>1, <2>2 DEF Apart
<1> HIDE DEF AfterRun
<1>3. \A k : (\E v \in Workers : k \in worker'[v].left)
             <=> (\E v \in Workers : k \in worker[v].left) /\ k # n
  BY <1>1, <1>2
<1>4. \A k : (\E v \in Workers : k \in worker'[v].left /\ worker'[v].pc \in AfterRun)
             <=> (\E v \in Workers : k \in worker[v].left /\ worker[v].pc \in AfterRun) /\ k # n
  BY <1>1, <1>2
<1>5. Left' = Left \ {n} /\ n \in Left
  BY <1>2, <1>3 DEF Left, Runner!Tokens
<1>6. Simulated' = Simulated \ {n} /\ n \in Simulated
  BY <1>2, <1>4 DEF Simulated, Runner!Tokens
<1>7. Waiting' = Waiting /\ n \notin Waiting
  BY <1>2 DEF Waiting, Runner!Tokens
<1> QED
  BY <1>5, <1>6, <1>7

LEMMA OneMoved ==
  ASSUME NEW h \in Nat, NEW c \in Nat, NEW k \in Nat
  PROVE  h + (c + 1) + (k - 1) = h + c + k /\ (c + 1) + (k - 1) = c + k
OBVIOUS

LEMMA CountCloseCache ==
  ASSUME MInv, CountInv, NEW w \in Workers, Runner!close_cache(w)
  PROVE  CountInv'
<1> DEFINE n == Runner!NextToken(w)
           r == [worker[w] EXCEPT !.left = worker[w].left \ {n},
                                  !.pc = IF worker[w].left = {n} THEN "unlink" ELSE "open_cache"]
<1>1. /\ phase = "pool" /\ worker[w].pc = "close_cache" /\ computed' = computed + 1
      /\ UNCHANGED <<setup, phase, tasks, failed, gemv, gemv_calls, cache_hits, runs>>
  BY DEF Runner!close_cache, Runner!At, Runner!Rest
<1>2. worker[w] \in WorkType /\ WorkerOK(worker[w])
  BY DEF MInv, RunnerTypes, WorkOK
<1>3. worker' = [worker EXCEPT ![w] = r]
  BY DEF Runner!close_cache, MInv, RunnerTypes
<1>4. n \in worker[w].left
  BY <1>1, <1>2, NextIsLeft DEF WorkerOK
<1> HIDE DEF n
<1>5. /\ r \in WorkType /\ r.task = worker[w].task
      /\ r.left = worker[w].left \ {n}
      /\ r.pc = (IF worker[w].left = {n} THEN "unlink" ELSE "open_cache")
  BY <1>2 DEF WorkType, Pcs
<1> HIDE DEF r
<1>6. r.pc = "open_cache" \/ r.left = {}
  BY <1>5
<1>7. Members' /\ Apart' /\ Counters'
  <2>1. Members' /\ Apart'
    BY <1>1, <1>3, <1>5, ApartKeeps DEF CountInv
  <2> QED
    BY <1>1, <2>1 DEF CountInv, Counters
<1>8. /\ Left' = Left \ {n} /\ n \in Left
      /\ (Waiting \union Left)' = (Waiting \union Left) \ {n}
      /\ Simulated' = Simulated \ {n} /\ n \in Simulated
  BY <1>1, <1>3, <1>4, <1>5, <1>6, OneLessLeft DEF CountInv, AfterRun
<1> DEFINE open == Waiting \union Left
<1>9. /\ Left \in SUBSET Runner!Tokens /\ open \in SUBSET Runner!Tokens
      /\ Simulated \in SUBSET Runner!Tokens /\ setup \in Setups /\ n \in open
  BY <1>8 DEF Left, Waiting, Simulated, MInv, RunnerTypes
<1>10. open' = open \ {n}
  BY <1>8
<1>11. phase' = "pool" /\ Runner!IsBatch' = Runner!IsBatch
  BY <1>1 DEF Runner!IsBatch
<1>12. /\ phase = "pool" /\ ~failed /\ Runner!IsBatch =>
            /\ gemv_calls = (gemv + 1) * Len(setup.prompt)
            /\ cache_hits + computed + Cardinality(open) = gemv_calls
       /\ phase = "pool" /\ ~failed /\ ~Runner!IsBatch =>
            /\ gemv_calls + Len(tasks) = (gemv + 1) * Len(setup.prompt)
            /\ cache_hits + computed + Cardinality(Left) = gemv_calls
            /\ runs = computed + Cardinality(Simulated)
  BY DEF CountInv, Counted
<1>13. CASE failed
  BY <1>1, <1>7, <1>11, <1>13 DEF CountInv, Counted
<1>14. CASE ~failed /\ Runner!IsBatch
  <2> HIDE DEF open
  <2>1. Cardinality(open') = Cardinality(open) - 1 /\ Cardinality(open) \in Nat
    BY <1>9, <1>10, RemoveOne
  <2>2. cache_hits + (computed + 1) + (Cardinality(open) - 1) = cache_hits + computed + Cardinality(open)
    BY <2>1, OneMoved DEF CountInv, Counters
  <2>3. cache_hits + computed' + Cardinality(open') = gemv_calls
    BY <1>1, <1>12, <1>14, <2>1, <2>2
  <2> QED
    BY <1>1, <1>7, <1>11, <1>12, <1>14, <2>3 DEF CountInv, Counted, open
<1>15. CASE ~failed /\ ~Runner!IsBatch
  <2> HIDE DEF Left, Simulated
  <2>1. /\ Cardinality(Left') = Cardinality(Left) - 1 /\ Cardinality(Left) \in Nat
        /\ Cardinality(Simulated') = Cardinality(Simulated) - 1 /\ Cardinality(Simulated) \in Nat
    BY <1>8, <1>9, RemoveOne
  <2>2. cache_hits + (computed + 1) + (Cardinality(Left) - 1) = cache_hits + computed + Cardinality(Left)
    BY <2>1, OneMoved DEF CountInv, Counters
  <2>3. (computed + 1) + (Cardinality(Simulated) - 1) = computed + Cardinality(Simulated)
    BY <2>1, OneMoved DEF CountInv, Counters
  <2>4. cache_hits + computed' + Cardinality(Left') = gemv_calls
    BY <1>1, <1>12, <1>15, <2>1, <2>2
  <2>5. runs = computed' + Cardinality(Simulated')
    BY <1>1, <1>12, <1>15, <2>1, <2>3
  <2> QED
    BY <1>1, <1>7, <1>11, <1>12, <1>15, <2>4, <2>5 DEF CountInv, Counted
<1> QED
  BY <1>13, <1>14, <1>15

LEMMA CountUnlink ==
  ASSUME MInv, CountInv, NEW w \in Workers, Runner!unlink(w)
  PROVE  CountInv'
<1>1. /\ worker' = [worker EXCEPT ![w] = Runner!Idle] /\ worker[w].pc = "unlink"
      /\ UNCHANGED <<setup, phase, tasks, failed, gemv, gemv_calls, cache_hits, computed, runs>>
  BY DEF Runner!unlink, Runner!At, Runner!stats
<1>2. worker[w].left = {} /\ Runner!Idle \in WorkType
  BY <1>1 DEF MInv, WorkOK, WorkerOK, Runner!Idle, WorkType, Pcs, Bits
<1>3. Members' /\ Apart' /\ Counters'
  <2>1. Members' /\ Apart'
    BY <1>1, <1>2, ApartKeeps DEF CountInv
  <2> QED
    BY <1>1, <2>1 DEF CountInv, Counters
<1>4. Waiting' = Waiting /\ Left' = Left /\ Simulated' = Simulated
  BY <1>1, <1>2, SetsKeep DEF Runner!Idle
<1> QED
  BY <1>1, <1>3, <1>4 DEF CountInv, Counted, Runner!IsBatch

(* The first task is removed.                                              *)
LEMMA FirstTask ==
  ASSUME MInv, Apart, tasks # <<>>, tasks' = Tail(tasks)
  PROVE  /\ Head(tasks) = tasks[1] /\ 1 \in DOMAIN tasks /\ Head(tasks) \in SUBSET Runner!Tokens
         /\ \A i \in DOMAIN tasks' : i + 1 \in DOMAIN tasks /\ i + 1 # 1 /\ tasks'[i] = tasks[i + 1]
         /\ Len(tasks') = Len(tasks) - 1 /\ Len(tasks) \in Nat
         /\ \A n : (\E i \in DOMAIN tasks : n \in tasks[i])
                   <=> (\E i \in DOMAIN tasks' : n \in tasks'[i]) \/ n \in Head(tasks)
         /\ \A i, j \in DOMAIN tasks' : i # j => tasks'[i] \cap tasks'[j] = {}
<1>1. tasks \in Seq(SUBSET Runner!Tokens)
  BY DEF MInv, RunnerTypes
<1> DEFINE task == Head(tasks)
<1>2. /\ task = tasks[1] /\ 1 \in DOMAIN tasks /\ task \in SUBSET Runner!Tokens
      /\ \A i \in DOMAIN tasks' : i + 1 \in DOMAIN tasks /\ i + 1 # 1 /\ tasks'[i] = tasks[i + 1]
      /\ \A i \in DOMAIN tasks : i # 1 => i - 1 \in DOMAIN tasks' /\ tasks[i] = tasks'[i - 1]
      /\ Len(tasks') = Len(tasks) - 1 /\ Len(tasks) \in Nat
  BY <1>1, TailOf
<1> HIDE DEF task
<1>3. ASSUME NEW i \in DOMAIN tasks', NEW j \in DOMAIN tasks', i # j
      PROVE  tasks'[i] \cap tasks'[j] = {}
  <2>1. i \in Int /\ j \in Int
    BY <1>1
  <2>2. i + 1 # j + 1
    BY <1>3, <2>1
  <2> QED
    BY <1>2, <2>2 DEF Apart
<1>4. ASSUME NEW n, NEW i \in DOMAIN tasks, n \in tasks[i]
      PROVE  (\E j \in DOMAIN tasks' : n \in tasks'[j]) \/ n \in task
  BY <1>2, <1>4
<1>5. ASSUME NEW n, NEW i \in DOMAIN tasks', n \in tasks'[i]
      PROVE  \E j \in DOMAIN tasks : n \in tasks[j]
  BY <1>2, <1>5
<1> QED
  BY <1>2, <1>3, <1>4, <1>5 DEF task

(* A free worker takes the first task.                                     *)
LEMMA CountTake ==
  ASSUME MInv, CountInv,
         NEW w \in setup.parallel_workers, worker[w] = Runner!Idle, phase = "pool",
         tasks # <<>>, tasks' = Tail(tasks),
         NEW work \in WorkType, work.pc = "open_aimd",
         work.task = Head(tasks), work.left = Head(tasks),
         worker' = [worker EXCEPT ![w] = work],
         gemv_calls' = IF Runner!IsBatch THEN gemv_calls ELSE gemv_calls + 1,
         UNCHANGED <<setup, phase, failed, gemv, cache_hits, computed, runs>>
  PROVE  CountInv'
<1> DEFINE task == Head(tasks)
<1>1. w \in Workers /\ setup \in Setups
  BY SetupFacts DEF MInv, RunnerTypes
<1>2. /\ task = tasks[1] /\ 1 \in DOMAIN tasks /\ task \in SUBSET Runner!Tokens
      /\ \A i \in DOMAIN tasks' : i + 1 \in DOMAIN tasks /\ i + 1 # 1 /\ tasks'[i] = tasks[i + 1]
      /\ Len(tasks') = Len(tasks) - 1 /\ Len(tasks) \in Nat
      /\ \A n : (\E i \in DOMAIN tasks : n \in tasks[i])
                <=> (\E i \in DOMAIN tasks' : n \in tasks'[i]) \/ n \in task
      /\ \A i, j \in DOMAIN tasks' : i # j => tasks'[i] \cap tasks'[j] = {}
  BY FirstTask DEF CountInv
<1> HIDE DEF task
<1>3. /\ worker'[w] = work /\ work.task = task /\ work.left = task
      /\ worker[w].task = {} /\ worker[w].left = {} /\ worker[w].pc = "idle"
      /\ \A v \in Workers : v # w => worker'[v] = worker[v]
  BY <1>1 DEF MInv, RunnerTypes, Runner!Idle, task
<1>4. Members'
  BY <1>3 DEF CountInv, Members
<1>5. Apart'
  <2>1. ASSUME NEW u \in Workers, NEW v \in Workers, u # v
        PROVE  worker'[u].task \cap worker'[v].task = {}
    BY <1>2, <1>3, <2>1 DEF CountInv, Apart
  <2>2. ASSUME NEW i \in DOMAIN tasks', NEW v \in Workers
        PROVE  tasks'[i] \cap worker'[v].task = {}
    BY <1>2, <1>3 DEF CountInv, Apart
  <2> QED
    BY <1>2, <2>1, <2>2 DEF Apart
<1>6. Counters'
  BY DEF CountInv, Counters
<1>7. \A n : (\E v \in Workers : n \in worker'[v].left)
             <=> (\E v \in Workers : n \in worker[v].left) \/ n \in task
  BY <1>1, <1>3
<1>8. (Waiting \union Left)' = Waiting \union Left
  BY <1>2, <1>7 DEF Waiting, Left, Runner!Tokens
<1>9. Simulated' = Simulated
  <2> HIDE DEF AfterRun
  <2>1. worker[w].pc \notin AfterRun /\ worker'[w].pc \notin AfterRun
    BY <1>3 DEF AfterRun
  <2>2. \A n : (\E v \in Workers : n \in worker'[v].left /\ worker'[v].pc \in AfterRun)
               <=> (\E v \in Workers : n \in worker[v].left /\ worker[v].pc \in AfterRun)
    BY <1>3, <2>1
  <2> QED
    BY <2>2 DEF Simulated, Runner!Tokens
<1>10. Counted'
  <2>1. phase' = "pool" /\ Runner!IsBatch' = Runner!IsBatch
    BY DEF Runner!IsBatch
  <2>2. CASE failed
    BY <2>1, <2>2 DEF Counted
  <2>3. CASE ~failed /\ Runner!IsBatch
    BY <1>8, <2>1, <2>3 DEF CountInv, Counted
  <2>4. CASE ~failed /\ ~Runner!IsBatch
    <3>1. PICK n \in Runner!Tokens : task = {n}
      BY <1>2, <2>4 DEF MInv, WaitingOK
    <3>2. \A v \in Workers : n \notin worker[v].left
      BY <1>2, <3>1 DEF CountInv, Apart, MInv, WorkOK, WorkerOK
    <3>3. n \notin Left /\ Left' = Left \union {n}
      BY <1>7, <3>1, <3>2 DEF Left, Runner!Tokens
    <3>4. Left \in SUBSET Runner!Tokens
      BY DEF Left
    <3> HIDE DEF Left, Simulated
    <3>5. Cardinality(Left') = Cardinality(Left) + 1 /\ Cardinality(Left) \in Nat
      BY <1>1, <3>3, <3>4, AddOne, Finite
    <3>6. gemv_calls' + Len(tasks') = gemv_calls + Len(tasks)
      BY <1>2, <2>4 DEF CountInv, Counters
    <3>7. cache_hits + computed + Cardinality(Left') = gemv_calls'
      BY <2>4, <3>5 DEF CountInv, Counters, Counted
    <3> QED
      BY <1>9, <2>1, <2>4, <3>6, <3>7 DEF CountInv, Counted
  <2> QED
    BY <2>2, <2>3, <2>4
<1> QED
  BY <1>4, <1>5, <1>6, <1>10 DEF CountInv

(* A free worker finds the product in the cache, or nothing it can read.   *)
LEMMA CountLookup ==
  ASSUME MInv, CountInv, ~Runner!IsBatch, phase = "pool",
         tasks # <<>>, tasks' = Tail(tasks), gemv_calls' = gemv_calls + 1,
         \/ cache_hits' = cache_hits + 1 /\ UNCHANGED failed
         \/ failed' = TRUE /\ UNCHANGED cache_hits,
         UNCHANGED <<worker, setup, phase, gemv, computed, runs>>
  PROVE  CountInv'
<1>1. /\ \A i \in DOMAIN tasks' : i + 1 \in DOMAIN tasks /\ tasks'[i] = tasks[i + 1]
      /\ Len(tasks') = Len(tasks) - 1 /\ Len(tasks) \in Nat
      /\ \A i, j \in DOMAIN tasks' : i # j => tasks'[i] \cap tasks'[j] = {}
  BY FirstTask DEF CountInv
<1>2. Members' /\ Apart'
  BY <1>1 DEF CountInv, Members, Apart
<1>3. Counters'
  BY DEF CountInv, Counters
<1>4. CASE failed'
  BY <1>2, <1>3, <1>4 DEF CountInv, Counted
<1>5. CASE cache_hits' = cache_hits + 1 /\ UNCHANGED failed /\ ~failed'
  <2>1. Left' = Left /\ Simulated' = Simulated
    BY DEF Left, Simulated, Runner!Tokens
  <2>2. Cardinality(Left) \in Nat
    BY Finite DEF Left, MInv, RunnerTypes
  <2> HIDE DEF Left, Simulated
  <2>3. gemv_calls' + Len(tasks') = gemv_calls + Len(tasks)
    BY <1>1 DEF CountInv, Counters
  <2>4. cache_hits' + computed + Cardinality(Left') = gemv_calls'
    BY <1>5, <2>1, <2>2 DEF CountInv, Counters, Counted
  <2>5. phase' = "pool" /\ ~Runner!IsBatch'
    BY DEF Runner!IsBatch
  <2> QED
    BY <1>2, <1>3, <1>5, <2>1, <2>3, <2>4, <2>5 DEF CountInv, Counted
<1> QED
  BY <1>4, <1>5

(* What the step is made of, for what it counts and for what it finds.     *)
LEMMA Picked ==
  ASSUME MInv, NEW w \in Workers, Runner!PickTask(w)
  PROVE  LET work == [pc |-> "open_aimd", task |-> Head(tasks), bits |-> "none", left |-> Head(tasks)]
         IN  /\ phase = "pool" /\ tasks # <<>> /\ worker[w] = Runner!Idle /\ tasks' = Tail(tasks)
             /\ w \in setup.parallel_workers
             /\ UNCHANGED <<setup, phase, gemv, computed, runs, kills, faults, aimd, csv, cache>>
             /\ work \in WorkType
             /\ Runner!IsBatch =>
                  /\ worker' = [worker EXCEPT ![w] = work]
                  /\ UNCHANGED <<failed, products, gemv_calls, cache_hits>>
             /\ ~Runner!IsBatch =>
                  /\ gemv_calls' = gemv_calls + 1
                  /\ \E n \in Runner!Tokens : Head(tasks) = {n} /\ n \in tasks[1]
                       /\ \E f \in Runner!Contents(setup.prompt[n]) :
                       LET found == Runner!read_cached_bits(f)
                       IN  \/ /\ found = "miss"
                              /\ worker' = [worker EXCEPT ![w] = work]
                              /\ UNCHANGED <<failed, products, cache_hits>>
                           \/ /\ found = "raise" /\ failed' = TRUE
                              /\ UNCHANGED <<worker, products, cache_hits>>
                           \/ /\ found \in {"right", "wrong"}
                              /\ products' = [products EXCEPT ![n] = found]
                              /\ cache_hits' = cache_hits + 1
                              /\ UNCHANGED <<worker, failed>>
<1> DEFINE task == Head(tasks)
           work == [pc |-> "open_aimd", task |-> task, bits |-> "none", left |-> task]
           Looked(n) ==
             \E f \in Runner!Contents(setup.prompt[n]) :
               LET found == Runner!read_cached_bits(f)
               IN  \/ /\ found = "miss"
                      /\ worker' = [worker EXCEPT ![w] = work]
                      /\ UNCHANGED <<failed, products, cache_hits>>
                   \/ /\ found = "raise" /\ failed' = TRUE
                      /\ UNCHANGED <<worker, products, cache_hits>>
                   \/ /\ found \in {"right", "wrong"}
                      /\ products' = [products EXCEPT ![n] = found]
                      /\ cache_hits' = cache_hits + 1
                      /\ UNCHANGED <<worker, failed>>
<1>1. /\ phase = "pool" /\ tasks # <<>> /\ worker[w] = Runner!Idle /\ tasks' = Tail(tasks)
      /\ w \in setup.parallel_workers
      /\ UNCHANGED <<setup, phase, gemv, computed, runs, kills, faults, aimd, csv, cache>>
  BY DEF Runner!PickTask, Runner!Parallel
<1>2. /\ task = tasks[1] /\ 1 \in DOMAIN tasks /\ task \in SUBSET Runner!Tokens
      /\ ~Runner!IsBatch => \E n \in Runner!Tokens : task = {n}
  BY <1>1, TailOf DEF MInv, RunnerTypes, WaitingOK
<1>3. work \in WorkType
  BY <1>2 DEF WorkType, Pcs, Bits
<1>4. Runner!IsBatch => /\ worker' = [worker EXCEPT ![w] = work]
                        /\ UNCHANGED <<failed, products, gemv_calls, cache_hits>>
  BY DEF Runner!PickTask
<1>5. ASSUME ~Runner!IsBatch
      PROVE  gemv_calls' = gemv_calls + 1 /\ \E n \in task : Looked(n)
  BY <1>5 DEF Runner!PickTask, Runner!case_dir_for
<1> HIDE DEF work, Looked
<1>6. ~Runner!IsBatch => /\ gemv_calls' = gemv_calls + 1
                         /\ \E n \in Runner!Tokens : task = {n} /\ n \in tasks[1] /\ Looked(n)
  BY <1>2, <1>5
<1> QED
  BY <1>1, <1>3, <1>4, <1>6 DEF work, Looked

LEMMA CountPickTask ==
  ASSUME MInv, CountInv, NEW w \in Workers, Runner!PickTask(w)
  PROVE  CountInv'
<1> DEFINE work == [pc |-> "open_aimd", task |-> Head(tasks), bits |-> "none", left |-> Head(tasks)]
<1>1. /\ phase = "pool" /\ tasks # <<>> /\ worker[w] = Runner!Idle /\ tasks' = Tail(tasks)
      /\ w \in setup.parallel_workers
      /\ UNCHANGED <<setup, phase, gemv, computed, runs>>
      /\ work \in WorkType
      /\ Runner!IsBatch => /\ worker' = [worker EXCEPT ![w] = work]
                           /\ UNCHANGED <<failed, gemv_calls, cache_hits>>
      /\ ~Runner!IsBatch => gemv_calls' = gemv_calls + 1
      /\ ~Runner!IsBatch =>
           \/ worker' = [worker EXCEPT ![w] = work] /\ UNCHANGED <<failed, cache_hits>>
           \/ failed' = TRUE /\ UNCHANGED <<worker, cache_hits>>
           \/ cache_hits' = cache_hits + 1 /\ UNCHANGED <<worker, failed>>
  BY Picked
<1>2. work.pc = "open_aimd" /\ work.task = Head(tasks) /\ work.left = Head(tasks)
  OBVIOUS
<1> HIDE DEF work
<1>3. CASE worker' = [worker EXCEPT ![w] = work] /\ UNCHANGED <<failed, cache_hits>>
  BY <1>1, <1>2, <1>3, CountTake
<1>4. CASE ~Runner!IsBatch /\ failed' = TRUE /\ UNCHANGED <<worker, cache_hits>>
  BY <1>1, <1>4, CountLookup
<1>5. CASE ~Runner!IsBatch /\ cache_hits' = cache_hits + 1 /\ UNCHANGED <<worker, failed>>
  BY <1>1, <1>5, CountLookup
<1> QED
  BY <1>1, <1>3, <1>4, <1>5

LEMMA OneForwardMore ==
  ASSUME NEW k \in Nat, NEW l \in Nat
  PROVE  (k + 1) * l = k * l + l /\ k * l \in Nat
OBVIOUS

LEMMA TokenCount ==
  ASSUME setup \in Setups
  PROVE  Cardinality(Runner!Tokens) = Len(setup.prompt) /\ Len(setup.prompt) \in Nat
<1>1. Runner!Tokens = 1 .. Len(setup.prompt) /\ Len(setup.prompt) \in Nat
  BY SetupFacts
<1> DEFINE l == Len(setup.prompt)
<1>2. l \in Nat /\ Runner!Tokens = 1 .. l
  BY <1>1
<1> HIDE DEF l
<1>3. Cardinality(1 .. l) = l
  BY <1>2, FS_Interval
<1> QED
  BY <1>2, <1>3 DEF l

(* The lookups of a batch: the missing tokens are handed out, each once.   *)
LEMMA BatchBegun ==
  ASSUME MInv, Runner!BeginBatch
  PROVE  \E found \in [Runner!Tokens -> {"miss", "raise", "right", "wrong"}] :
           LET hits == {n \in Runner!Tokens : found[n] \in {"right", "wrong"}}
               missing == {n \in Runner!Tokens : found[n] = "miss"}
           IN  /\ \A n \in Runner!Tokens : \E f \in Runner!Contents(setup.prompt[n]) :
                    found[n] = Runner!read_cached_bits(f)
               /\ failed' = (hits \union missing # Runner!Tokens)
               /\ cache_hits' = cache_hits + Cardinality(hits)
               /\ products' = [n \in Runner!Tokens |-> IF n \in hits THEN found[n] ELSE "none"]
               /\ tasks' = <<>> \/ Splits(tasks', missing)
               /\ ~failed' => \A n : n \in missing <=> \E i \in DOMAIN tasks' : n \in tasks'[i]
<1>1. setup \in Setups
  BY DEF MInv, RunnerTypes
<1>2. PICK found \in [Runner!Tokens -> {"miss", "raise", "right", "wrong"}] :
        /\ \A n \in Runner!Tokens : \E f \in Runner!Contents(Runner!case_dir_for(n)) :
             found[n] = Runner!read_cached_bits(f)
        /\ LET hits == {n \in Runner!Tokens : found[n] \in {"right", "wrong"}}
               missing == {n \in Runner!Tokens : found[n] = "miss"}
           IN  /\ failed' = (hits \union missing # Runner!Tokens)
               /\ cache_hits' = cache_hits + Runner!Cardinality(hits)
               /\ products' = [n \in Runner!Tokens |-> IF n \in hits THEN found[n] ELSE "none"]
               /\ tasks' = IF failed' \/ missing = {} THEN <<>> ELSE Runner!batch_chunks(missing)
  BY DEF Runner!BeginBatch
<1> DEFINE hits == {n \in Runner!Tokens : found[n] \in {"right", "wrong"}}
           missing == {n \in Runner!Tokens : found[n] = "miss"}
<1>3. /\ failed' = (hits \union missing # Runner!Tokens)
      /\ cache_hits' = cache_hits + Cardinality(hits)
      /\ products' = [n \in Runner!Tokens |-> IF n \in hits THEN found[n] ELSE "none"]
      /\ tasks' = <<>> \/ (missing # {} /\ tasks' = Runner!batch_chunks(missing))
      /\ ~failed' /\ missing # {} => tasks' = Runner!batch_chunks(missing)
      /\ missing \in SUBSET Runner!Tokens
  BY <1>2, SameCardinality
<1>4. \A n \in Runner!Tokens : \E f \in Runner!Contents(setup.prompt[n]) :
        found[n] = Runner!read_cached_bits(f)
  BY <1>2 DEF Runner!case_dir_for
<1> HIDE DEF missing, hits
<1>5. tasks' = <<>> \/ Splits(tasks', missing)
  BY <1>1, <1>3, BatchChunks
<1>6. ~failed' => \A n : n \in missing <=> \E i \in DOMAIN tasks' : n \in tasks'[i]
  <2> SUFFICES ASSUME ~failed'
               PROVE  \A n : n \in missing <=> \E i \in DOMAIN tasks' : n \in tasks'[i]
    OBVIOUS
  <2>1. CASE missing = {}
    BY <1>3, <2>1
  <2>2. CASE missing # {}
    <3>1. Splits(tasks', missing)
      BY <1>1, <1>3, <2>2, BatchChunks
    <3> QED
      BY <3>1 DEF Splits
  <2> QED
    BY <2>1, <2>2
<1> QED
  BY <1>3, <1>4, <1>5, <1>6 DEF hits, missing

LEMMA CountBeginBatch ==
  ASSUME MInv, CountInv, Runner!BeginBatch
  PROVE  CountInv'
<1>1. /\ phase = "ready" /\ Runner!IsBatch /\ phase' = "pool"
      /\ UNCHANGED <<setup, gemv, worker, runs, computed>>
      /\ gemv_calls' = gemv_calls + Len(setup.prompt)
  BY DEF Runner!BeginBatch
<1>2. setup \in Setups /\ \A w \in Workers : worker[w] = Runner!Idle
  BY <1>1 DEF MInv, RunnerTypes, WorkOK, Runner!AllIdle
<1>3. PICK hits \in SUBSET Runner!Tokens, missing \in SUBSET Runner!Tokens :
        /\ hits \cap missing = {} /\ failed' = (hits \union missing # Runner!Tokens)
        /\ cache_hits' = cache_hits + Cardinality(hits)
        /\ tasks' = <<>> \/ Splits(tasks', missing)
        /\ ~failed' => \A n : n \in missing <=> \E i \in DOMAIN tasks' : n \in tasks'[i]
  <2>1. PICK found \in [Runner!Tokens -> {"miss", "raise", "right", "wrong"}] :
           LET hits == {n \in Runner!Tokens : found[n] \in {"right", "wrong"}}
               missing == {n \in Runner!Tokens : found[n] = "miss"}
           IN  /\ failed' = (hits \union missing # Runner!Tokens)
               /\ cache_hits' = cache_hits + Cardinality(hits)
               /\ tasks' = <<>> \/ Splits(tasks', missing)
               /\ ~failed' => \A n : n \in missing <=> \E i \in DOMAIN tasks' : n \in tasks'[i]
    BY BatchBegun
  <2> DEFINE hits == {n \in Runner!Tokens : found[n] \in {"right", "wrong"}}
             missing == {n \in Runner!Tokens : found[n] = "miss"}
  <2>2. hits \in SUBSET Runner!Tokens /\ missing \in SUBSET Runner!Tokens /\ hits \cap missing = {}
    OBVIOUS
  <2> HIDE DEF hits, missing
  <2>3. /\ failed' = (hits \union missing # Runner!Tokens)
        /\ cache_hits' = cache_hits + Cardinality(hits)
        /\ tasks' = <<>> \/ Splits(tasks', missing)
        /\ ~failed' => \A n : n \in missing <=> \E i \in DOMAIN tasks' : n \in tasks'[i]
    BY <2>1 DEF hits, missing
  <2> QED
    BY <2>2, <2>3
<1>4. Members' /\ Left' = {}
  BY <1>1, <1>2 DEF Members, Left, Runner!Idle
<1>5. Apart'
  <2>1. \A w \in Workers : worker'[w].task = {}
    BY <1>1, <1>2 DEF Runner!Idle
  <2>2. CASE tasks' = <<>>
    BY <2>1, <2>2 DEF Apart
  <2>3. CASE Splits(tasks', missing)
    BY <2>1, <2>3 DEF Apart, Splits
  <2> QED
    BY <1>3, <2>2, <2>3
<1>6. Cardinality(hits) \in Nat /\ Cardinality(missing) \in Nat
  BY <1>2, <1>3, Finite
<1>7. Counters'
  BY <1>1, <1>2, <1>3, <1>6, SetupFacts DEF CountInv, Counters
<1>8. Counted'
  <2> SUFFICES ASSUME ~failed'
               PROVE  /\ gemv_calls' = (gemv + 1) * Len(setup.prompt)
                      /\ cache_hits' + computed + Cardinality((Waiting \union Left)') = gemv_calls'
    BY <1>1 DEF Counted, Runner!IsBatch
  <2>1. (Waiting \union Left)' = missing
    BY <1>1, <1>3, <1>4 DEF Waiting, Runner!Tokens
  <2>2. Cardinality(hits) + Cardinality(missing) = Len(setup.prompt) /\ Len(setup.prompt) \in Nat
    <3>1. hits \union missing = Runner!Tokens
      BY <1>3
    <3>2. IsFiniteSet(hits) /\ IsFiniteSet(missing)
      BY <1>2, <1>3, Finite
    <3>3. Cardinality(hits \union missing)
            = Cardinality(hits) + Cardinality(missing) - Cardinality(hits \cap missing)
      BY <3>2, FS_Union
    <3>4. Cardinality(hits \cap missing) = 0
      BY <1>3, FS_EmptySet
    <3>5. Cardinality(hits \union missing) = Len(setup.prompt) /\ Len(setup.prompt) \in Nat
      BY <1>2, <3>1, TokenCount
    <3> QED
      BY <1>6, <3>3, <3>4, <3>5
  <2>3. gemv_calls = gemv * Len(setup.prompt) /\ cache_hits + computed = gemv_calls
    BY <1>1 DEF CountInv, Counted
  <2>4. (gemv + 1) * Len(setup.prompt) = gemv * Len(setup.prompt) + Len(setup.prompt)
    BY <2>2, OneForwardMore DEF CountInv, Counters
  <2>5. gemv_calls' = (gemv + 1) * Len(setup.prompt)
    BY <1>1, <2>3, <2>4
  <2>6. cache_hits' + computed + Cardinality(missing) = gemv_calls'
    BY <1>1, <1>3, <1>6, <2>2, <2>3 DEF CountInv, Counters
  <2> QED
    BY <2>1, <2>5, <2>6
<1> QED
  BY <1>4, <1>5, <1>7, <1>8 DEF CountInv

LEMMA CountBeginSingle ==
  ASSUME MInv, CountInv, Runner!BeginSingle
  PROVE  CountInv'
<1>1. /\ phase = "ready" /\ ~Runner!IsBatch /\ phase' = "pool"
      /\ tasks' = [n \in Runner!Tokens |-> {n}]
      /\ UNCHANGED <<setup, gemv, worker, failed, gemv_calls, cache_hits, runs, computed>>
  BY DEF Runner!BeginSingle, Runner!stats
<1>2. setup \in Setups /\ \A w \in Workers : worker[w] = Runner!Idle
  BY <1>1 DEF MInv, RunnerTypes, WorkOK, Runner!AllIdle
<1>3. Members' /\ Left' = {} /\ Simulated' = {}
  BY <1>1, <1>2 DEF Members, Left, Simulated, Runner!Idle
<1>4. Apart' /\ Counters'
  BY <1>1, <1>2 DEF Apart, Runner!Idle, CountInv, Counters
<1>5. Counted'
  <2>1. Len(tasks') = Len(setup.prompt) /\ Len(setup.prompt) \in Nat
    <3>1. Runner!Tokens = 1 .. Len(setup.prompt) /\ Len(setup.prompt) \in Nat
      BY <1>2, SetupFacts
    <3> DEFINE l == Len(setup.prompt)
    <3>2. l \in Nat /\ tasks' = [n \in 1 .. l |-> {n}]
      BY <1>1, <3>1
    <3> HIDE DEF l
    <3>3. Len(tasks') = l
      BY <3>2
    <3> QED
      BY <3>2, <3>3 DEF l
  <2>2. gemv_calls = gemv * Len(setup.prompt) /\ cache_hits + computed = gemv_calls /\ runs = computed
    BY <1>1 DEF CountInv, Counted
  <2>3. (gemv + 1) * Len(setup.prompt) = gemv * Len(setup.prompt) + Len(setup.prompt)
    BY <2>1, OneForwardMore DEF CountInv, Counters
  <2>4. Cardinality(Left') = 0 /\ Cardinality(Simulated') = 0
    BY <1>3, FS_EmptySet
  <2>5. gemv_calls + Len(tasks') = (gemv + 1) * Len(setup.prompt)
    BY <2>1, <2>2, <2>3
  <2>6. /\ cache_hits + computed + Cardinality(Left') = gemv_calls
        /\ runs = computed + Cardinality(Simulated')
    BY <2>2, <2>4 DEF CountInv, Counters
  <2>7. phase' = "pool" /\ ~Runner!IsBatch'
    BY <1>1 DEF Runner!IsBatch
  <2> HIDE DEF Left, Simulated
  <2> QED
    BY <1>1, <2>5, <2>6, <2>7 DEF Counted
<1> QED
  BY <1>3, <1>4, <1>5 DEF CountInv

(* What a forward that returns has counted.                                *)
LEMMA CountReturned ==
  ASSUME MInv, CountInv, Runner!EndForward
  PROVE  /\ gemv' = gemv + 1
         /\ gemv_calls = (gemv + 1) * Len(setup.prompt)
         /\ cache_hits + computed = gemv_calls
         /\ ~Runner!IsBatch => runs = computed
<1>1. /\ phase = "pool" /\ tasks = <<>> /\ ~failed /\ gemv' = gemv + 1
      /\ \A w \in Workers : worker[w] = Runner!Idle
  BY DEF Runner!EndForward, Runner!AllIdle
<1>2. Waiting \union Left = {} /\ Left = {} /\ Simulated = {}
  BY <1>1 DEF Waiting, Left, Simulated, Runner!Idle
<1> HIDE DEF Waiting, Left, Simulated
<1>3. Cardinality(Waiting \union Left) = 0 /\ Cardinality(Left) = 0 /\ Cardinality(Simulated) = 0
  BY <1>2, FS_EmptySet
<1>4. Len(tasks) = 0
  BY <1>1
<1>5. gemv_calls = (gemv + 1) * Len(setup.prompt)
  <2>1. gemv_calls + 0 = gemv_calls
    BY DEF CountInv, Counters
  <2> QED
    BY <1>1, <1>4, <2>1 DEF CountInv, Counted
<1>6. cache_hits + computed = gemv_calls
  <2>1. cache_hits + computed + 0 = cache_hits + computed
    BY DEF CountInv, Counters
  <2> QED
    BY <1>1, <1>3, <2>1 DEF CountInv, Counted
<1>7. ~Runner!IsBatch => runs = computed
  BY <1>1, <1>3 DEF CountInv, Counters, Counted
<1> QED
  BY <1>1, <1>5, <1>6, <1>7

LEMMA CountProcess ==
  ASSUME MInv, CountInv, Runner!EndForward \/ Runner!Exit \/ Runner!Finished \/ Runner!Kill
  PROVE  CountInv'
<1>1. UNCHANGED <<setup, tasks, gemv_calls, cache_hits, runs, computed>>
  BY DEF Runner!EndForward, Runner!Exit, Runner!Finished, Runner!Kill, Runner!vars, Runner!stats
<1>2. UNCHANGED worker \/ worker' = [w \in Workers |-> Runner!Idle]
  BY DEF Runner!EndForward, Runner!Exit, Runner!Finished, Runner!Kill, Runner!vars
<1>3. Members' /\ Apart'
  BY <1>1, <1>2 DEF CountInv, Members, Apart, Runner!Idle
<1>4. CASE Runner!EndForward
  <2>1. gemv' = gemv + 1 /\ phase' # "pool"
    BY <1>4 DEF Runner!EndForward
  <2>2. Counters'
    BY <1>1, <2>1 DEF CountInv, Counters
  <2>3. Counted'
    BY <1>1, <1>4, <2>1, CountReturned DEF Counted, Runner!IsBatch
  <2> QED
    BY <1>3, <2>2, <2>3 DEF CountInv
<1>5. CASE Runner!Exit \/ Runner!Finished \/ Runner!Kill
  <2>1. gemv' = gemv /\ phase' \in {"exited", "finished"}
    BY <1>5 DEF Runner!Exit, Runner!Finished, Runner!Kill, Runner!vars
  <2> QED
    BY <1>1, <1>3, <2>1 DEF CountInv, Counters, Counted
<1> QED
  BY <1>4, <1>5

LEMMA CountStart ==
  ASSUME setup \in Setups, phase = "ready", tasks = <<>>, worker = [w \in Workers |-> Runner!Idle],
         gemv = 0, gemv_calls = 0, cache_hits = 0, runs = 0, computed = 0
  PROVE  CountInv
<1>1. 0 * Len(setup.prompt) = 0
  BY TokenCount
<1> QED
  BY <1>1 DEF CountInv, Members, Apart, Counters, Counted, Runner!Idle

LEMMA CountRestart ==
  ASSUME MInv, Runner!Restart
  PROVE  CountInv'
<1>1. /\ setup' = setup /\ setup \in Setups /\ tasks' = <<>> /\ phase' = "ready"
      /\ worker' = [w \in Workers |-> Runner!Idle]
      /\ gemv' = 0 /\ gemv_calls' = 0 /\ cache_hits' = 0 /\ runs' = 0 /\ computed' = 0
  BY DEF Runner!Restart, MInv, RunnerTypes
<1>2. 0 * Len(setup.prompt) = 0
  BY <1>1, TokenCount
<1> QED
  BY <1>1, <1>2 DEF CountInv, Members, Apart, Counters, Counted, Runner!Idle

LEMMA RunnerCounts ==
  ASSUME MInv, CountInv, Runner!Next
  PROVE  CountInv'
<1>1. ASSUME NEW w \in Workers, Runner!Work(w) PROVE CountInv'
  BY <1>1, CountPickTask, CountFiles, CountSimulate, CountParse, CountCloseCache, CountUnlink
     DEF Runner!Work
<1> QED
  BY <1>1, CountBeginBatch, CountBeginSingle, CountProcess, CountRestart DEF Runner!Next

---------------------------------------------------------------------------
(* Products.                                                               *)

LEMMA DirectoryOfTask ==
  ASSUME MInv, NEW w \in Workers, worker[w].pc # "idle"
  PROVE  \A d : Directory(d, worker[w].task) <=> d = Runner!DirOf(worker[w].task)
<1>1. ~Runner!IsBatch => \E n \in Runner!Tokens : worker[w].task = {n}
  BY DEF MInv, WorkOK, WorkerOK
<1>2. CASE Runner!IsBatch
  BY <1>2 DEF Directory, Runner!DirOf
<1>3. CASE ~Runner!IsBatch
  <2>1. PICK n \in Runner!Tokens : worker[w].task = {n}
    BY <1>1, <1>3
  <2>2. (CHOOSE k \in worker[w].task : TRUE) = n
    BY <2>1
  <2> QED
    BY <1>3, <2>1, <2>2 DEF Directory, Runner!DirOf, Runner!case_dir_for
<1> QED
  BY <1>2, <1>3

(* Two workers never write in one directory.                               *)
LEMMA DirectoriesApart ==
  ASSUME ~Runner!SharedCases, MInv, Members, Apart,
         NEW v \in Workers, NEW w \in Workers, v # w,
         worker[v].pc # "idle", worker[w].pc # "idle"
  PROVE  Runner!DirOf(worker[v].task) # Runner!DirOf(worker[w].task)
<1>1. /\ worker[v].task # {} /\ worker[w].task # {} /\ worker[v].task \cap worker[w].task = {}
      /\ ~Runner!IsBatch => /\ \E n \in Runner!Tokens : worker[v].task = {n}
                            /\ \E n \in Runner!Tokens : worker[w].task = {n}
  BY DEF MInv, WorkOK, WorkerOK, Apart
<1>2. CASE Runner!IsBatch
  BY <1>1, <1>2 DEF Runner!DirOf
<1>3. CASE ~Runner!IsBatch
  <2>1. PICK m \in Runner!Tokens : worker[v].task = {m}
    BY <1>1, <1>3
  <2>2. PICK n \in Runner!Tokens : worker[w].task = {n}
    BY <1>1, <1>3
  <2>3. (CHOOSE k \in worker[v].task : TRUE) = m /\ (CHOOSE k \in worker[w].task : TRUE) = n
    BY <2>1, <2>2
  <2>4. m # n
    BY <1>1, <2>1, <2>2
  <2>5. setup.prompt[m] # setup.prompt[n]
    BY <1>3, <2>4, SharingFacts DEF Members, MInv, RunnerTypes
  <2> QED
    BY <1>3, <2>3, <2>5 DEF Runner!DirOf, Runner!case_dir_for
<1> QED
  BY <1>2, <1>3

(* What a reader gets of a file that nobody writes.                        *)
LEMMA ReadRight ==
  ASSUME CacheRight, NEW a \in Activations, cache[a].by = Runner!Nobody,
         NEW f \in Runner!Contents(a)
  PROVE  LET found == Runner!read_cached_bits(f)
         IN  /\ found \in {"miss", "raise", "right", "wrong"}
             /\ found = "raise" => setup.resume /\ Runner!Unreadable(a)
             /\ found = "wrong" => setup.resume /\ Runner!Misread(a)
             /\ found = "miss" /\ setup.resume => ~Spoilt(a)
<1>1. f = cache[a]
  BY DEF Runner!Contents
<1>2. cache[a].tail = "absent" \/ cache[a].value = "right"
  BY DEF CacheRight
<1> QED
  BY <1>1, <1>2 DEF Runner!read_cached_bits, Runner!Unreadable, Runner!Misread, Spoilt

(* What is excused stays excused while its file stays.                     *)
SpoiltStays ==
  setup.resume => \A a \in Activations : /\ Runner!Misread(a)' <=> Runner!Misread(a)
                                         /\ Runner!Unreadable(a)' <=> Runner!Unreadable(a)

LEMMA FilesStay ==
  ASSUME setup.resume => \A a \in Activations : \/ cache'[a] = cache[a]
                                                \/ cache'[a].tail = "none" /\ ~Spoilt(a)
  PROVE  SpoiltStays
BY DEF SpoiltStays, Spoilt, Runner!Misread, Runner!Unreadable

(* What a worker has in its directory after a step.                        *)
LEMMA NewFiles ==
  ASSUME MInv, NEW w \in Workers, worker[w].pc # "idle", UNCHANGED setup,
         worker'[w].task = worker[w].task,
         LET r == worker'[w]
             d == Runner!DirOf(worker[w].task)
         IN  /\ r.pc = "close_aimd" => aimd'[d] = Opened(w)
             /\ r.pc = "load" => aimd'[d] = Right
             /\ r.pc = "simulate" => csv'[d] = Opened(w) /\ r.bits = "right"
             /\ r.pc = "parse" => csv'[d] = Right
             /\ r.pc \in {"open_cache", "close_cache", "unlink"} => r.bits = "right"
  PROVE  FilesRightOf(w)'
<1>1. \A d : Directory(d, worker[w].task)' <=> Directory(d, worker[w].task)
  BY DEF Directory, Runner!IsBatch
<1>2. \A d : Directory(d, worker[w].task)' => d = Runner!DirOf(worker[w].task)
  BY <1>1, DirectoryOfTask
<1> QED
  BY <1>2 DEF FilesRightOf, Opened, Right

(* A step of one worker leaves the others what they have.                  *)
LEMMA OthersKeep ==
  ASSUME ~Runner!SharedCases, MInv, CountInv, FilesRight,
         NEW w \in Workers, worker[w].pc # "idle",
         NEW r \in WorkType, worker' = [worker EXCEPT ![w] = r],
         UNCHANGED setup,
         \A d \in Runner!Dirs : d # Runner!DirOf(worker[w].task) =>
           aimd'[d] = aimd[d] /\ csv'[d] = csv[d],
         FilesRightOf(w)'
  PROVE  FilesRight'
<1>1. worker'[w] = r /\ \A v \in Workers : v # w => worker'[v] = worker[v]
  BY DEF MInv, RunnerTypes
<1>2. ASSUME NEW v \in Workers, v # w PROVE FilesRightOf(v)'
  <2>1. worker'[v] = worker[v] /\ FilesRightOf(v)
    BY <1>1, <1>2 DEF FilesRight
  <2>2. \A d : Directory(d, worker[v].task)' <=> Directory(d, worker[v].task)
    BY <2>1 DEF Directory, Runner!IsBatch
  <2>3. CASE worker[v].pc = "idle"
    BY <2>1, <2>3 DEF FilesRightOf
  <2>4. CASE worker[v].pc # "idle"
    <3>1. ASSUME NEW d \in Runner!Dirs, Directory(d, worker[v].task)
          PROVE  aimd'[d] = aimd[d] /\ csv'[d] = csv[d]
      <4>1. d # Runner!DirOf(worker[w].task)
        BY <1>2, <2>4, <3>1, DirectoriesApart, DirectoryOfTask DEF CountInv
      <4> QED
        BY <4>1
    <3>2. Runner!Dirs' = Runner!Dirs
      BY DEF Runner!Dirs, Runner!Tokens
    <3>3. ASSUME NEW d \in Runner!Dirs', Directory(d, worker[v].task)'
          PROVE  /\ worker[v].pc = "close_aimd" => aimd'[d] = Opened(v)
                 /\ worker[v].pc = "load" => aimd'[d] = Right
                 /\ worker[v].pc = "simulate" => csv'[d] = Opened(v) /\ worker[v].bits = "right"
                 /\ worker[v].pc = "parse" => csv'[d] = Right
                 /\ worker[v].pc \in {"open_cache", "close_cache", "unlink"} => worker[v].bits = "right"
      <4>1. d \in Runner!Dirs /\ Directory(d, worker[v].task)
        BY <2>2, <3>2, <3>3
      <4> QED
        BY <2>1, <3>1, <4>1 DEF FilesRightOf
    <3> QED
      BY <2>1, <3>3 DEF FilesRightOf, Opened, Right
  <2> QED
    BY <2>3, <2>4
<1> QED
  BY <1>2 DEF FilesRight

(* Nor does a worker that writes no cache file change what is cached.      *)
LEMMA CacheKeeps ==
  ASSUME MInv, CacheRight, NEW w \in Workers, worker[w].pc # "close_cache",
         \A v \in Workers : v # w => worker'[v] = worker[v],
         UNCHANGED <<setup, cache>>
  PROVE  CacheRight'
<1>1. ASSUME NEW a \in Activations, NEW v \in Workers, cache[a].by = v
      PROVE  OpenBy(a, v)'
  <2>1. OpenBy(a, v) /\ v # w
    BY <1>1 DEF CacheRight, OpenBy
  <2>2. worker'[v] = worker[v]
    BY <2>1
  <2> QED
    BY <2>1, <2>2 DEF OpenBy, Runner!NextToken
<1> QED
  BY <1>1 DEF CacheRight

(* Nor what was served, what waits and who is to blame.                    *)
LEMMA CareKeeps ==
  ASSUME MInv, NoneSpoilt, Blamed, Served, SpoiltStays,
         \A v \in Workers : worker'[v].task = worker[v].task,
         UNCHANGED <<setup, phase, tasks, failed, products, faults>>
  PROVE  NoneSpoilt' /\ Blamed' /\ Served'
<1>1. /\ \A n \in Runner!Tokens : setup.prompt[n] \in Activations
      /\ \A w \in Workers : worker[w].task \in SUBSET Runner!Tokens
      /\ \A i \in DOMAIN tasks : tasks[i] \in SUBSET Runner!Tokens
  BY SetupFacts DEF MInv, RunnerTypes, WorkType
<1>2. setup.resume => \A n \in Runner!Tokens :
        LET a == setup.prompt[n]
        IN  (Runner!Misread(a)' <=> Runner!Misread(a)) /\ (Runner!Unreadable(a)' <=> Runner!Unreadable(a))
  BY <1>1 DEF SpoiltStays
<1>3. NoneSpoilt'
  BY <1>1, <1>2 DEF NoneSpoilt, Spoilt, Runner!IsBatch
<1>4. Blamed'
  BY <1>2 DEF Blamed, Runner!Tokens
<1>5. Served'
  BY <1>2 DEF Served, Settled, Runner!Tokens
<1> QED
  BY <1>3, <1>4, <1>5

LEMMA QuietStep ==
  ASSUME ~Runner!SharedCases, MInv, CountInv, ProductInv,
         NEW w \in Workers, worker[w].pc # "idle",
         NEW r \in WorkType, worker' = [worker EXCEPT ![w] = r],
         r.task = worker[w].task,
         UNCHANGED <<setup, phase, tasks, failed, products, faults>>,
         \A d \in Runner!Dirs : d # Runner!DirOf(worker[w].task) =>
           aimd'[d] = aimd[d] /\ csv'[d] = csv[d],
         FilesRightOf(w)', CacheRight', SpoiltStays
  PROVE  ProductInv'
<1>1. FilesRight'
  BY OthersKeep DEF ProductInv
<1>2. \A v \in Workers : worker'[v].task = worker[v].task
  BY DEF MInv, RunnerTypes
<1> QED
  BY <1>1, <1>2, CareKeeps DEF ProductInv

LEMMA RightOpenAimd ==
  ASSUME ~Runner!SharedCases, MInv, CountInv, ProductInv, NEW w \in Workers, Runner!open_aimd(w)
  PROVE  ProductInv'
<1> DEFINE r == [worker[w] EXCEPT !.pc = "close_aimd"]
           d == Runner!DirOf(worker[w].task)
<1>1. /\ worker' = [worker EXCEPT ![w] = r] /\ phase = "pool" /\ worker[w].pc = "open_aimd"
      /\ UNCHANGED <<setup, phase, tasks, failed, products, faults, csv, cache>>
  BY DEF Runner!open_aimd, Runner!At, Runner!Goto, Runner!Rest
<1>2. worker[w] \in WorkType
  BY DEF MInv, RunnerTypes
<1>3. r \in WorkType /\ r.task = worker[w].task /\ r.left = worker[w].left /\ r.pc = "close_aimd"
  BY <1>2 DEF WorkType, Pcs
<1> HIDE DEF r
<1>4. worker'[w] = r /\ \A v \in Workers : v # w => worker'[v] = worker[v]
  BY <1>1 DEF MInv, RunnerTypes
<1>5. /\ \A e \in Runner!Dirs : e # d => aimd'[e] = aimd[e]
      /\ d \in Runner!Dirs /\ aimd'[d] = Opened(w)
  BY <1>1, TaskDirectory DEF Runner!open_aimd, Runner!OpenFile, MInv, RunnerTypes, Opened
<1>6. CacheRight'
  BY <1>1, <1>4, CacheKeeps DEF ProductInv
<1>7. FilesRightOf(w)'
  BY <1>1, <1>3, <1>4, <1>5, NewFiles DEF Opened
<1>8. SpoiltStays
  BY <1>1 DEF SpoiltStays, Runner!Misread, Runner!Unreadable
<1> QED
  BY <1>1, <1>3, <1>5, <1>6, <1>7, <1>8, QuietStep

LEMMA FilesNow ==
  ASSUME MInv, FilesRight, NEW w \in Workers, worker[w].pc # "idle"
  PROVE  LET d == Runner!DirOf(worker[w].task) IN
         /\ worker[w].pc = "close_aimd" => aimd[d] = Opened(w)
         /\ worker[w].pc = "load" => aimd[d] = Right
         /\ worker[w].pc = "simulate" => csv[d] = Opened(w) /\ worker[w].bits = "right"
         /\ worker[w].pc = "parse" => csv[d] = Right
         /\ worker[w].pc \in {"open_cache", "close_cache", "unlink"} => worker[w].bits = "right"
BY DirectoryOfTask, TaskDirectory DEF FilesRight, FilesRightOf

LEMMA OwnClosed ==
  ASSUME NEW w \in Workers, NEW v
  PROVE  Runner!CloseFile(Opened(w), w, v) = [exists |-> TRUE, by |-> Runner!Nobody, value |-> v]
BY DEF Runner!CloseFile, Opened

LEMMA RightCloseAimd ==
  ASSUME ~Runner!SharedCases, MInv, CountInv, ProductInv, NEW w \in Workers, Runner!close_aimd(w)
  PROVE  ProductInv'
<1> DEFINE r == [worker[w] EXCEPT !.pc = "load"]
           d == Runner!DirOf(worker[w].task)
<1>1. /\ worker' = [worker EXCEPT ![w] = r] /\ phase = "pool" /\ worker[w].pc = "close_aimd"
      /\ aimd' = [aimd EXCEPT ![d] = Runner!CloseFile(aimd[d], w, "right")]
      /\ UNCHANGED <<setup, phase, tasks, failed, products, faults, csv, cache>>
  BY DEF Runner!close_aimd, Runner!At, Runner!Goto, Runner!Rest
<1>2. worker[w] \in WorkType
  BY DEF MInv, RunnerTypes
<1>3. r \in WorkType /\ r.task = worker[w].task /\ r.left = worker[w].left /\ r.pc = "load"
  BY <1>2 DEF WorkType, Pcs
<1> HIDE DEF r
<1>4. worker'[w] = r /\ \A v \in Workers : v # w => worker'[v] = worker[v]
  BY <1>1 DEF MInv, RunnerTypes
<1>5. d \in Runner!Dirs /\ aimd[d] = Opened(w)
  BY <1>1, TaskDirectory, FilesNow DEF ProductInv
<1>6. /\ \A e \in Runner!Dirs : e # d => aimd'[e] = aimd[e]
      /\ aimd'[d] = Right
  BY <1>1, <1>5, OwnClosed DEF MInv, RunnerTypes, Right
<1>7. CacheRight'
  BY <1>1, <1>4, CacheKeeps DEF ProductInv
<1>8. FilesRightOf(w)'
  BY <1>1, <1>3, <1>4, <1>6, NewFiles
<1>9. SpoiltStays
  BY <1>1 DEF SpoiltStays, Runner!Misread, Runner!Unreadable
<1> QED
  BY <1>1, <1>3, <1>6, <1>7, <1>8, <1>9, QuietStep

LEMMA RightLoad ==
  ASSUME ~Runner!SharedCases, MInv, CountInv, ProductInv, NEW w \in Workers, Runner!load(w)
  PROVE  ProductInv'
<1> DEFINE r == [worker[w] EXCEPT !.pc = "simulate", !.bits = "right"]
           d == Runner!DirOf(worker[w].task)
<1>1. /\ phase = "pool" /\ worker[w].pc = "load"
      /\ csv' = [csv EXCEPT ![d] = Runner!OpenFile(csv[d], w)]
      /\ UNCHANGED <<setup, phase, tasks, failed, products, faults, aimd, cache>>
  BY DEF Runner!load, Runner!At, Runner!Rest
<1>2. d \in Runner!Dirs /\ aimd[d] = Right
  BY <1>1, TaskDirectory, FilesNow DEF ProductInv
<1>3. Runner!Whole(aimd[d]) /\ aimd[d].value = "right"
  BY <1>2 DEF Runner!Whole, Right
<1>4. worker' = [worker EXCEPT ![w].pc = "simulate", ![w].bits = "right"]
  BY <1>3 DEF Runner!load
<1>5. worker' = [worker EXCEPT ![w] = r]
  BY <1>4 DEF MInv, RunnerTypes
<1>6. worker[w] \in WorkType
  BY DEF MInv, RunnerTypes
<1>7. r \in WorkType /\ r.task = worker[w].task /\ r.left = worker[w].left
      /\ r.pc = "simulate" /\ r.bits = "right"
  BY <1>6 DEF WorkType, Pcs, Bits
<1> HIDE DEF r
<1>8. worker'[w] = r /\ \A v \in Workers : v # w => worker'[v] = worker[v]
  BY <1>5 DEF MInv, RunnerTypes
<1>9. /\ \A e \in Runner!Dirs : e # d => csv'[e] = csv[e]
      /\ csv'[d] = Opened(w)
  BY <1>1, <1>2 DEF Runner!OpenFile, MInv, RunnerTypes, Opened
<1>10. CacheRight'
  BY <1>1, <1>8, CacheKeeps DEF ProductInv
<1>11. FilesRightOf(w)'
  BY <1>1, <1>7, <1>8, <1>9, NewFiles
<1>12. SpoiltStays
  BY <1>1 DEF SpoiltStays, Runner!Misread, Runner!Unreadable
<1> QED
  BY <1>1, <1>5, <1>7, <1>9, <1>10, <1>11, <1>12, QuietStep

LEMMA RightParse ==
  ASSUME ~Runner!SharedCases, MInv, CountInv, ProductInv, NEW w \in Workers, Runner!parse(w)
  PROVE  ProductInv'
<1> DEFINE r == [worker[w] EXCEPT !.pc = "open_cache", !.bits = "right"]
           d == Runner!DirOf(worker[w].task)
<1>1. /\ phase = "pool" /\ worker[w].pc = "parse"
      /\ UNCHANGED <<setup, phase, tasks, products, faults, aimd, csv, cache>>
  BY DEF Runner!parse, Runner!At, Runner!Rest, Runner!FileVars
<1>2. csv[d] = Right
  BY <1>1, FilesNow DEF ProductInv
<1>3. Runner!Whole(csv[d]) /\ csv[d].value = "right"
  BY <1>2 DEF Runner!Whole, Right
<1>4. worker' = [worker EXCEPT ![w].pc = "open_cache", ![w].bits = "right"] /\ UNCHANGED failed
  BY <1>3 DEF Runner!parse
<1>5. worker' = [worker EXCEPT ![w] = r]
  BY <1>4 DEF MInv, RunnerTypes
<1>6. worker[w] \in WorkType
  BY DEF MInv, RunnerTypes
<1>7. r \in WorkType /\ r.task = worker[w].task /\ r.left = worker[w].left
      /\ r.pc = "open_cache" /\ r.bits = "right"
  BY <1>6 DEF WorkType, Pcs, Bits
<1> HIDE DEF r
<1>8. worker'[w] = r /\ \A v \in Workers : v # w => worker'[v] = worker[v]
  BY <1>5 DEF MInv, RunnerTypes
<1>9. CacheRight'
  BY <1>1, <1>8, CacheKeeps DEF ProductInv
<1>10. FilesRightOf(w)'
  BY <1>1, <1>7, <1>8, NewFiles
<1>11. SpoiltStays
  BY <1>1 DEF SpoiltStays, Runner!Misread, Runner!Unreadable
<1> QED
  BY <1>1, <1>4, <1>5, <1>7, <1>9, <1>10, <1>11, QuietStep

LEMMA RightOpenCache ==
  ASSUME ~Runner!SharedCases, MInv, CountInv, ProductInv, NEW w \in Workers, Runner!open_cache(w)
  PROVE  ProductInv'
<1> DEFINE r == [worker[w] EXCEPT !.pc = "close_cache"]
           n == Runner!NextToken(w)
           a == setup.prompt[n]
           f == [Runner!CacheFile(0, "none", worker[w].bits) EXCEPT !.by = w]
<1>1. /\ phase = "pool" /\ worker[w].pc = "open_cache" /\ worker' = [worker EXCEPT ![w] = r]
      /\ cache' = [cache EXCEPT ![a] = f]
      /\ UNCHANGED <<setup, phase, tasks, failed, products, faults, aimd, csv>>
  BY DEF Runner!open_cache, Runner!At, Runner!Goto, Runner!Rest, Runner!case_dir_for
<1>2. worker[w] \in WorkType /\ worker[w].bits = "right"
  BY <1>1, FilesNow DEF MInv, RunnerTypes, ProductInv
<1>3. r \in WorkType /\ r.task = worker[w].task /\ r.left = worker[w].left
      /\ r.pc = "close_cache" /\ r.bits = "right"
  BY <1>2 DEF WorkType, Pcs
<1>4. f.by = w /\ f.value = "right" /\ f.tail = "none"
  BY <1>2 DEF Runner!CacheFile
<1> HIDE DEF r, f
<1>5. worker'[w] = r /\ \A v \in Workers : v # w => worker'[v] = worker[v]
  BY <1>1 DEF MInv, RunnerTypes
<1>6. \A v \in Workers : Runner!NextToken(v)' = Runner!NextToken(v)
  <2>1. \A v \in Workers : worker'[v].left = worker[v].left
    BY <1>3, <1>5
  <2> QED
    BY <2>1 DEF Runner!NextToken
<1>7. CacheRight'
  <2>1. ASSUME NEW b \in Activations
        PROVE  cache'[b].tail = "absent" \/ cache'[b].value = "right"
    BY <1>1, <1>4 DEF ProductInv, CacheRight, MInv, RunnerTypes
  <2>2. ASSUME NEW b \in Activations, NEW v \in Workers, cache'[b].by = v
        PROVE  OpenBy(b, v)'
    <3>1. CASE b = a
      <4>1. cache'[b] = f /\ v = w
        BY <1>1, <1>4, <2>2, <3>1 DEF MInv, RunnerTypes
      <4> QED
        BY <1>1, <1>3, <1>4, <1>5, <1>6, <3>1, <4>1 DEF OpenBy
    <3>2. CASE b # a
      <4>1. cache'[b] = cache[b]
        BY <1>1, <3>2 DEF MInv, RunnerTypes
      <4>2. OpenBy(b, v) /\ v # w
        BY <1>1, <2>2, <4>1 DEF ProductInv, CacheRight, OpenBy
      <4> QED
        BY <1>1, <1>5, <1>6, <4>1, <4>2 DEF OpenBy
    <3> QED
      BY <3>1, <3>2
  <2> QED
    BY <1>1, <2>1, <2>2 DEF CacheRight
<1>8. FilesRightOf(w)'
  BY <1>1, <1>3, <1>5, NewFiles
<1>9. SpoiltStays
  <2>1. setup.resume => ~Spoilt(a)
    <3>1. n \in worker[w].task
      BY <1>1, NextIsLeft DEF MInv, WorkOK, WorkerOK
    <3> QED
      BY <3>1 DEF ProductInv, NoneSpoilt
  <2>2. \A b \in Activations : cache'[b] = cache[b] \/ (b = a /\ cache'[b].tail = "none")
    BY <1>1, <1>4 DEF MInv, RunnerTypes
  <2> QED
    BY <2>1, <2>2, FilesStay
<1> QED
  BY <1>1, <1>3, <1>7, <1>8, <1>9, QuietStep

(* A worker whose simulation failed.                                       *)
LEMMA RightRaise ==
  ASSUME ~Runner!SharedCases, MInv, CountInv, ProductInv,
         NEW w \in Workers, worker[w].pc # "idle", worker[w].pc # "close_cache",
         Runner!Raise(w), faults' \in Nat, faults' > 0,
         UNCHANGED <<setup, phase, tasks, aimd, csv, cache>>
  PROVE  ProductInv'
<1>1. /\ worker' = [worker EXCEPT ![w] = Runner!Idle] /\ failed' = TRUE
      /\ Runner!Idle \in WorkType
  BY DEF Runner!Raise, Runner!Idle, WorkType, Pcs, Bits
<1>2. worker'[w] = Runner!Idle /\ \A v \in Workers : v # w => worker'[v] = worker[v]
  BY <1>1 DEF MInv, RunnerTypes
<1>3. FilesRightOf(w)'
  BY <1>2 DEF FilesRightOf, Runner!Idle
<1>4. FilesRight'
  BY <1>1, <1>3, OthersKeep DEF ProductInv
<1>5. CacheRight'
  BY <1>2, CacheKeeps DEF ProductInv
<1>6. NoneSpoilt'
  <2>1. \A v \in Workers : worker'[v].task \subseteq worker[v].task
    BY <1>2 DEF Runner!Idle
  <2> QED
    BY <2>1 DEF ProductInv, NoneSpoilt, Spoilt, Runner!Misread, Runner!Unreadable, Runner!IsBatch
<1> QED
  BY <1>1, <1>4, <1>5, <1>6 DEF ProductInv, Blamed, Served

LEMMA RightSimulate ==
  ASSUME ~Runner!SharedCases, MInv, CountInv, ProductInv, NEW w \in Workers, Runner!simulate(w)
  PROVE  ProductInv'
<1> DEFINE r == [worker[w] EXCEPT !.pc = "parse"]
           d == Runner!DirOf(worker[w].task)
<1>1. /\ phase = "pool" /\ worker[w].pc = "simulate"
      /\ UNCHANGED <<setup, phase, tasks, products, aimd, cache>>
  BY DEF Runner!simulate, Runner!At, Runner!Rest
<1>2. worker[w] \in WorkType /\ worker[w].bits = "right" /\ csv[d] = Opened(w) /\ faults \in Nat
  BY <1>1, FilesNow DEF MInv, RunnerTypes, ProductInv, Blamed
<1>3. CASE faults' = faults + 1 /\ Runner!Raise(w) /\ UNCHANGED csv
  BY <1>1, <1>2, <1>3, RightRaise
<1>4. CASE /\ Runner!Goto(w, "parse") /\ UNCHANGED <<failed, faults>>
           /\ csv' = [csv EXCEPT ![d] = Runner!CloseFile(csv[d], w, "right")]
  <2>1. worker' = [worker EXCEPT ![w] = r]
    BY <1>4 DEF Runner!Goto
  <2>2. r \in WorkType /\ r.task = worker[w].task /\ r.pc = "parse"
    BY <1>2 DEF WorkType, Pcs
  <2> HIDE DEF r
  <2>3. worker'[w] = r /\ \A v \in Workers : v # w => worker'[v] = worker[v]
    BY <2>1 DEF MInv, RunnerTypes
  <2>4. /\ \A e \in Runner!Dirs : e # d => csv'[e] = csv[e]
        /\ csv'[d] = Right
    BY <1>1, <1>2, <1>4, OwnClosed, TaskDirectory DEF MInv, RunnerTypes, Right
  <2>5. CacheRight'
    BY <1>1, <2>3, CacheKeeps DEF ProductInv
  <2>6. FilesRightOf(w)'
    BY <1>1, <2>2, <2>3, <2>4, NewFiles
  <2>7. SpoiltStays
    BY <1>1 DEF SpoiltStays, Runner!Misread, Runner!Unreadable
  <2> QED
    BY <1>1, <1>4, <2>1, <2>2, <2>4, <2>5, <2>6, <2>7, QuietStep
<1> QED
  BY <1>2, <1>3, <1>4 DEF Runner!simulate

LEMMA RightCloseCache ==
  ASSUME ~Runner!SharedCases, MInv, CountInv, ProductInv, NEW w \in Workers, Runner!close_cache(w)
  PROVE  ProductInv'
<1> DEFINE n == Runner!NextToken(w)
           r == [worker[w] EXCEPT !.left = worker[w].left \ {n},
                                  !.pc = IF worker[w].left = {n} THEN "unlink" ELSE "open_cache"]
           a == setup.prompt[n]
           whole == Runner!CacheFile(R, "none", worker[w].bits)
           f == IF cache[a].by = w THEN whole ELSE cache[a]
<1>1. /\ phase = "pool" /\ worker[w].pc = "close_cache" /\ cache' = [cache EXCEPT ![a] = f]
      /\ UNCHANGED <<setup, phase, tasks, failed, products, faults, aimd, csv>>
  BY DEF Runner!close_cache, Runner!At, Runner!Rest, Runner!case_dir_for
<1>2. worker[w] \in WorkType /\ WorkerOK(worker[w]) /\ worker[w].bits = "right"
  BY <1>1, FilesNow DEF MInv, RunnerTypes, WorkOK, ProductInv
<1>3. worker' = [worker EXCEPT ![w] = r]
  BY DEF Runner!close_cache, MInv, RunnerTypes
<1>4. n \in worker[w].left
  BY <1>1, <1>2, NextIsLeft DEF WorkerOK
<1>5. whole.by = Runner!Nobody /\ whole.tail = "none" /\ whole.value = "right"
  BY <1>2 DEF Runner!CacheFile
<1>6. cache[a].by = w => f = whole
  OBVIOUS
<1>7. cache[a].by # w => f = cache[a]
  OBVIOUS
<1> HIDE DEF n, whole, f
<1>8. /\ r \in WorkType /\ r.task = worker[w].task /\ r.bits = "right"
      /\ r.left = worker[w].left \ {n}
      /\ r.pc = (IF worker[w].left = {n} THEN "unlink" ELSE "open_cache")
  BY <1>2 DEF WorkType, Pcs
<1> HIDE DEF r
<1>9. r.pc \in {"unlink", "open_cache"}
  BY <1>8
<1>10. worker'[w] = r /\ \A v \in Workers : v # w => worker'[v] = worker[v]
  BY <1>3 DEF MInv, RunnerTypes
<1>11. CacheRight'
  <2>1. ASSUME NEW b \in Activations
        PROVE  cache'[b].tail = "absent" \/ cache'[b].value = "right"
    <3>1. cache'[b] = cache[b] \/ cache'[b] = whole
      BY <1>1, <1>6, <1>7 DEF MInv, RunnerTypes
    <3> QED
      BY <1>5, <3>1 DEF ProductInv, CacheRight
  <2>2. ASSUME NEW b \in Activations, NEW v \in Workers, cache'[b].by = v
        PROVE  OpenBy(b, v)'
    <3>1. cache'[b] = cache[b] /\ (b = a => cache[b].by # w)
      BY <1>1, <1>5, <1>6, <1>7, <2>2, Bounds DEF MInv, RunnerTypes
    <3>2. OpenBy(b, v)
      BY <2>2, <3>1 DEF ProductInv, CacheRight
    <3>3. v # w
      BY <2>2, <3>1, <3>2 DEF OpenBy, a, n
    <3>4. Runner!NextToken(v)' = Runner!NextToken(v)
      <4>1. worker'[v] = worker[v]
        BY <1>10, <3>3
      <4> QED
        BY <4>1 DEF Runner!NextToken
    <3> QED
      BY <1>1, <1>10, <3>1, <3>2, <3>3, <3>4 DEF OpenBy
  <2> QED
    BY <1>1, <2>1, <2>2 DEF CacheRight
<1>12. FilesRightOf(w)'
  BY <1>1, <1>8, <1>9, <1>10, NewFiles
<1>13. SpoiltStays
  <2>1. \A b \in Activations : cache'[b] = cache[b]
                              \/ (cache'[b].tail = "none" /\ cache[b].by = w)
    BY <1>1, <1>5, <1>6, <1>7 DEF MInv, RunnerTypes
  <2>2. \A b \in Activations : cache[b].by = w => ~Spoilt(b)
    BY Bounds DEF Spoilt, Runner!Misread, Runner!Unreadable
  <2> QED
    BY <2>1, <2>2, FilesStay
<1> QED
  BY <1>1, <1>3, <1>8, <1>11, <1>12, <1>13, QuietStep

LEMMA RightUnlink ==
  ASSUME ~Runner!SharedCases, MInv, CountInv, ProductInv, NEW w \in Workers, Runner!unlink(w)
  PROVE  ProductInv'
<1> DEFINE d == Runner!DirOf(worker[w].task)
<1>1. /\ worker' = [worker EXCEPT ![w] = Runner!Idle] /\ phase = "pool" /\ worker[w].pc = "unlink"
      /\ UNCHANGED <<setup, phase, tasks, failed, faults, cache>>
      /\ products' = [n \in Runner!Tokens |-> IF n \in worker[w].task THEN worker[w].bits ELSE products[n]]
  BY DEF Runner!unlink, Runner!At, Runner!stats
<1>2. worker[w].bits = "right" /\ Runner!Idle \in WorkType
  BY <1>1, FilesNow DEF ProductInv, Runner!Idle, WorkType, Pcs, Bits
<1>3. worker'[w] = Runner!Idle /\ \A v \in Workers : v # w => worker'[v] = worker[v]
  BY <1>1 DEF MInv, RunnerTypes
<1>4. \A e \in Runner!Dirs : e # d => aimd'[e] = aimd[e] /\ csv'[e] = csv[e]
  BY DEF Runner!unlink
<1>5. FilesRightOf(w)'
  BY <1>3 DEF FilesRightOf, Runner!Idle
<1>6. FilesRight'
  BY <1>1, <1>2, <1>4, <1>5, OthersKeep DEF ProductInv
<1>7. CacheRight'
  BY <1>1, <1>3, CacheKeeps DEF ProductInv
<1>8. NoneSpoilt' /\ Blamed'
  <2>1. \A v \in Workers : worker'[v].task \subseteq worker[v].task
    BY <1>3 DEF Runner!Idle
  <2>2. NoneSpoilt'
    BY <1>1, <2>1 DEF ProductInv, NoneSpoilt, Spoilt, Runner!Misread, Runner!Unreadable, Runner!IsBatch
  <2>3. Blamed'
    BY <1>1 DEF ProductInv, Blamed, Runner!Unreadable, Runner!Tokens
  <2> QED
    BY <2>2, <2>3
<1>9. Served'
  <2> SUFFICES ASSUME ~failed, NEW n \in Runner!Tokens
               PROVE  \/ Settled(n)'
                      \/ \E i \in DOMAIN tasks : n \in tasks[i]
                      \/ \E v \in Workers : n \in worker'[v].task
    BY <1>1 DEF Served, Runner!Tokens
  <2>1. CASE n \in worker[w].task
    BY <1>1, <1>2, <2>1 DEF Settled
  <2>2. CASE n \notin worker[w].task
    <3>1. products'[n] = products[n] /\ (Settled(n) => Settled(n)')
      BY <1>1, <2>2 DEF Settled, Runner!Misread
    <3>2. \/ Settled(n)
          \/ \E i \in DOMAIN tasks : n \in tasks[i]
          \/ \E v \in Workers : n \in worker[v].task
      BY <1>1 DEF ProductInv, Served
    <3> QED
      BY <1>3, <2>2, <3>1, <3>2
  <2> QED
    BY <2>1, <2>2
<1> QED
  BY <1>6, <1>7, <1>8, <1>9 DEF ProductInv

(* Nobody writes the cache file that a free worker is about to read.       *)
LEMMA NotOpen ==
  ASSUME ~Runner!SharedCases, MInv, CountInv, CacheRight, ~Runner!IsBatch,
         NEW w \in setup.parallel_workers, worker[w] = Runner!Idle,
         NEW i \in DOMAIN tasks, NEW n \in Runner!Tokens, n \in tasks[i]
  PROVE  setup.prompt[n] \in Activations /\ cache[setup.prompt[n]].by = Runner!Nobody
<1> DEFINE a == setup.prompt[n]
<1>1. a \in Activations /\ w \in Workers
  BY SetupFacts DEF MInv, RunnerTypes
<1>2. cache[a].by \in Workers \union {Runner!Nobody}
  BY <1>1 DEF MInv, RunnerTypes, CacheType
<1>3. ASSUME NEW v \in Workers, cache[a].by = v PROVE FALSE
  <2>1. worker[v].pc = "close_cache" /\ setup.prompt[Runner!NextToken(v)] = a
    BY <1>1, <1>3 DEF CacheRight, OpenBy
  <2>2. worker[v].left # {}
    BY <2>1 DEF MInv, WorkOK, WorkerOK
  <2>3. Runner!NextToken(v) \in worker[v].task /\ Runner!NextToken(v) \in Runner!Tokens
    BY <2>2, NextIsLeft
  <2>4. Runner!NextToken(v) # n
    BY <2>3 DEF CountInv, Apart
  <2>5. v \in setup.parallel_workers /\ v # w
    BY <2>1 DEF CountInv, Members, Runner!Idle
  <2> QED
    BY <2>1, <2>3, <2>4, <2>5, SharingFacts
<1> QED
  BY <1>1, <1>2, <1>3

(* What is said of files when a free worker begins a task or not.          *)
LEMMA FilesOfFree ==
  ASSUME MInv, FilesRight, CacheRight, NEW w \in Workers, worker[w] = Runner!Idle,
         NEW r \in WorkType, r = Runner!Idle \/ r.pc = "open_aimd",
         worker' = [worker EXCEPT ![w] = r],
         UNCHANGED <<setup, aimd, csv, cache>>
  PROVE  FilesRight' /\ CacheRight'
<1>1. worker'[w] = r /\ \A v \in Workers : v # w => worker'[v] = worker[v]
  BY DEF MInv, RunnerTypes
<1>2. FilesRightOf(w)'
  BY <1>1 DEF FilesRightOf, Runner!Idle
<1>3. ASSUME NEW v \in Workers, v # w PROVE FilesRightOf(v)'
  <2>1. worker'[v] = worker[v] /\ FilesRightOf(v)
    BY <1>1, <1>3 DEF FilesRight
  <2> QED
    BY <2>1 DEF FilesRightOf, Runner!Dirs, Runner!Tokens, Directory, Runner!IsBatch, Opened, Right
<1>4. CacheRight'
  <2>1. worker[w].pc # "close_cache"
    BY DEF Runner!Idle
  <2> QED
    BY <1>1, <2>1, CacheKeeps
<1> QED
  BY <1>2, <1>3, <1>4 DEF FilesRight

(* A free worker takes a task none of whose files is spoilt.               *)
LEMMA RightTake ==
  ASSUME MInv, CountInv, ProductInv,
         NEW w \in Workers, worker[w] = Runner!Idle, phase = "pool",
         tasks # <<>>, tasks' = Tail(tasks),
         NEW work \in WorkType, work.pc = "open_aimd", work.task = Head(tasks),
         worker' = [worker EXCEPT ![w] = work],
         setup.resume => \A n \in Head(tasks) : ~Spoilt(setup.prompt[n]),
         UNCHANGED <<setup, phase, failed, products, faults, aimd, csv, cache>>
  PROVE  ProductInv'
<1> DEFINE task == Head(tasks)
<1>1. /\ \A i \in DOMAIN tasks' : i + 1 \in DOMAIN tasks /\ tasks'[i] = tasks[i + 1]
      /\ \A n : (\E i \in DOMAIN tasks : n \in tasks[i])
                <=> (\E i \in DOMAIN tasks' : n \in tasks'[i]) \/ n \in task
  BY FirstTask DEF CountInv
<1> HIDE DEF task
<1>2. /\ worker'[w].task = task /\ worker[w].task = {}
      /\ \A v \in Workers : v # w => worker'[v] = worker[v]
  BY DEF MInv, RunnerTypes, Runner!Idle, task
<1>3. FilesRight' /\ CacheRight'
  BY FilesOfFree DEF ProductInv
<1>4. NoneSpoilt'
  <2> SUFFICES ASSUME setup.resume
               PROVE  /\ \A v \in Workers : \A n \in worker'[v].task : ~Spoilt(setup.prompt[n])
                      /\ Runner!IsBatch =>
                           \A i \in DOMAIN tasks' : \A n \in tasks'[i] : ~Spoilt(setup.prompt[n])
    BY DEF NoneSpoilt, Spoilt, Runner!Misread, Runner!Unreadable, Runner!IsBatch
  <2>1. \A v \in Workers : \A n \in worker'[v].task : ~Spoilt(setup.prompt[n])
    BY <1>2 DEF ProductInv, NoneSpoilt, task
  <2>2. Runner!IsBatch =>
          \A i \in DOMAIN tasks' : \A n \in tasks'[i] : ~Spoilt(setup.prompt[n])
    BY <1>1 DEF ProductInv, NoneSpoilt
  <2> QED
    BY <2>1, <2>2
<1>5. Blamed'
  BY DEF ProductInv, Blamed, Runner!Unreadable, Runner!Tokens
<1>6. Served'
  <2>1. \A n : (\E v \in Workers : n \in worker[v].task) \/ n \in task
               => \E v \in Workers : n \in worker'[v].task
    BY <1>2
  <2> SUFFICES ASSUME ~failed, NEW n \in Runner!Tokens
               PROVE  \/ Settled(n)
                      \/ \E i \in DOMAIN tasks' : n \in tasks'[i]
                      \/ \E v \in Workers : n \in worker'[v].task
    BY DEF Served, Settled, Runner!Misread, Runner!Tokens
  <2>2. \/ Settled(n)
        \/ \E i \in DOMAIN tasks : n \in tasks[i]
        \/ \E v \in Workers : n \in worker[v].task
    BY DEF ProductInv, Served
  <2> QED
    BY <1>1, <2>1, <2>2
<1> QED
  BY <1>3, <1>4, <1>5, <1>6 DEF ProductInv

(* A free worker serves what it finds in the cache, or cannot read it.     *)
LEMMA RightLookup ==
  ASSUME MInv, CountInv, ProductInv, ~Runner!IsBatch, phase = "pool",
         tasks # <<>>, tasks' = Tail(tasks),
         NEW n \in Runner!Tokens, Head(tasks) = {n},
         \/ /\ products'[n] = "right" \/ (setup.resume /\ Runner!Misread(setup.prompt[n]))
            /\ \A m \in Runner!Tokens : m # n => products'[m] = products[m]
            /\ UNCHANGED failed
         \/ failed' = TRUE /\ setup.resume /\ Runner!Unreadable(setup.prompt[n]),
         UNCHANGED <<worker, setup, phase, faults, aimd, csv, cache>>
  PROVE  ProductInv'
<1>1. \A m : (\E i \in DOMAIN tasks : m \in tasks[i])
             <=> (\E i \in DOMAIN tasks' : m \in tasks'[i]) \/ m = n
  BY FirstTask DEF CountInv
<1>2. FilesRight' /\ CacheRight'
  <2>1. ASSUME NEW w \in Workers PROVE FilesRightOf(w)'
    <3>1. FilesRightOf(w)
      BY DEF ProductInv, FilesRight
    <3> QED
      BY <3>1 DEF FilesRightOf, Runner!Dirs, Runner!Tokens, Directory, Runner!IsBatch, Opened, Right
  <2>2. \A w \in Workers : Runner!NextToken(w)' = Runner!NextToken(w)
    BY DEF Runner!NextToken
  <2>3. CacheRight'
    BY <2>2 DEF ProductInv, CacheRight, OpenBy
  <2> QED
    BY <2>1, <2>3 DEF FilesRight
<1>3. NoneSpoilt'
  BY DEF ProductInv, NoneSpoilt, Spoilt, Runner!Misread, Runner!Unreadable, Runner!IsBatch
<1>4. CASE failed' = TRUE /\ setup.resume /\ Runner!Unreadable(setup.prompt[n])
  BY <1>2, <1>3, <1>4 DEF ProductInv, Served, Blamed, Runner!Unreadable, Runner!Tokens
<1>5. CASE /\ products'[n] = "right" \/ (setup.resume /\ Runner!Misread(setup.prompt[n]))
           /\ \A m \in Runner!Tokens : m # n => products'[m] = products[m]
           /\ UNCHANGED failed
  <2>1. Blamed'
    BY <1>5 DEF ProductInv, Blamed, Runner!Unreadable, Runner!Tokens
  <2>2. Served'
    <3> SUFFICES ASSUME ~failed, NEW m \in Runner!Tokens
                 PROVE  \/ Settled(m)'
                        \/ \E i \in DOMAIN tasks' : m \in tasks'[i]
                        \/ \E v \in Workers : m \in worker[v].task
      BY <1>5 DEF Served, Runner!Tokens
    <3>1. CASE m = n
      BY <1>5, <3>1 DEF Settled, Runner!Misread
    <3>2. CASE m # n
      <4>1. Settled(m) => Settled(m)'
        BY <1>5, <3>2 DEF Settled, Runner!Misread
      <4>2. \/ Settled(m)
            \/ \E i \in DOMAIN tasks : m \in tasks[i]
            \/ \E v \in Workers : m \in worker[v].task
        BY DEF ProductInv, Served
      <4> QED
        BY <1>1, <3>2, <4>1, <4>2
    <3> QED
      BY <3>1, <3>2
  <2> QED
    BY <1>2, <1>3, <2>1, <2>2 DEF ProductInv
<1> QED
  BY <1>4, <1>5

LEMMA RightPickTask ==
  ASSUME ~Runner!SharedCases, MInv, CountInv, ProductInv, DOMAIN products = Runner!Tokens,
         NEW w \in Workers, Runner!PickTask(w)
  PROVE  ProductInv'
<1> DEFINE work == [pc |-> "open_aimd", task |-> Head(tasks), bits |-> "none", left |-> Head(tasks)]
<1>1. /\ phase = "pool" /\ tasks # <<>> /\ worker[w] = Runner!Idle /\ tasks' = Tail(tasks)
      /\ w \in setup.parallel_workers
      /\ UNCHANGED <<setup, phase, faults, aimd, csv, cache>>
      /\ work \in WorkType
      /\ Runner!IsBatch => /\ worker' = [worker EXCEPT ![w] = work]
                           /\ UNCHANGED <<failed, products>>
      /\ 1 \in DOMAIN tasks /\ Head(tasks) = tasks[1]
  BY Picked, FirstTask DEF CountInv
<1>2. work.pc = "open_aimd" /\ work.task = Head(tasks)
  OBVIOUS
<1>3. CASE Runner!IsBatch
  <2>1. setup.resume => \A n \in Head(tasks) : ~Spoilt(setup.prompt[n])
    BY <1>1, <1>3 DEF ProductInv, NoneSpoilt
  <2> HIDE DEF work
  <2> QED
    BY <1>1, <1>2, <1>3, <2>1, RightTake
<1>4. CASE ~Runner!IsBatch
  <2>1. PICK n \in Runner!Tokens : Head(tasks) = {n} /\ n \in tasks[1]
          /\ \E f \in Runner!Contents(setup.prompt[n]) :
          LET found == Runner!read_cached_bits(f)
          IN  \/ /\ found = "miss"
                 /\ worker' = [worker EXCEPT ![w] = work]
                 /\ UNCHANGED <<failed, products>>
              \/ /\ found = "raise" /\ failed' = TRUE
                 /\ UNCHANGED <<worker, products>>
              \/ /\ found \in {"right", "wrong"}
                 /\ products' = [products EXCEPT ![n] = found]
                 /\ UNCHANGED <<worker, failed>>
    BY <1>4, Picked
  <2> DEFINE a == setup.prompt[n]
  <2>2. a \in Activations /\ cache[a].by = Runner!Nobody
    BY <1>1, <1>4, <2>1, NotOpen DEF ProductInv
  <2> HIDE DEF work
  <2>3. PICK f \in Runner!Contents(a) :
          LET found == Runner!read_cached_bits(f)
          IN  \/ /\ found = "miss"
                 /\ worker' = [worker EXCEPT ![w] = work]
                 /\ UNCHANGED <<failed, products>>
              \/ /\ found = "raise" /\ failed' = TRUE
                 /\ UNCHANGED <<worker, products>>
              \/ /\ found \in {"right", "wrong"}
                 /\ products' = [products EXCEPT ![n] = found]
                 /\ UNCHANGED <<worker, failed>>
    BY <2>1
  <2> DEFINE found == Runner!read_cached_bits(f)
  <2>4. /\ found = "raise" => setup.resume /\ Runner!Unreadable(a)
        /\ found = "wrong" => setup.resume /\ Runner!Misread(a)
        /\ found = "miss" /\ setup.resume => ~Spoilt(a)
    BY <2>2, ReadRight DEF ProductInv
  <2> HIDE DEF found
  <2>5. CASE found = "miss" /\ worker' = [worker EXCEPT ![w] = work] /\ UNCHANGED <<failed, products>>
    <3>1. setup.resume => \A m \in Head(tasks) : ~Spoilt(setup.prompt[m])
      BY <2>1, <2>4, <2>5
    <3> QED
      BY <1>1, <1>2, <2>5, <3>1, RightTake
  <2>6. CASE found = "raise" /\ failed' = TRUE /\ UNCHANGED <<worker, products>>
    BY <1>1, <1>4, <2>1, <2>4, <2>6, RightLookup
  <2>7. CASE /\ found \in {"right", "wrong"} /\ products' = [products EXCEPT ![n] = found]
             /\ UNCHANGED <<worker, failed>>
    <3>1. /\ products'[n] = "right" \/ (setup.resume /\ Runner!Misread(a))
          /\ \A m \in Runner!Tokens : m # n => products'[m] = products[m]
      BY <2>4, <2>7
    <3> QED
      BY <1>1, <1>4, <2>1, <2>7, <3>1, RightLookup
  <2> QED
    BY <2>3, <2>5, <2>6, <2>7 DEF found
<1> QED
  BY <1>3, <1>4

(* While nobody works nothing is open.                                     *)
LEMMA NothingOpen ==
  ASSUME MInv, CacheRight, \A w \in Workers : worker[w] = Runner!Idle,
         NEW a \in Activations
  PROVE  cache[a].by = Runner!Nobody
<1>1. cache[a].by \in Workers \union {Runner!Nobody}
  BY DEF MInv, RunnerTypes, CacheType
<1>2. \A w \in Workers : cache[a].by # w
  BY DEF CacheRight, OpenBy, Runner!Idle
<1> QED
  BY <1>1, <1>2

(* A step that finds and leaves all workers idle.                          *)
LEMMA FilesOfIdle ==
  ASSUME MInv, CacheRight, \A w \in Workers : worker[w] = Runner!Idle,
         \A w \in Workers : worker'[w] = Runner!Idle,
         UNCHANGED cache
  PROVE  FilesRight' /\ CacheRight'
<1>1. FilesRight'
  BY DEF FilesRight, FilesRightOf, Runner!Idle
<1>2. CacheRight'
  BY NothingOpen, Bounds DEF CacheRight
<1> QED
  BY <1>1, <1>2

LEMMA RightBeginBatch ==
  ASSUME MInv, ProductInv, Runner!BeginBatch
  PROVE  ProductInv'
<1>1. /\ phase = "ready" /\ Runner!IsBatch /\ phase' = "pool"
      /\ UNCHANGED <<setup, worker, aimd, csv, cache, faults>>
  BY DEF Runner!BeginBatch
<1>2. setup \in Setups /\ \A w \in Workers : worker[w] = Runner!Idle
  BY <1>1 DEF MInv, RunnerTypes, WorkOK, Runner!AllIdle
<1>3. PICK found \in [Runner!Tokens -> {"miss", "raise", "right", "wrong"}] :
         LET hits == {n \in Runner!Tokens : found[n] \in {"right", "wrong"}}
             missing == {n \in Runner!Tokens : found[n] = "miss"}
         IN  /\ \A n \in Runner!Tokens : \E f \in Runner!Contents(setup.prompt[n]) :
                  found[n] = Runner!read_cached_bits(f)
             /\ failed' = (hits \union missing # Runner!Tokens)
             /\ products' = [n \in Runner!Tokens |-> IF n \in hits THEN found[n] ELSE "none"]
             /\ tasks' = <<>> \/ Splits(tasks', missing)
             /\ ~failed' => \A n : n \in missing <=> \E i \in DOMAIN tasks' : n \in tasks'[i]
  BY BatchBegun
<1>4. \A n \in Runner!Tokens :
        /\ found[n] = "raise" => setup.resume /\ Runner!Unreadable(setup.prompt[n])
        /\ found[n] = "wrong" => setup.resume /\ Runner!Misread(setup.prompt[n])
        /\ found[n] = "miss" /\ setup.resume => ~Spoilt(setup.prompt[n])
  <2> SUFFICES ASSUME NEW n \in Runner!Tokens
               PROVE  /\ found[n] = "raise" => setup.resume /\ Runner!Unreadable(setup.prompt[n])
                      /\ found[n] = "wrong" => setup.resume /\ Runner!Misread(setup.prompt[n])
                      /\ found[n] = "miss" /\ setup.resume => ~Spoilt(setup.prompt[n])
    OBVIOUS
  <2>1. setup.prompt[n] \in Activations /\ cache[setup.prompt[n]].by = Runner!Nobody
    BY <1>2, SetupFacts, NothingOpen DEF ProductInv
  <2>2. PICK f \in Runner!Contents(setup.prompt[n]) : found[n] = Runner!read_cached_bits(f)
    BY <1>3
  <2> QED
    BY <2>1, <2>2, ReadRight DEF ProductInv
<1> DEFINE hits == {n \in Runner!Tokens : found[n] \in {"right", "wrong"}}
           missing == {n \in Runner!Tokens : found[n] = "miss"}
<1>5. FilesRight' /\ CacheRight'
  BY <1>1, <1>2, FilesOfIdle DEF ProductInv
<1>6. NoneSpoilt'
  <2>1. \A i \in DOMAIN tasks' : tasks'[i] \in SUBSET missing
    <3>1. CASE tasks' = <<>>
      BY <3>1
    <3>2. CASE Splits(tasks', missing)
      <4> HIDE DEF missing
      <4> QED
        BY <3>2 DEF Splits
    <3> QED
      BY <1>3, <3>1, <3>2
  <2>2. \A w \in Workers : worker'[w].task = {}
    BY <1>1, <1>2 DEF Runner!Idle
  <2>3. setup.resume => \A i \in DOMAIN tasks' : \A n \in tasks'[i] : ~Spoilt(setup.prompt[n])
    BY <1>4, <2>1
  <2> QED
    BY <1>1, <2>2, <2>3 DEF NoneSpoilt, Spoilt, Runner!Misread, Runner!Unreadable, Runner!IsBatch
<1>7. Blamed'
  <2>1. failed' => \E n \in Runner!Tokens : found[n] = "raise"
    BY <1>3
  <2> QED
    BY <1>1, <1>4, <2>1 DEF ProductInv, Blamed, Runner!Unreadable, Runner!Tokens
<1>8. Served'
  <2> SUFFICES ASSUME ~failed', NEW n \in Runner!Tokens
               PROVE  \/ Settled(n)'
                      \/ \E i \in DOMAIN tasks' : n \in tasks'[i]
    BY <1>1 DEF Served, Runner!Tokens
  <2>1. n \in missing => \E i \in DOMAIN tasks' : n \in tasks'[i]
    BY <1>3
  <2>2. n \notin missing => n \in hits /\ products'[n] = found[n]
    BY <1>3
  <2>3. n \in hits => found[n] = "right" \/ (setup.resume /\ Runner!Misread(setup.prompt[n]))
    BY <1>4
  <2> QED
    BY <1>1, <2>1, <2>2, <2>3 DEF Settled, Runner!Misread
<1> QED
  BY <1>5, <1>6, <1>7, <1>8 DEF ProductInv

LEMMA RightBeginSingle ==
  ASSUME MInv, ProductInv, Runner!BeginSingle
  PROVE  ProductInv'
<1>1. /\ phase = "ready" /\ ~Runner!IsBatch
      /\ tasks' = [n \in Runner!Tokens |-> {n}]
      /\ UNCHANGED <<setup, worker, failed, aimd, csv, cache, faults>>
  BY DEF Runner!BeginSingle, Runner!stats
<1>2. \A w \in Workers : worker[w] = Runner!Idle
  BY <1>1 DEF MInv, WorkOK, Runner!AllIdle
<1>3. FilesRight' /\ CacheRight'
  BY <1>1, <1>2, FilesOfIdle DEF ProductInv
<1>4. NoneSpoilt' /\ Blamed'
  BY <1>1, <1>2 DEF ProductInv, NoneSpoilt, Blamed, Runner!Unreadable, Runner!Tokens, Runner!IsBatch,
                    Runner!Idle
<1>5. Served'
  BY <1>1 DEF Served, Runner!Tokens
<1> QED
  BY <1>3, <1>4, <1>5 DEF ProductInv

(* What a forward that returns hands back.                                 *)
LEMMA Returned ==
  ASSUME Served, Runner!EndForward
  PROVE  \A n \in Runner!Tokens : Settled(n)
<1>1. /\ phase = "pool" /\ tasks = <<>> /\ ~failed
      /\ \A w \in Workers : worker[w] = Runner!Idle
  BY DEF Runner!EndForward, Runner!AllIdle
<1> QED
  BY <1>1 DEF Served, Runner!Idle

LEMMA RightProcess ==
  ASSUME MInv, ProductInv, Runner!EndForward \/ Runner!Exit \/ Runner!Finished
  PROVE  ProductInv'
<1>1. /\ UNCHANGED <<setup, tasks, worker, failed, products, aimd, csv, cache, faults>>
      /\ phase' # "pool"
  BY DEF Runner!EndForward, Runner!Exit, Runner!Finished, Runner!FileVars, Runner!vars
<1>2. FilesRight'
  <2>1. ASSUME NEW w \in Workers PROVE FilesRightOf(w)'
    <3>1. FilesRightOf(w)
      BY DEF ProductInv, FilesRight
    <3> QED
      BY <1>1, <3>1 DEF FilesRightOf, Runner!Dirs, Runner!Tokens, Directory, Runner!IsBatch, Opened, Right
  <2> QED
    BY <2>1 DEF FilesRight
<1>3. CacheRight'
  <2>1. \A w \in Workers : Runner!NextToken(w)' = Runner!NextToken(w)
    BY <1>1 DEF Runner!NextToken
  <2> QED
    BY <1>1, <2>1 DEF ProductInv, CacheRight, OpenBy
<1>4. NoneSpoilt' /\ Blamed' /\ Served'
  BY <1>1 DEF ProductInv, NoneSpoilt, Spoilt, Blamed, Served, Runner!Misread, Runner!Unreadable,
              Runner!Tokens
<1> QED
  BY <1>2, <1>3, <1>4 DEF ProductInv

LEMMA RightRestart ==
  ASSUME MInv, ProductInv, Runner!Restart
  PROVE  ProductInv'
<1>1. /\ UNCHANGED <<setup, aimd, csv, cache, faults>>
      /\ worker' = [w \in Workers |-> Runner!Idle] /\ phase' = "ready" /\ ~failed' /\ phase = "exited"
  BY DEF Runner!Restart, Runner!FileVars
<1>2. \A w \in Workers : worker[w] = Runner!Idle
  BY <1>1 DEF MInv, WorkOK, Runner!AllIdle
<1>3. FilesRight' /\ CacheRight'
  BY <1>1, <1>2, FilesOfIdle DEF ProductInv
<1> QED
  BY <1>1, <1>3 DEF ProductInv, NoneSpoilt, Blamed, Served, Runner!Idle

(* An interruption cuts what is being written; what it cut before stays    *)
(* as it is.                                                               *)
LEMMA RightKill ==
  ASSUME MInv, ProductInv, Runner!Kill
  PROVE  ProductInv'
<1>1. /\ UNCHANGED <<setup, failed, faults>>
      /\ worker' = [w \in Workers |-> Runner!Idle] /\ phase' = "exited"
  BY DEF Runner!Kill
<1>2. \A a \in Activations : cache'[a] \in IF cache[a].by = Runner!Nobody THEN {cache[a]}
                                           ELSE Runner!CutFiles(cache[a].value)
  <2>1. PICK left \in [Activations -> UNION {Runner!CutFiles(v) : v \in {"right", "wrong", "none"}}
                                      \union {Runner!NoCache}] :
          /\ \A a \in Activations : left[a] \in IF cache[a].by = Runner!Nobody THEN {cache[a]}
                                                ELSE Runner!CutFiles(cache[a].value)
          /\ cache' = left
    BY DEF Runner!Kill
  <2> QED
    BY <2>1
<1>3. CacheRight'
  <2>1. ASSUME NEW a \in Activations
        PROVE  /\ cache'[a].tail = "absent" \/ cache'[a].value = "right"
               /\ cache'[a].by = Runner!Nobody
    <3>1. CASE cache[a].by = Runner!Nobody
      <4>1. cache'[a] = cache[a]
        BY <1>2, <3>1
      <4> QED
        BY <3>1, <4>1 DEF ProductInv, CacheRight
    <3>2. CASE cache[a].by # Runner!Nobody
      <4>1. cache'[a] \in Runner!CutFiles(cache[a].value)
        BY <1>2, <3>2
      <4>2. cache[a].by \in Workers
        BY <3>2 DEF MInv, RunnerTypes, CacheType
      <4>3. cache[a].value = "right"
        BY <4>2 DEF ProductInv, CacheRight, OpenBy
      <4> QED
        BY <4>1, <4>3, CutShape DEF Bits
    <3> QED
      BY <3>1, <3>2
  <2> QED
    BY <2>1, Bounds DEF CacheRight
<1>4. FilesRight'
  BY <1>1 DEF FilesRight, FilesRightOf, Runner!Idle
<1>5. Blamed'
  <2>1. \A a \in Activations : Runner!Unreadable(a) => Runner!Unreadable(a)'
    BY <1>2 DEF Runner!Unreadable
  <2>2. \A n \in Runner!Tokens : setup.prompt[n] \in Activations
    BY SetupFacts DEF MInv, RunnerTypes
  <2> QED
    BY <1>1, <2>1, <2>2 DEF ProductInv, Blamed, Runner!Tokens
<1> QED
  BY <1>1, <1>3, <1>4, <1>5 DEF ProductInv, NoneSpoilt, Served, Runner!Idle

LEMMA RightStart ==
  ASSUME Runner!Init
  PROVE  RInv
<1>1. /\ setup \in Setups /\ phase = "ready" /\ tasks = <<>> /\ ~failed
      /\ worker = [w \in Workers |-> Runner!Idle]
      /\ cache = [a \in Activations |-> Runner!NoCache]
      /\ gemv = 0 /\ gemv_calls = 0 /\ cache_hits = 0 /\ runs = 0 /\ computed = 0
      /\ faults = 0
  BY DEF Runner!Init
<1>2. Runner!NoCache.tail = "absent" /\ Runner!NoCache.by = Runner!Nobody
  BY DEF Runner!NoCache, Runner!CacheFile
<1>3. FilesRight /\ NoneSpoilt /\ Blamed /\ Served
  BY <1>1 DEF FilesRight, FilesRightOf, NoneSpoilt, Blamed, Served, Runner!Idle
<1>4. CacheRight
  BY <1>1, <1>2, Bounds DEF CacheRight
<1> QED
  BY <1>1, <1>3, <1>4, CountStart DEF RInv, ProductInv

---------------------------------------------------------------------------
(* Every step of the runner, and what the experiments get from it.         *)

LEMMA RunnerRight ==
  ASSUME ~Runner!SharedCases, MInv, CountInv, ProductInv, DOMAIN products = Runner!Tokens,
         Runner!Next
  PROVE  ProductInv'
<1>1. ASSUME NEW w \in Workers, Runner!Work(w) PROVE ProductInv'
  BY <1>1, RightPickTask, RightOpenAimd, RightCloseAimd, RightLoad, RightSimulate, RightParse,
     RightOpenCache, RightCloseCache, RightUnlink DEF Runner!Work
<1> QED
  BY <1>1, RightBeginBatch, RightBeginSingle, RightProcess, RightRestart, RightKill
     DEF Runner!Next

LEMMA ProductsOfTokens ==
  ASSUME DOMAIN products = Runner!Tokens, Runner!Next
  PROVE  (DOMAIN products = Runner!Tokens)' /\ UNCHANGED setup
<1>1. UNCHANGED setup
  BY DEF Runner!Next, Runner!Work, Runner!PickTask, Runner!open_aimd, Runner!close_aimd, Runner!load,
         Runner!simulate, Runner!parse, Runner!open_cache, Runner!close_cache, Runner!unlink,
         Runner!BeginBatch, Runner!BeginSingle, Runner!EndForward, Runner!Exit, Runner!Restart,
         Runner!Kill, Runner!Finished, Runner!Rest, Runner!vars
<1>2. DOMAIN products' = DOMAIN products \/ DOMAIN products' = Runner!Tokens
  BY DEF Runner!Next, Runner!Work, Runner!PickTask, Runner!open_aimd, Runner!close_aimd, Runner!load,
         Runner!simulate, Runner!parse, Runner!open_cache, Runner!close_cache, Runner!unlink,
         Runner!BeginBatch, Runner!BeginSingle, Runner!EndForward, Runner!Exit, Runner!Restart,
         Runner!Kill, Runner!Finished, Runner!Rest, Runner!vars
<1> QED
  BY <1>1, <1>2 DEF Runner!Tokens

(* While another program is followed the runner has not begun.             *)
ServingInv ==
  /\ MInv /\ DOMAIN products = Runner!Tokens
  /\ program = "runner" => RInv
  /\ program # "runner" => phase = "ready" /\ failed = FALSE

LEMMA ServingInductive ==
  /\ ExperimentsInit => ServingInv
  /\ ServingInv /\ [ExperimentsNext]_experiments => ServingInv'
<1>1. ASSUME ExperimentsInit PROVE ServingInv
  <2>1. Runner!Init
    BY <1>1 DEF ExperimentsInit
  <2>2. DOMAIN products = Runner!Tokens /\ phase = "ready" /\ failed = FALSE
    BY <2>1 DEF Runner!Init
  <2> QED
    BY <2>1, <2>2, RunnerStarts, RightStart DEF ServingInv
<1>2. ASSUME ServingInv, [ExperimentsNext]_experiments PROVE ServingInv'
  <2>1. MInv'
    BY <1>2, MInvInductive DEF ServingInv
  <2>2. CASE RunRunner /\ Runner!Next
    <3>1. MInv /\ RInv /\ program' = program /\ program = "runner"
      BY <1>2, <2>2 DEF ServingInv, RunRunner
    <3>2. (DOMAIN products = Runner!Tokens)' /\ setup' = setup
      BY <1>2, <2>2, ProductsOfTokens DEF ServingInv
    <3>3. CountInv'
      BY <2>2, <3>1, RunnerCounts DEF RInv
    <3>4. Runner!SharedCases' <=> Runner!SharedCases
      BY <3>2 DEF Runner!SharedCases, Runner!IsBatch, Runner!Parallel, Runner!Tokens, Runner!case_dir_for
    <3>5. ~Runner!SharedCases => ProductInv'
      BY <1>2, <2>2, <3>1, RunnerRight DEF RInv, ServingInv
    <3> QED
      BY <2>1, <3>1, <3>2, <3>3, <3>4, <3>5 DEF ServingInv, RInv
  <2>3. CASE program # "runner" /\ UNCHANGED <<program, runner>>
    <3>1. UNCHANGED <<program, products, setup, phase, failed>>
      BY <2>3 DEF runner
    <3> QED
      BY <1>2, <2>1, <2>3, <3>1 DEF ServingInv, Runner!Tokens
  <2>4. CASE UNCHANGED experiments
    <3>1. UNCHANGED <<program, setup, phase, gemv, tasks, worker, failed, products, aimd, csv, cache,
                      gemv_calls, cache_hits, runs, computed, kills, faults>>
      BY <2>4 DEF experiments, runner
    <3>2. ASSUME CountInv PROVE CountInv'
      <4>1. Waiting' = Waiting /\ Left' = Left /\ Simulated' = Simulated
        BY <3>1 DEF Waiting, Left, Simulated, Runner!Tokens
      <4> HIDE DEF Waiting, Left, Simulated
      <4> QED
        BY <3>1, <3>2, <4>1 DEF CountInv, Members, Apart, Counters, Counted, Runner!IsBatch
    <3>3. ASSUME ProductInv PROVE ProductInv'
      <4>1. ASSUME NEW w \in Workers PROVE FilesRightOf(w)'
        <5>1. FilesRightOf(w)
          BY <3>3 DEF ProductInv, FilesRight
        <5> QED
          BY <3>1, <5>1 DEF FilesRightOf, Runner!Dirs, Runner!Tokens, Directory, Runner!IsBatch,
                            Opened, Right
      <4>2. CacheRight'
        BY <3>1, <3>3 DEF ProductInv, CacheRight, OpenBy, Runner!NextToken
      <4>3. NoneSpoilt' /\ Blamed' /\ Served'
        BY <3>1, <3>3 DEF ProductInv, NoneSpoilt, Spoilt, Blamed, Served, Settled, Runner!Misread,
                          Runner!Unreadable, Runner!Tokens, Runner!IsBatch
      <4> QED
        BY <4>1, <4>2, <4>3 DEF ProductInv, FilesRight
    <3>4. Runner!SharedCases' <=> Runner!SharedCases
      BY <3>1 DEF Runner!SharedCases, Runner!IsBatch, Runner!Parallel, Runner!Tokens, Runner!case_dir_for
    <3>5. RInv => RInv'
      BY <3>2, <3>3, <3>4 DEF RInv
    <3> QED
      BY <1>2, <2>1, <3>1, <3>5 DEF ServingInv, Runner!Tokens
  <2> QED
    BY <1>2, <2>2, <2>3, <2>4 DEF ExperimentsNext, RunDownload, RunRunner, RunDriver, RunPipeline
<1> QED
  BY <1>1, <1>2

(* A forward that returns has counted every call once, as a hit or as      *)
(* computed, and has for every token the product of its own activation     *)
(* (run_gemv, run_gemv_batch), for every set of workers, prompt, chunk     *)
(* size and order of steps, after interruptions and failures too: unless   *)
(* workers share a case directory, or, with resume, an interruption cut    *)
(* the token's cache file within the digits of its last row, and then it   *)
(* still is as it was cut.                                                 *)
THEOREM ServesRight == ExperimentsSpec => ServedRight
<1>1. ServingInv => (Runner!EndForward =>
        /\ ~Runner!SharedCases => \A n \in Runner!Tokens :
             products[n] = "right" \/ (setup.resume /\ Runner!Misread(Runner!case_dir_for(n)))
        /\ gemv_calls = gemv' * Len(setup.prompt)
        /\ gemv_calls = cache_hits + computed
        /\ ~Runner!IsBatch => runs = computed)
  <2> SUFFICES ASSUME ServingInv, Runner!EndForward
               PROVE  /\ ~Runner!SharedCases => \A n \in Runner!Tokens :
                           products[n] = "right" \/ (setup.resume /\ Runner!Misread(setup.prompt[n]))
                      /\ gemv_calls = gemv' * Len(setup.prompt)
                      /\ gemv_calls = cache_hits + computed
                      /\ ~Runner!IsBatch => runs = computed
    BY DEF Runner!case_dir_for
  <2>1. phase = "pool"
    BY DEF Runner!EndForward
  <2>2. MInv /\ RInv
    BY <2>1 DEF ServingInv
  <2>3. ~Runner!SharedCases => \A n \in Runner!Tokens : Settled(n)
    BY <2>2, Returned DEF RInv, ProductInv
  <2>4. /\ gemv' = gemv + 1
        /\ gemv_calls = (gemv + 1) * Len(setup.prompt)
        /\ cache_hits + computed = gemv_calls
        /\ ~Runner!IsBatch => runs = computed
    BY <2>2, CountReturned DEF RInv
  <2> QED
    BY <2>3, <2>4 DEF Settled
<1>2. ExperimentsSpec => []ServingInv
  BY ServingInductive, PTL DEF ExperimentsSpec
<1> QED
  BY <1>1, <1>2, PTL DEF ServedRight, Runner!ServedRight

---------------------------------------------------------------------------
(* The runner and the drivers together.                                    *)

(* While another program is followed no driver has begun.                  *)
DrivingInv ==
  /\ DInv
  /\ program = "driver" => CInv
  /\ program # "driver" => pc = "idle"

LEMMA DrivingInductive ==
  /\ ExperimentsInit => DrivingInv
  /\ DrivingInv /\ [ExperimentsNext]_experiments => DrivingInv'
<1>1. DriverAssumption /\ ProbesAssumption
  BY Assumptions
<1>2. ASSUME ExperimentsInit PROVE DrivingInv
  <2>1. Init
    BY <1>2 DEF ExperimentsInit
  <2>2. pc = "idle"
    BY <2>1 DEF Init
  <2> QED
    BY <1>1, <2>1, <2>2, InitIsolated, NoFailureYet DEF DrivingInv
<1>3. ASSUME DInv, UNCHANGED driver PROVE DInv'
  <2>1. UNCHANGED <<cmd, pc, place, active_layers, forward, hooks, baseline, pim_out, captured, rows>>
    BY <1>3 DEF driver, place
  <2> QED
    BY <1>3, <2>1 DEF DInv, PlaceOK, Running, ForwardOK, BaselineOK, PimOK, DeltasIsolatePolicy,
                      Active, Passed, Stored, Prompt, Combo, place
<1>4. ASSUME DrivingInv, [ExperimentsNext]_experiments PROVE DrivingInv'
  <2>1. CASE RunDriver /\ Next
    <3>1. DInv /\ CInv /\ program' = program /\ program = "driver"
      BY <1>4, <2>1 DEF DrivingInv, RunDriver
    <3>2. DInv' /\ CInv'
      BY <1>1, <2>1, <3>1, DriverKeeps, DriverFails
    <3> QED
      BY <3>1, <3>2 DEF DrivingInv
  <2>2. CASE program # "driver" /\ UNCHANGED <<program, driver>>
    <3>1. pc' = pc
      BY <2>2 DEF driver
    <3> QED
      BY <1>3, <1>4, <2>2, <3>1 DEF DrivingInv
  <2>3. CASE UNCHANGED experiments
    <3>1. UNCHANGED <<program, driver, cmd, pc, captured, todo, faults>>
      BY <2>3 DEF experiments, driver
    <3>2. CInv => CInv'
      BY <3>1 DEF CInv, FailsOnlyOnFaults, CannotWrite, NoDirectory
    <3> QED
      BY <1>3, <1>4, <3>1, <3>2 DEF DrivingInv
  <2> QED
    BY <1>4, <2>1, <2>2, <2>3 DEF ExperimentsNext, RunDownload, RunRunner, RunDriver, RunPipeline
<1> QED
  BY <1>2, <1>4

(* No worker of the runner raises and no driver ends with an error unless  *)
(* a simulation failed by itself, whatever order the workers of a chunk or *)
(* prompt take, whatever was run or interrupted before.  What the code     *)
(* does not stand is named in the property: workers that share a case      *)
(* directory, a cache file cut before a row's value that is resumed, and   *)
(* a driver whose metadata directory is missing.                           *)
THEOREM FaultsAlone == ExperimentsSpec => []OnlyFaultsFail
<1>1. ServingInv => Runner!WorkersDoNotFail
  <2> SUFFICES ASSUME ServingInv, failed, ~Runner!SharedCases
               PROVE  faults > 0 \/ Runner!BlockedByCache
    BY DEF Runner!WorkersDoNotFail
  <2>1. ProductInv
    BY DEF ServingInv, RInv
  <2> QED
    BY <2>1 DEF ProductInv, Blamed, Runner!BlockedByCache, Runner!case_dir_for
<1>2. DrivingInv => FailsOnlyOnFaults
  BY DEF DrivingInv, CInv, FailsOnlyOnFaults
<1>3. ExperimentsSpec => []ServingInv
  BY ServingInductive, PTL DEF ExperimentsSpec
<1>4. ExperimentsSpec => []DrivingInv
  BY DrivingInductive, PTL DEF ExperimentsSpec
<1> QED
  BY <1>1, <1>2, <1>3, <1>4, PTL DEF OnlyFaultsFail
---------------------------------------------------------------------------
(* The downloader.  A sorted list has each file of its set once, in the    *)
(* order of the repository.                                                *)

LEMMA InOrder ==
  ASSUME NEW S
  PROVE  LET at == {i \in DOMAIN Files : Files[i] \in S}
             n == Cardinality(at)
         IN  /\ n \in Nat
             /\ \E pos \in [1 .. n -> at] :
                  /\ Download!Listed(S) = [k \in 1 .. n |-> Files[pos[k]]]
                  /\ \A i \in at : \E k \in 1 .. n : pos[k] = i
                  /\ \A k, l \in 1 .. n : pos[k] < pos[l] => k < l
<1> DEFINE at == {i \in DOMAIN Files : Files[i] \in S}
           n == Cardinality(at)
           rank(i) == Cardinality({j \in at : j < i})
           pos == [k \in 1 .. n |-> CHOOSE i \in at : rank(i) = k - 1]
<1>1. at \in SUBSET Nat /\ IsFiniteSet(at)
  <2>1. DOMAIN Files = 1 .. Len(Files) /\ Len(Files) \in Nat
    BY Assumptions DEF Download!DownloadAssumption
  <2>2. IsFiniteSet(1 .. Len(Files))
    BY <2>1, FS_Interval
  <2>3. at \in SUBSET (1 .. Len(Files))
    BY <2>1
  <2>4. IsFiniteSet(at)
    BY <2>2, <2>3, FS_Subset
  <2> QED
    BY <2>3, <2>4
<1>2. /\ n \in Nat
      /\ \A i \in at : rank(i) \in 0 .. n - 1
      /\ \A k \in 0 .. n - 1 : \E i \in at : rank(i) = k
      /\ \A i, j \in at : i < j => rank(i) < rank(j)
  <2> HIDE DEF at
  <2> QED
    BY <1>1, Ranks
<1>3. Download!Listed(S) = [k \in 1 .. n |-> Files[CHOOSE i \in at : rank(i) = k - 1]]
  BY Zenon DEF Download!Listed, Download!Cardinality, Cardinality
<1>4. \A k \in 1 .. n : pos[k] \in at /\ rank(pos[k]) = k - 1
  <2> TAKE k \in 1 .. n
  <2>1. k - 1 \in 0 .. n - 1
    BY <1>2
  <2> HIDE DEF rank, n, at
  <2> QED
    BY <1>2, <2>1
<1>5. ASSUME NEW i \in at PROVE \E k \in 1 .. n : pos[k] = i
  <2> DEFINE k == rank(i) + 1
  <2>1. k \in 1 .. n /\ k - 1 = rank(i)
    <3> HIDE DEF rank, n, at
    <3>1. i \in at
      BY <1>5
    <3>2. rank(i) \in 0 .. n - 1 /\ n \in Nat
      BY <1>2, <3>1
    <3> QED
      BY <3>2
  <2>2. pos[k] \in at /\ rank(pos[k]) = rank(i)
    BY <1>4, <2>1
  <2>3. pos[k] \in Nat /\ i \in Nat
    BY <1>1, <2>2
  <2>4. ~(pos[k] < i) /\ ~(i < pos[k])
    <3>1. pos[k] < i => rank(pos[k]) < rank(i)
      BY <1>2, <2>2
    <3>2. i < pos[k] => rank(i) < rank(pos[k])
      BY <1>2, <2>2
    <3> HIDE DEF rank, pos, k, at, n
    <3>3. rank(i) \in Nat
      BY <1>2, <1>5
    <3> QED
      BY <2>2, <3>1, <3>2, <3>3
  <2> HIDE DEF rank, pos, k, at, n
  <2> QED
    BY <2>1, <2>3, <2>4
<1>6. ASSUME NEW k \in 1 .. n, NEW l \in 1 .. n, pos[k] < pos[l] PROVE k < l
  <2>1. rank(pos[k]) < rank(pos[l])
    BY <1>2, <1>4, <1>6
  <2>2. k - 1 < l - 1
    <3> HIDE DEF rank, pos, at, n
    <3> QED
      BY <1>4, <2>1
  <2>3. k \in Int /\ l \in Int
    BY <1>2
  <2> HIDE DEF rank, pos, at, n
  <2> QED
    BY <2>2, <2>3
<1>7. pos \in [1 .. n -> at]
  <2> HIDE DEF rank, at, n
  <2> QED
    BY <1>4
<1>8. Download!Listed(S) = [k \in 1 .. n |-> Files[pos[k]]]
  <2> HIDE DEF rank, at, n
  <2> QED
    BY <1>3
<1> HIDE DEF rank, pos
<1> QED
  BY <1>2, <1>5, <1>6, <1>7, <1>8


(* A required file whose name is behind all shards'.                       *)
Behind(r) == \A i, j \in DOMAIN Files : Files[i] = r /\ Files[j] \in Shards => j < i

(* A queue in which such files are behind the shards.                      *)
ShardsFirst(queue) ==
  \A r \in Download!FileSet : Behind(r) =>
    \A k, l \in DOMAIN queue : queue[k] = r /\ queue[l] \in Shards => l < k

Queued(queue) == {queue[k] : k \in DOMAIN queue}

LEMMA ListedFiles ==
  ASSUME NEW S
  PROVE  /\ Download!Listed(S) \in Seq(Download!FileSet)
         /\ Queued(Download!Listed(S)) = S \cap Download!FileSet
         /\ ShardsFirst(Download!Listed(S))
<1> DEFINE at == {i \in DOMAIN Files : Files[i] \in S}
           n == Cardinality(at)
           q == Download!Listed(S)
<1>1. n \in Nat
  BY InOrder
<1>2. PICK pos \in [1 .. n -> at] :
         /\ q = [k \in 1 .. n |-> Files[pos[k]]]
         /\ \A i \in at : \E k \in 1 .. n : pos[k] = i
         /\ \A k, l \in 1 .. n : pos[k] < pos[l] => k < l
  BY InOrder
<1>3. /\ Download!FileSet = {Files[i] : i \in DOMAIN Files}
      /\ \A i \in DOMAIN Files : i \in Nat
  BY Assumptions DEF Download!DownloadAssumption, Download!FileSet, Download!ToSet
<1> HIDE DEF n, q
<1>4. DOMAIN q = 1 .. n /\ \A k \in 1 .. n : q[k] = Files[pos[k]] /\ pos[k] \in DOMAIN Files
                                            /\ q[k] \in S
  BY <1>2
<1>5. q \in Seq(Download!FileSet)
  <2>1. \A k \in 1 .. n : Files[pos[k]] \in Download!FileSet
    BY <1>3, <1>4
  <2> QED
    BY <1>1, <1>2, <2>1
<1>6. Queued(q) = S \cap Download!FileSet
  <2>1. Queued(q) \subseteq S \cap Download!FileSet
    BY <1>3, <1>4 DEF Queued
  <2>2. ASSUME NEW f \in S \cap Download!FileSet PROVE f \in Queued(q)
    <3>1. PICK i \in at : Files[i] = f
      BY <1>3
    <3>2. PICK k \in 1 .. n : pos[k] = i
      BY <1>2
    <3> QED
      BY <1>4, <3>1, <3>2 DEF Queued
  <2> QED
    BY <2>1, <2>2
<1>7. ShardsFirst(q)
  <2> SUFFICES ASSUME NEW r, Behind(r), NEW k \in 1 .. n, NEW l \in 1 .. n,
                      q[k] = r, q[l] \in Shards
               PROVE  l < k
    BY <1>4 DEF ShardsFirst
  <2>1. pos[l] < pos[k]
    BY <1>4 DEF Behind
  <2> QED
    BY <1>2, <2>1
<1> QED
  BY <1>5, <1>6, <1>7 DEF q

(* The tensor that is chosen stays the choice among the tensors that are   *)
(* there, as soon as it is one of them.                                    *)
LEMMA LeastIs ==
  ASSUME NEW S \in SUBSET Nat, S # {}
  PROVE  Download!Min(S) \in S /\ \A x \in S : Download!Min(S) <= x
<1>1. \E x \in S : \A y \in S : x <= y
  BY LeastNatural
<1> QED
  BY <1>1 DEF Download!Min

LEMMA LeastOfPart ==
  ASSUME NEW S \in SUBSET Nat, NEW P \in SUBSET S, Download!Min(S) \in P, S # {}
  PROVE  Download!Min(P) = Download!Min(S)
<1>1. Download!Min(S) \in S /\ \A x \in S : Download!Min(S) <= x
  BY LeastIs
<1>2. Download!Min(P) \in P /\ \A x \in P : Download!Min(P) <= x
  BY LeastIs
<1>3. Download!Min(P) <= Download!Min(S) /\ Download!Min(S) <= Download!Min(P)
  BY <1>1, <1>2
<1>4. Download!Min(P) \in Nat /\ Download!Min(S) \in Nat
  BY <1>1, <1>2
<1> QED
  BY <1>3, <1>4

LEMMA ChoiceStays ==
  ASSUME NEW present \in SUBSET Download!TensorSet, NEW group \in DOMAIN Candidates, NEW layer,
         NEW t \in Download!ChooseTensor(Download!TensorSet, group, layer)
  PROVE  /\ t \in Download!TensorSet
         /\ t \in present => Download!ChooseTensor(present, group, layer) = {t}
<1> DEFINE suffixes == Candidates[group]
           All == Download!TensorSet
           OfLayer(X, s) == {u \in X : u.suffix = s /\ u.layer = layer}
           OfAny(X, s) == {u \in X : u.suffix = s}
           exact(X) == {i \in DOMAIN suffixes : OfLayer(X, suffixes[i]) # {}}
           fallback(X) == {i \in DOMAIN suffixes : OfAny(X, suffixes[i]) # {}}
           Places(X) == {i \in DOMAIN Tensors : Tensors[i] \in X}
           First(X) == Tensors[Download!Min(Places(X))]
<1>1. ASSUME NEW X
      PROVE  Download!ChooseTensor(X, group, layer) =
               IF exact(X) # {} THEN {First(OfLayer(X, suffixes[Download!Min(exact(X))]))}
               ELSE IF fallback(X) # {} THEN {First(OfAny(X, suffixes[Download!Min(fallback(X))]))}
               ELSE {}
  BY Zenon DEF Download!ChooseTensor
<1>2. /\ DOMAIN suffixes \subseteq Nat /\ DOMAIN Tensors \subseteq Nat
      /\ \A u : u \in All <=> \E i \in DOMAIN Tensors : Tensors[i] = u
  BY Assumptions DEF Download!DownloadAssumption, Download!TensorSet, Download!ToSet
<1>3. ASSUME NEW X \in SUBSET All, X # {}
      PROVE  First(X) \in X
  <2>1. Places(X) \in SUBSET Nat /\ Places(X) # {}
    BY <1>2, <1>3
  <2>2. Download!Min(Places(X)) \in Places(X)
    BY <2>1, LeastIs
  <2> QED
    BY <2>2
<1>4. ASSUME NEW X \in SUBSET All, NEW Y \in SUBSET X, X # {}, First(X) \in Y
      PROVE  First(Y) = First(X)
  <2>1. Places(X) \in SUBSET Nat /\ Places(X) # {} /\ Places(Y) \in SUBSET Places(X)
    BY <1>2, <1>4
  <2>2. Download!Min(Places(X)) \in Places(Y)
    <3>1. Download!Min(Places(X)) \in Places(X)
      BY <2>1, LeastIs
    <3> QED
      BY <1>4, <3>1
  <2> HIDE DEF Places
  <2> QED
    BY <2>1, <2>2, LeastOfPart
<1> HIDE DEF First
<1>5. CASE exact(All) # {}
  <2> DEFINE m == Download!Min(exact(All))
             X == OfLayer(All, suffixes[m])
  <2>1. m \in exact(All)
    BY <1>2, <1>5, LeastIs
  <2>2. X # {} /\ X \in SUBSET All
    BY <2>1
  <2>3. t = First(X)
    BY <1>1, <1>5
  <2>4. t \in X
    BY <1>3, <2>2, <2>3
  <2>5. ASSUME t \in present PROVE Download!ChooseTensor(present, group, layer) = {t}
    <3>1. t \in OfLayer(present, suffixes[m])
      BY <2>4, <2>5
    <3>2. m \in exact(present) /\ exact(present) \in SUBSET exact(All)
      BY <2>1, <3>1
    <3>3. exact(All) \in SUBSET Nat
      BY <1>2
    <3>4. Download!Min(exact(present)) = m
      <4> HIDE DEF exact
      <4> QED
        BY <1>5, <3>2, <3>3, LeastOfPart
    <3>5. OfLayer(present, suffixes[m]) \in SUBSET X
      OBVIOUS
    <3>6. First(OfLayer(present, suffixes[m])) = t
      <4> HIDE DEF OfLayer
      <4> QED
        BY <1>4, <2>2, <2>3, <3>1, <3>5
    <3>7. exact(present) # {}
      BY <3>2
    <3> HIDE DEF exact, OfLayer
    <3> QED
      BY <1>1, <3>4, <3>6, <3>7
  <2> QED
    BY <2>2, <2>4, <2>5
<1>6. CASE exact(All) = {}
  <2> DEFINE m == Download!Min(fallback(All))
             X == OfAny(All, suffixes[m])
  <2>0. fallback(All) # {}
    BY <1>1, <1>6
  <2>1. m \in fallback(All)
    BY <1>2, <2>0, LeastIs
  <2>2. X # {} /\ X \in SUBSET All
    BY <2>1
  <2>3. t = First(X)
    BY <1>1, <1>6, <2>0
  <2>4. t \in X
    BY <1>3, <2>2, <2>3
  <2>5. ASSUME t \in present PROVE Download!ChooseTensor(present, group, layer) = {t}
    <3>1. t \in OfAny(present, suffixes[m])
      BY <2>4, <2>5
    <3>2. m \in fallback(present) /\ fallback(present) \in SUBSET fallback(All)
      BY <2>1, <3>1
    <3>3. fallback(All) \in SUBSET Nat
      BY <1>2
    <3>4. Download!Min(fallback(present)) = m
      <4> HIDE DEF fallback
      <4> QED
        BY <2>0, <3>2, <3>3, LeastOfPart
    <3>5. OfAny(present, suffixes[m]) \in SUBSET X
      OBVIOUS
    <3>6. First(OfAny(present, suffixes[m])) = t
      <4> HIDE DEF OfAny
      <4> QED
        BY <1>4, <2>2, <2>3, <3>1, <3>5
    <3>7. fallback(present) # {} /\ exact(present) = {}
      BY <1>6, <3>2
    <3> HIDE DEF exact, OfAny, fallback
    <3> QED
      BY <1>1, <3>4, <3>6, <3>7
  <2> QED
    BY <2>2, <2>4, <2>5
<1> QED
  BY <1>5, <1>6

(* The running downloader, and what it has still to go through.            *)
RunType ==
  [stage : {"base", "files"}, req : Download!Requests, open : BOOLEAN,
   queue : Seq(Download!FileSet)]

PlacesOK ==
  /\ file_place \in [Download!FileSet -> {"absent", "whole", "short"}]
  /\ \A f \in Download!FileSet : file_place[f] = "short" => f \in closed_early
  /\ run = Download!Idle \/ run \in RunType
  /\ run # Download!Idle /\ run.stage = "base" => run.req.only_needed

(* As long as nobody asked for the shards of one projection: a run has     *)
(* every shard or will get it, and before any required file behind them.   *)
ShardsOK ==
  ~only_needed_used =>
    /\ run # Download!Idle =>
         /\ ~run.req.only_needed /\ ShardsFirst(run.queue)
         /\ Shards \subseteq Download!Present \union Queued(run.queue)
    /\ \A r \in Download!Present : Behind(r) => Shards \subseteq Download!Present

(* The shards of a projection: those of the chosen tensor are there or     *)
(* will be, and stay when the run has ended.                               *)
Chosen(group, layer) == Download!choose_tensor_from_index(group, layer)

ProjectionsOK ==
  /\ run # Download!Idle /\ run.stage = "files" /\ run.req.only_needed =>
       \A t \in Chosen(run.req.group, run.req.layer) :
         WeightMap[t] \in Download!Present \union Queued(run.queue)
  /\ \A s \in served :
       /\ s.group \in DOMAIN Candidates /\ s.tensor \in Chosen(s.group, s.layer)
       /\ WeightMap[s.tensor] \in Download!Present

LInv == PlacesOK /\ ShardsOK /\ ProjectionsOK

(* Taking the first file from the queue when it is there.                  *)
LEMMA HeadTaken ==
  ASSUME NEW q \in Seq(Download!FileSet), q # <<>>
  PROVE  /\ Head(q) \in Download!FileSet /\ Tail(q) \in Seq(Download!FileSet)
         /\ Queued(q) = Queued(Tail(q)) \union {Head(q)}
         /\ ShardsFirst(q) => ShardsFirst(Tail(q))
         /\ ShardsFirst(q) /\ Behind(Head(q)) => Queued(q) \cap Shards = {}
<1>1. /\ Len(q) \in Nat \ {0} /\ DOMAIN q = 1 .. Len(q) /\ Head(q) = q[1]
      /\ DOMAIN Tail(q) = 1 .. Len(q) - 1
      /\ \A k \in 1 .. Len(q) - 1 : Tail(q)[k] = q[k + 1]
  OBVIOUS
<1>2. Head(q) \in Download!FileSet /\ Tail(q) \in Seq(Download!FileSet)
  OBVIOUS
<1>3. Queued(q) = Queued(Tail(q)) \union {Head(q)}
  <2>1. Queued(Tail(q)) \union {Head(q)} \subseteq Queued(q)
    BY <1>1 DEF Queued
  <2>2. ASSUME NEW k \in 1 .. Len(q) PROVE q[k] \in Queued(Tail(q)) \union {Head(q)}
    <3>1. CASE k = 1
      BY <1>1, <3>1
    <3>2. CASE k # 1
      <4>1. k - 1 \in 1 .. Len(q) - 1 /\ (k - 1) + 1 = k
        BY <1>1, <3>2
      <4> QED
        BY <1>1, <4>1 DEF Queued
    <3> QED
      BY <3>1, <3>2
  <2> QED
    BY <1>1, <2>1, <2>2 DEF Queued
<1>4. ASSUME ShardsFirst(q) PROVE ShardsFirst(Tail(q))
  <2> SUFFICES ASSUME NEW r \in Download!FileSet, Behind(r),
                      NEW k \in 1 .. Len(q) - 1, NEW l \in 1 .. Len(q) - 1,
                      Tail(q)[k] = r, Tail(q)[l] \in Shards
               PROVE  l < k
    BY <1>1 DEF ShardsFirst
  <2>1. k + 1 \in DOMAIN q /\ l + 1 \in DOMAIN q
    BY <1>1
  <2>2. l + 1 < k + 1
    BY <1>1, <1>4, <2>1 DEF ShardsFirst
  <2> QED
    BY <1>1, <2>2
<1>5. ASSUME ShardsFirst(q), Behind(Head(q)) PROVE Queued(q) \cap Shards = {}
  <2> SUFFICES ASSUME NEW l \in DOMAIN q, q[l] \in Shards PROVE FALSE
    BY DEF Queued
  <2>1. l < 1
    BY <1>1, <1>2, <1>5 DEF ShardsFirst
  <2> QED
    BY <1>1, <2>1
<1> QED
  BY <1>2, <1>3, <1>4, <1>5

(* A run for everything has all shards in its queue.                       *)
LEMMA QueueOfAll ==
  ASSUME NEW include_tokenizer \in BOOLEAN
  PROVE  LET q == Download!selected_files(include_tokenizer, TRUE)
         IN  q \in Seq(Download!FileSet) /\ ShardsFirst(q) /\ Shards \subseteq Queued(q)
BY ListedFiles, Assumptions DEF Download!selected_files, Download!DownloadAssumption

LEMMA NotIdle ==
  ASSUME run \in RunType
  PROVE  run # Download!Idle /\ run.stage \in {"base", "files"}
<1>1. run.stage \in {"base", "files"}
  BY DEF RunType
<1> QED
  BY <1>1 DEF Download!Idle

LEMMA BeginOK ==
  ASSUME LInv, NEW req \in Download!Requests, run = Download!Idle,
         run' = Download!Started(req), only_needed_used' <=> only_needed_used \/ req.only_needed,
         UNCHANGED <<file_place, served, closed_early>>
  PROVE  LInv'
<1>1. Download!Listed(BASE_FILES) \in Seq(Download!FileSet)
  BY ListedFiles
<1>2. req.only_needed \in BOOLEAN /\ req.include_tokenizer \in BOOLEAN
  BY DEF Download!Requests
<1>3. LET q == Download!selected_files(req.include_tokenizer, TRUE)
      IN  q \in Seq(Download!FileSet) /\ ShardsFirst(q) /\ Shards \subseteq Queued(q)
  BY <1>2, QueueOfAll
<1>4. /\ run' \in RunType /\ run'.req = req
      /\ run'.stage = IF req.only_needed THEN "base" ELSE "files"
      /\ ~req.only_needed => run'.queue = Download!selected_files(req.include_tokenizer, TRUE)
  BY <1>1, <1>2, <1>3 DEF Download!Started, RunType
<1>5. Download!Present' = Download!Present
  BY DEF Download!Present
<1>6. PlacesOK'
  BY <1>2, <1>4 DEF LInv, PlacesOK
<1>7. ShardsOK'
  BY <1>2, <1>3, <1>4, <1>5 DEF LInv, ShardsOK
<1>8. ProjectionsOK'
  BY <1>4, <1>5 DEF LInv, ProjectionsOK
<1> QED
  BY <1>6, <1>7, <1>8 DEF LInv

(* A run that ends without the last of its files, or is started by nobody. *)
LEMMA IdleOK ==
  ASSUME LInv, run' = Download!Idle, UNCHANGED <<file_place, served, only_needed_used, closed_early>>
  PROVE  LInv'
<1>1. Download!Present' = Download!Present
  BY DEF Download!Present
<1> QED
  BY <1>1 DEF LInv, PlacesOK, ShardsOK, ProjectionsOK

LEMMA ChooseOK ==
  ASSUME LInv, Download!ChooseShards
  PROVE  LInv'
<1>1. run \in RunType /\ run.stage = "base"
  BY DEF Download!ChooseShards, Download!Idle, LInv, PlacesOK
<1>2. UNCHANGED <<file_place, served, only_needed_used, closed_early>>
  BY DEF Download!ChooseShards, Download!Fails
<1> DEFINE req == run.req
           needed == Download!files_for_projection(req.group, req.layer)
           listed == Download!selected_files(req.include_tokenizer, FALSE)
<1>3. CASE needed = {}
  BY <1>2, <1>3, IdleOK DEF Download!ChooseShards, Download!Fails
<1>4. CASE needed # {}
  <2>1. run' = [run EXCEPT !.stage = "files", !.queue = listed \o Download!Listed(needed)]
    BY <1>4 DEF Download!ChooseShards
  <2>2. listed \in Seq(Download!FileSet) /\ Download!Listed(needed) \in Seq(Download!FileSet)
    BY ListedFiles DEF Download!selected_files
  <2>3. /\ run' \in RunType /\ run'.req = run.req /\ run'.stage = "files"
        /\ run'.queue = listed \o Download!Listed(needed)
    <3> DEFINE queue == listed \o Download!Listed(needed)
    <3>1. queue \in Seq(Download!FileSet)
      <4> HIDE DEF listed, needed
      <4> QED
        BY <2>2
    <3>2. run' = [run EXCEPT !.stage = "files", !.queue = queue]
      BY <2>1
    <3> HIDE DEF queue
    <3>3. run' \in RunType /\ run'.req = run.req /\ run'.stage = "files" /\ run'.queue = queue
      BY <1>1, <3>1, <3>2 DEF RunType
    <3> QED
      BY <3>3 DEF queue
  <2>4. req.only_needed /\ only_needed_used
    BY <1>1, NotIdle DEF LInv, PlacesOK, ShardsOK
  <2>5. req.group \in DOMAIN Candidates
    BY <1>1, <2>4 DEF RunType, Download!Requests
  <2>6. \A t \in Chosen(req.group, req.layer) : WeightMap[t] \in needed \cap Download!FileSet
    <3> SUFFICES ASSUME NEW t \in Chosen(req.group, req.layer)
                 PROVE  WeightMap[t] \in needed \cap Download!FileSet
      OBVIOUS
    <3>1. t \in Download!TensorSet
      <4>1. Download!TensorSet \in SUBSET Download!TensorSet
        OBVIOUS
      <4> QED
        BY <2>5, <4>1, ChoiceStays DEF Chosen, Download!choose_tensor_from_index
    <3>2. WeightMap[t] \in Shards /\ Shards \subseteq Download!FileSet
      BY <3>1, Assumptions DEF Download!DownloadAssumption
    <3> QED
      BY <3>2 DEF Download!files_for_projection, Chosen
  <2>7. Queued(Download!Listed(needed)) \subseteq Queued(run'.queue)
    <3> HIDE DEF listed, needed
    <3>1. ASSUME NEW k \in DOMAIN Download!Listed(needed)
          PROVE  Download!Listed(needed)[k] \in Queued(run'.queue)
      <4>1. /\ Len(listed) + k \in DOMAIN run'.queue
            /\ run'.queue[Len(listed) + k] = Download!Listed(needed)[k]
        BY <2>2, <2>3
      <4> QED
        BY <4>1 DEF Queued
    <3> QED
      BY <3>1 DEF Queued
  <2>8. \A t \in Chosen(req.group, req.layer) : WeightMap[t] \in Queued(run'.queue)
    BY <2>6, <2>7, ListedFiles
  <2>9. Download!Present' = Download!Present
    BY <1>2 DEF Download!Present
  <2>10. PlacesOK' /\ ShardsOK'
    BY <1>2, <2>3, <2>4, <2>9 DEF LInv, PlacesOK, ShardsOK
  <2>11. ProjectionsOK'
    <3>1. \A g, l : Chosen(g, l)' = Chosen(g, l)
      BY DEF Chosen, Download!choose_tensor_from_index, Download!ChooseTensor
    <3> QED
      BY <1>2, <2>3, <2>8, <2>9 DEF LInv, ProjectionsOK
  <2> QED
    BY <2>10, <2>11 DEF LInv
<1> QED
  BY <1>3, <1>4


(* The steps on one file: it is there when it is skipped or replaced.      *)
LEMMA FileOK ==
  ASSUME LInv, Download!SkipExisting \/ Download!OpenPart \/ Download!ReplaceDest
  PROVE  LInv'
<1>1. run \in RunType /\ run.queue \in Seq(Download!FileSet) /\ run.queue # <<>>
  <2>1. run \in RunType
    BY DEF Download!SkipExisting, Download!OpenPart, Download!ReplaceDest, Download!Working,
           Download!Idle, LInv, PlacesOK
  <2> QED
    BY <2>1 DEF RunType, Download!SkipExisting, Download!OpenPart, Download!ReplaceDest,
                Download!Working
<1>2. UNCHANGED <<served, only_needed_used>>
  BY DEF Download!SkipExisting, Download!OpenPart, Download!ReplaceDest
<1>3. \A g, l : Chosen(g, l)' = Chosen(g, l)
  BY DEF Chosen, Download!choose_tensor_from_index, Download!ChooseTensor
<1>4. CASE Download!OpenPart
  <2>1. /\ run' \in RunType /\ run'.queue = run.queue /\ run'.req = run.req /\ run'.stage = run.stage
        /\ UNCHANGED <<file_place, closed_early>>
    BY <1>1, <1>4 DEF Download!OpenPart, RunType
  <2>2. Download!Present' = Download!Present
    BY <2>1 DEF Download!Present
  <2>3. run # Download!Idle /\ run' # Download!Idle
    BY <1>1, <2>1 DEF RunType, Download!Idle
  <2>4. PlacesOK'
    BY <2>1, <2>3 DEF LInv, PlacesOK
  <2>5. ShardsOK'
    BY <1>2, <2>1, <2>2, <2>3 DEF LInv, ShardsOK
  <2>6. ProjectionsOK'
    BY <1>2, <1>3, <2>1, <2>2, <2>3 DEF LInv, ProjectionsOK
  <2> QED
    BY <2>4, <2>5, <2>6 DEF LInv
<1>5. CASE Download!SkipExisting \/ Download!ReplaceDest
  <2> DEFINE file == Head(run.queue)
  <2>1. /\ run' \in RunType /\ run'.queue = Tail(run.queue) /\ run'.req = run.req
        /\ run'.stage = run.stage
    <3>1. Tail(run.queue) \in Seq(Download!FileSet)
      BY <1>1, HeadTaken
    <3>2. run' = [run EXCEPT !.queue = Tail(run.queue)]
          \/ run' = [run EXCEPT !.open = FALSE, !.queue = Tail(run.queue)]
      BY <1>5 DEF Download!SkipExisting, Download!ReplaceDest
    <3> DEFINE rest == Tail(run.queue)
    <3> HIDE DEF rest
    <3>3. rest \in Seq(Download!FileSet)
          /\ (run' = [run EXCEPT !.queue = rest] \/ run' = [run EXCEPT !.open = FALSE, !.queue = rest])
      BY <3>1, <3>2 DEF rest
    <3>4. run' \in RunType /\ run'.queue = rest /\ run'.req = run.req /\ run'.stage = run.stage
      BY <1>1, <3>3 DEF RunType
    <3> QED
      BY <3>4 DEF rest
  <2>2. run # Download!Idle /\ run' # Download!Idle
    BY <1>1, <2>1 DEF RunType, Download!Idle
  <2>3. /\ file \in Download!FileSet
        /\ Queued(run.queue) = Queued(run'.queue) \union {file}
        /\ ShardsFirst(run.queue) => ShardsFirst(run'.queue)
        /\ ShardsFirst(run.queue) /\ Behind(file) => Queued(run.queue) \cap Shards = {}
    BY <1>1, <2>1, HeadTaken
  <2>4. /\ file_place' \in [Download!FileSet -> {"absent", "whole", "short"}]
        /\ \A f \in Download!FileSet : file_place'[f] = "short" => f \in closed_early'
        /\ \A f \in Download!FileSet : file_place[f] # "absent" => file_place'[f] # "absent"
        /\ file_place'[file] # "absent"
        /\ \A f \in Download!FileSet : f # file => file_place'[f] = file_place[f]
    <3>1. CASE Download!SkipExisting
      BY <2>3, <3>1 DEF Download!SkipExisting, Download!File, Download!Present, LInv, PlacesOK
    <3>2. CASE Download!ReplaceDest
      BY <2>3, <3>2 DEF Download!ReplaceDest, Download!File, LInv, PlacesOK
    <3> QED
      BY <1>5, <3>1, <3>2
  <2>5. Download!Present' = Download!Present \union {file}
    BY <2>3, <2>4 DEF Download!Present
  <2> HIDE DEF file
  <2>6. PlacesOK'
    BY <2>1, <2>2, <2>4 DEF LInv, PlacesOK
  <2>7. ShardsOK'
    <3> SUFFICES ASSUME ~only_needed_used PROVE ShardsOK'
      BY <1>2 DEF ShardsOK
    <3>1. /\ ~run.req.only_needed /\ ShardsFirst(run.queue)
          /\ Shards \subseteq Download!Present \union Queued(run.queue)
          /\ \A r \in Download!Present : Behind(r) => Shards \subseteq Download!Present
      BY <2>2 DEF LInv, ShardsOK
    <3>2. Shards \subseteq Download!Present' \union Queued(run'.queue)
      BY <2>3, <2>5, <3>1
    <3>3. ASSUME Behind(file) PROVE Shards \subseteq Download!Present'
      BY <2>3, <2>5, <3>1, <3>3
    <3>4. \A r \in Download!Present' : Behind(r) => Shards \subseteq Download!Present'
      BY <2>5, <3>1, <3>3
    <3> QED
      BY <1>2, <2>1, <2>3, <3>1, <3>2, <3>4 DEF ShardsOK
  <2>8. ProjectionsOK'
    <3>1. /\ run.stage = "files" /\ run.req.only_needed =>
               \A t \in Chosen(run.req.group, run.req.layer) :
                 WeightMap[t] \in Download!Present' \union Queued(run'.queue)
          /\ \A s \in served : WeightMap[s.tensor] \in Download!Present'
      BY <2>2, <2>3, <2>5 DEF LInv, ProjectionsOK
    <3> QED
      BY <1>2, <1>3, <2>1, <2>2, <3>1 DEF LInv, ProjectionsOK
  <2> QED
    BY <2>6, <2>7, <2>8 DEF LInv
<1> QED
  BY <1>4, <1>5

(* A run that is through: a projection's shards are all there.             *)
LEMMA DoneOK ==
  ASSUME LInv, Download!Done
  PROVE  LInv'
<1>1. run \in RunType /\ run.stage = "files" /\ Queued(run.queue) = {}
  BY DEF Download!Done, Download!Idle, LInv, PlacesOK, Queued
<1>2. run' = Download!Idle /\ UNCHANGED <<file_place, only_needed_used, closed_early>>
  BY DEF Download!Done
<1>3. Download!Present' = Download!Present /\ \A g, l : Chosen(g, l)' = Chosen(g, l)
  BY <1>2 DEF Download!Present, Chosen, Download!choose_tensor_from_index, Download!ChooseTensor
<1>4. PlacesOK' /\ ShardsOK'
  BY <1>2, <1>3 DEF LInv, PlacesOK, ShardsOK
<1>5. CASE ~run.req.only_needed
  <2>1. served' = served
    BY <1>5 DEF Download!Done
  <2> QED
    BY <1>2, <1>3, <1>4, <2>1 DEF LInv, ProjectionsOK
<1>6. CASE run.req.only_needed
  <2> DEFINE g == run.req.group
             l == run.req.layer
  <2>1. g \in DOMAIN Candidates
    BY <1>1, <1>6 DEF RunType, Download!Requests
  <2>2. served' = served \union {[group |-> g, layer |-> l, tensor |-> t] : t \in Chosen(g, l)}
    BY <1>6 DEF Download!Done, Chosen
  <2>3. \A t \in Chosen(g, l) : WeightMap[t] \in Download!Present
    BY <1>1, <1>6, NotIdle DEF LInv, ProjectionsOK
  <2> HIDE DEF g, l
  <2>4. \A s \in served' :
          /\ s.group \in DOMAIN Candidates /\ s.tensor \in Chosen(s.group, s.layer)
          /\ WeightMap[s.tensor] \in Download!Present
    BY <2>1, <2>2, <2>3 DEF LInv, ProjectionsOK
  <2>5. ProjectionsOK'
    BY <1>2, <1>3, <2>4 DEF ProjectionsOK
  <2> QED
    BY <1>4, <2>5 DEF LInv
<1>7. run.req.only_needed \in BOOLEAN
  BY <1>1 DEF RunType, Download!Requests
<1> QED
  BY <1>5, <1>6, <1>7

LEMMA LInvInductive ==
  /\ ExperimentsInit => LInv
  /\ LInv /\ [ExperimentsNext]_experiments => LInv'
<1>1. ASSUME ExperimentsInit PROVE LInv
  <2>1. Download!Init
    BY <1>1 DEF ExperimentsInit
  <2>2. Download!Present = {}
    BY <2>1 DEF Download!Init, Download!Present
  <2> QED
    BY <2>1, <2>2 DEF Download!Init, LInv, PlacesOK, ShardsOK, ProjectionsOK
<1>2. ASSUME LInv, UNCHANGED <<file_place, run, served, only_needed_used, closed_early>> PROVE LInv'
  <2>1. Download!Present' = Download!Present /\ \A g, l : Chosen(g, l)' = Chosen(g, l)
    BY <1>2 DEF Download!Present, Chosen, Download!choose_tensor_from_index, Download!ChooseTensor
  <2> QED
    BY <1>2, <2>1 DEF LInv, PlacesOK, ShardsOK, ProjectionsOK
<1>3. ASSUME LInv, Download!Next PROVE LInv'
  <2>1. ASSUME NEW req \in Download!Requests, Download!Start(req) PROVE LInv'
    BY <1>3, <2>1, BeginOK DEF Download!Start
  <2>2. ASSUME NEW may_download \in BOOLEAN, Download!ensure_model_available(may_download) PROVE LInv'
    <3> DEFINE req == [include_tokenizer |-> TRUE, force |-> FALSE, only_needed |-> FALSE,
                       group |-> "any", layer |-> 0]
    <3>1. \/ UNCHANGED run
          \/ run = Download!Idle /\ run' = Download!Started(req)
      BY <2>2 DEF Download!ensure_model_available
    <3>2. UNCHANGED <<file_place, served, only_needed_used, closed_early>>
      BY <2>2 DEF Download!ensure_model_available
    <3>3. req \in Download!Requests /\ req.only_needed = FALSE
      BY DEF Download!Requests
    <3>4. only_needed_used' <=> only_needed_used \/ req.only_needed
      <4>1. only_needed_used' = only_needed_used
        BY <3>2
      <4> QED
        BY <3>3, <4>1
    <3> HIDE DEF req
    <3> QED
      BY <1>2, <1>3, <3>1, <3>2, <3>3, <3>4, BeginOK
  <2>3. CASE Download!DownloadError \/ Download!Kill
    BY <1>3, <2>3, IdleOK DEF Download!DownloadError, Download!Fails, Download!Kill
  <2> QED
    BY <1>3, <2>1, <2>2, <2>3, ChooseOK, FileOK, DoneOK DEF Download!Next
<1>4. ASSUME LInv, [ExperimentsNext]_experiments PROVE LInv'
  <2>1. CASE RunDownload /\ Download!Next
    BY <1>3, <1>4, <2>1
  <2>2. CASE UNCHANGED download
    BY <1>2, <1>4, <2>2 DEF download
  <2> QED
    BY <1>4, <2>1, <2>2 DEF ExperimentsNext, RunDownload, RunRunner, RunDriver, RunPipeline, experiments
<1> QED
  BY <1>1, <1>4

(* Whatever was downloaded, cut short and interrupted: a file is short     *)
(* only if its connection was closed early, load_projection reads the      *)
(* tensor that a download for the projection chose, and a directory that   *)
(* model_files_ready accepts has all shards unless some run was for one    *)
(* projection only.                                                        *)
THEOREM LoadsItsTensor ==
  ASSUME Download!NamesAssumption
  PROVE  ExperimentsSpec => []LoadsTheTensor
<1>1. LInv => Download!LoadsTheTensor
  <2> SUFFICES ASSUME LInv PROVE Download!LoadsTheTensor
    OBVIOUS
  <2>1. \A f \in Download!FileSet : file_place[f] = "short" => f \in closed_early
    BY DEF LInv, PlacesOK
  <2>2. ASSUME NEW s \in served PROVE Download!choose_tensor(s.group, s.layer) = {s.tensor}
    <3>1. /\ s.group \in DOMAIN Candidates
          /\ s.tensor \in Download!ChooseTensor(Download!TensorSet, s.group, s.layer)
          /\ WeightMap[s.tensor] \in Download!Present
      BY DEF LInv, ProjectionsOK, Chosen, Download!choose_tensor_from_index
    <3>2. Download!tensor_index \in SUBSET Download!TensorSet
      BY DEF Download!tensor_index
    <3>3. s.tensor \in Download!TensorSet
      BY <3>1, <3>2, ChoiceStays
    <3>4. s.tensor \in Download!tensor_index
      BY <3>1, <3>3 DEF Download!tensor_index
    <3> QED
      BY <3>1, <3>2, <3>4, ChoiceStays DEF Download!choose_tensor
  <2>3. ASSUME Download!model_files_ready, ~only_needed_used, NEW t \in Download!TensorSet
        PROVE  WeightMap[t] \in Download!Present
    <3>1. PICK r \in MODEL_REQUIRED_FILES : Behind(r)
      BY DEF Download!NamesAssumption, Behind
    <3>2. r \in Download!Present
      BY <2>3 DEF Download!model_files_ready
    <3>3. WeightMap[t] \in Shards
      BY Assumptions DEF Download!DownloadAssumption
    <3> QED
      BY <2>3, <3>1, <3>2, <3>3 DEF LInv, ShardsOK
  <2> QED
    BY <2>1, <2>2, <2>3 DEF Download!LoadsTheTensor
<1>2. ExperimentsSpec => []LInv
  BY LInvInductive, PTL DEF ExperimentsSpec
<1> QED
  BY <1>1, <1>2, PTL DEF LoadsTheTensor

---------------------------------------------------------------------------
(* Sums.  A sum takes the elements of a set in some order; Sums(f, S) is   *)
(* the sum of f over every subset of S.                                    *)

Some(s) == CHOOSE x \in s : TRUE
IsSums(f, S, g) ==
  g = [s \in SUBSET S |-> IF s = {} THEN 0 ELSE f[Some(s)] + g[s \ {Some(s)}]]
Sums(f, S) == CHOOSE g : IsSums(f, S, g)

(* The library's sum is of that form.                                      *)
LEMMA SumUnfolded ==
  ASSUME NEW f, NEW S
  PROVE  SumFunctionOnSet(f, S) = Sums(f, S)[S]
BY DEF SumFunctionOnSet, FoldFunctionOnSet, MapThenFoldSet, Sums, IsSums, Some

(* Of the subsets of a finite set that have some property one is smallest. *)
LEMMA SmallestSet ==
  ASSUME NEW S, IsFiniteSet(S), NEW B \in SUBSET SUBSET S, B # {}
  PROVE  \E X \in B : IsFiniteSet(X) /\ \A U \in B : U \subseteq X => U = X
<1>1. \A X \in SUBSET S : IsFiniteSet(X) /\ Cardinality(X) \in Nat
  BY FS_Subset, FS_CardinalityType
<1> DEFINE sizes == {Cardinality(X) : X \in B}
<1>2. sizes \in SUBSET Nat /\ sizes # {}
  BY <1>1
<1>3. PICK n \in sizes : \A m \in sizes : n <= m
  BY <1>2, LeastNatural
<1>4. PICK X \in B : Cardinality(X) = n
  OBVIOUS
<1>5. ASSUME NEW U \in B, U \subseteq X
      PROVE  U = X
  <2>1. Cardinality(X) <= Cardinality(U)
    BY <1>3, <1>4
  <2>2. Cardinality(U) <= Cardinality(X) /\ (Cardinality(U) = Cardinality(X) => U = X)
    BY <1>1, <1>5, FS_Subset
  <2>3. Cardinality(U) \in Nat /\ Cardinality(X) \in Nat
    BY <1>1
  <2> HIDE DEF sizes
  <2> QED
    BY <2>1, <2>2, <2>3
<1> QED
  BY <1>1, <1>4, <1>5

LEMMA SomeIn == \A s : s # {} => Some(s) \in s
BY DEF Some

(* There is such a function, size by size.                                 *)
LEMMA SumsExist ==
  ASSUME NEW f, NEW S, IsFiniteSet(S)
  PROVE  IsSums(f, S, Sums(f, S))
<1> DEFINE Level(n) == {s \in SUBSET S : Cardinality(s) <= n}
           Up(g, s) == IF s = {} THEN 0 ELSE f[Some(s)] + g[s \ {Some(s)}]
           Has(n) == \E g : g = [s \in Level(n) |-> Up(g, s)]
<1>1. \A s \in SUBSET S : /\ IsFiniteSet(s) /\ Cardinality(s) \in Nat
                          /\ Cardinality(s) <= Cardinality(S)
                          /\ Cardinality(s) = 0 <=> s = {}
  BY FS_Subset, FS_CardinalityType, FS_EmptySet
<1>2. Has(0)
  <2> DEFINE g == [s \in Level(0) |-> 0]
  <2>1. \A s \in Level(0) : s = {}
    BY <1>1
  <2>2. \A s \in Level(0) : Up(g, s) = 0
    BY <2>1
  <2>3. g = [s \in Level(0) |-> Up(g, s)]
    BY <2>2
  <2> QED
    BY <2>3
<1>3. ASSUME NEW n \in Nat, Has(n)
      PROVE  Has(n + 1)
  <2>1. PICK g : g = [s \in Level(n) |-> Up(g, s)]
    BY <1>3
  <2> DEFINE h == [s \in Level(n + 1) |-> Up(g, s)]
  <2>2. ASSUME NEW s \in Level(n)
        PROVE  s \in Level(n + 1) /\ h[s] = g[s]
    <3>1. s \in Level(n + 1)
      BY <1>1
    <3>2. h[s] = Up(g, s) /\ g[s] = Up(g, s)
      BY <2>1, <3>1
    <3> QED
      BY <3>1, <3>2
  <2>3. ASSUME NEW s \in Level(n + 1), s # {}
        PROVE  s \ {Some(s)} \in Level(n)
    <3>1. Some(s) \in s /\ s \ {Some(s)} \in SUBSET S
      BY <2>3, SomeIn
    <3>2. Cardinality(s \ {Some(s)}) = Cardinality(s) - 1
      BY <1>1, <3>1, FS_RemoveElement
    <3>3. Cardinality(s) \in Nat /\ Cardinality(s) <= n + 1
      BY <1>1
    <3> QED
      BY <3>1, <3>2, <3>3
  <2> HIDE DEF Level
  <2>4. \A s \in Level(n + 1) : Up(g, s) = Up(h, s)
    BY <2>2, <2>3
  <2>5. h = [s \in Level(n + 1) |-> Up(h, s)]
    BY <2>4
  <2> QED
    BY <2>5
<1>4. \A n \in Nat : Has(n)
  <2> DEFINE bad == {n \in Nat : ~Has(n)}
  <2> SUFFICES ASSUME bad # {} PROVE FALSE
    OBVIOUS
  <2>1. bad \in SUBSET Nat
    OBVIOUS
  <2>2. PICK n \in bad : \A m \in bad : n <= m
    BY <2>1, LeastNatural
  <2> HIDE DEF Has
  <2>3. n \in Nat /\ ~Has(n) /\ n # 0
    BY <1>2, <2>2
  <2>4. n - 1 \in Nat /\ Has(n - 1)
    <3>1. n - 1 \in Nat /\ ~(n <= n - 1)
      BY <2>3
    <3> QED
      BY <2>2, <3>1
  <2>5. Has((n - 1) + 1)
    BY <1>3, <2>4
  <2>6. (n - 1) + 1 = n
    BY <2>3
  <2> QED
    BY <2>3, <2>5, <2>6
<1>5. Cardinality(S) \in Nat /\ Level(Cardinality(S)) = SUBSET S
  BY <1>1
<1>6. \E g : IsSums(f, S, g)
  BY <1>4, <1>5 DEF IsSums
<1> QED
  BY <1>6 DEF Sums

(* The sum over a subset is the same function's, and does not depend on S. *)
LEMMA SumsValues ==
  ASSUME NEW f, NEW S, IsFiniteSet(S), NEW X \in SUBSET S
  PROVE  /\ Sums(f, S)[{}] = 0
         /\ X # {} => Sums(f, S)[X] = f[Some(X)] + Sums(f, S)[X \ {Some(X)}]
<1>1. Sums(f, S) = [s \in SUBSET S |-> IF s = {} THEN 0 ELSE f[Some(s)] + Sums(f, S)[s \ {Some(s)}]]
  <2>1. IsSums(f, S, Sums(f, S))
    BY SumsExist
  <2> QED
    BY <2>1 DEF IsSums
<1> QED
  BY <1>1

(* The sum over a subset does not depend on what it is a subset of.        *)
LEMMA SumOfSubset ==
  ASSUME NEW f, NEW S, IsFiniteSet(S), NEW X \in SUBSET S
  PROVE  SumFunctionOnSet(f, X) = Sums(f, S)[X]
<1>1. IsFiniteSet(X)
  BY FS_Subset
<1> DEFINE bad == {U \in SUBSET X : Sums(f, X)[U] # Sums(f, S)[U]}
<1>2. ASSUME bad # {}
      PROVE  FALSE
  <2>1. bad \in SUBSET SUBSET X
    OBVIOUS
  <2> HIDE DEF bad
  <2>2. PICK U \in bad : \A V \in bad : V \subseteq U => V = U
    BY <1>1, <1>2, <2>1, SmallestSet
  <2> USE DEF bad
  <2>3. U \in SUBSET X /\ U \in SUBSET S /\ Sums(f, X)[U] # Sums(f, S)[U]
    OBVIOUS
  <2>4. U # {}
    BY <1>1, <2>3, SumsValues
  <2>5. Some(U) \in U
    BY <2>4, SomeIn
  <2>6. U \ {Some(U)} \notin bad
    BY <2>2, <2>5
  <2>7. Sums(f, X)[U \ {Some(U)}] = Sums(f, S)[U \ {Some(U)}]
    BY <2>3, <2>6
  <2> HIDE DEF bad
  <2> QED
    BY <1>1, <2>3, <2>4, <2>7, SumsValues
<1>3. Sums(f, X)[X] = Sums(f, S)[X]
  BY <1>2
<1> QED
  BY <1>3, SumUnfolded

(* One element after the other.                                            *)
LEMMA SumOfSome ==
  ASSUME NEW f, NEW S, IsFiniteSet(S)
  PROVE  /\ SumFunctionOnSet(f, {}) = 0
         /\ S # {} => SumFunctionOnSet(f, S) = f[Some(S)] + SumFunctionOnSet(f, S \ {Some(S)})
<1>1. SumFunctionOnSet(f, {}) = Sums(f, S)[{}]
  BY SumOfSubset
<1>2. SumFunctionOnSet(f, S) = Sums(f, S)[S]
  BY SumOfSubset
<1>3. SumFunctionOnSet(f, S \ {Some(S)}) = Sums(f, S)[S \ {Some(S)}]
  BY SumOfSubset
<1> QED
  BY <1>1, <1>2, <1>3, SumsValues

(* The order does not matter: any element can be taken first.              *)
LEMMA SumTaken ==
  ASSUME NEW f, NEW S, IsFiniteSet(S), \A x \in S : f[x] \in Nat
  PROVE  /\ SumFunctionOnSet(f, S) \in Nat
         /\ \A x \in S : SumFunctionOnSet(f, S) = f[x] + SumFunctionOnSet(f, S \ {x})
<1>1. \A X \in SUBSET S : IsFiniteSet(X)
  BY FS_Subset
<1> DEFINE Sum(X) == SumFunctionOnSet(f, X)
           unknown == {X \in SUBSET S : Sum(X) \notin Nat}
           bad == {X \in SUBSET S : \E x \in X : Sum(X) # f[x] + Sum(X \ {x})}
<1>2. \A X \in SUBSET S : X # {} => Some(X) \in X /\ Sum(X) = f[Some(X)] + Sum(X \ {Some(X)})
  BY <1>1, SumOfSome, SomeIn
<1>3. Sum({}) = 0
  BY <1>1, SumOfSome
<1> HIDE DEF Sum
<1>4. ASSUME unknown # {}
      PROVE  FALSE
  <2>1. unknown \in SUBSET SUBSET S
    OBVIOUS
  <2> HIDE DEF unknown
  <2>2. PICK X \in unknown : \A U \in unknown : U \subseteq X => U = X
    BY <1>4, <2>1, SmallestSet
  <2> USE DEF unknown
  <2>3. X \in SUBSET S /\ X # {}
    BY <1>3
  <2>4. Some(X) \in X /\ X \ {Some(X)} \notin unknown
    BY <1>2, <2>2, <2>3
  <2>5. Sum(X \ {Some(X)}) \in Nat /\ f[Some(X)] \in Nat
    BY <2>3, <2>4
  <2> QED
    BY <1>2, <2>2, <2>3, <2>5
<1>5. \A X \in SUBSET S : Sum(X) \in Nat
  BY <1>4
<1>6. ASSUME bad # {}
      PROVE  FALSE
  <2>1. bad \in SUBSET SUBSET S
    OBVIOUS
  <2> HIDE DEF bad
  <2>2. PICK X \in bad : \A U \in bad : U \subseteq X => U = X
    BY <1>6, <2>1, SmallestSet
  <2> USE DEF bad
  <2>3. PICK x \in X : Sum(X) # f[x] + Sum(X \ {x})
    OBVIOUS
  <2> DEFINE c == Some(X)
             rest == (X \ {c}) \ {x}
  <2>4. X \in SUBSET S /\ c \in X /\ Sum(X) = f[c] + Sum(X \ {c})
    BY <1>2
  <2> HIDE DEF c
  <2>5. c # x
    BY <2>3, <2>4
  <2>6. X \ {c} \in SUBSET S /\ X \ {x} \in SUBSET S /\ rest \in SUBSET S /\ rest = (X \ {x}) \ {c}
    BY <2>4
  <2>7. X \ {c} \notin bad /\ X \ {x} \notin bad
    BY <2>2, <2>4
  <2>8. Sum(X \ {c}) = f[x] + Sum(rest)
    BY <2>5, <2>6, <2>7
  <2>9. Sum(X \ {x}) = f[c] + Sum(rest)
    BY <2>4, <2>5, <2>6, <2>7
  <2>10. f[x] \in Nat /\ f[c] \in Nat /\ Sum(rest) \in Nat
    BY <1>5, <2>4, <2>6
  <2> HIDE DEF bad, rest
  <2> QED
    BY <2>3, <2>4, <2>8, <2>9, <2>10
<1>7. \A x \in S : Sum(S) = f[x] + Sum(S \ {x})
  BY <1>6
<1> QED
  BY <1>5, <1>7 DEF Sum

(* Sums over disjoint sets add up.                                         *)
LEMMA SumOfUnion ==
  ASSUME NEW f, NEW S, NEW X, IsFiniteSet(S), IsFiniteSet(X), S \cap X = {},
         \A x \in S \union X : f[x] \in Nat
  PROVE  SumFunctionOnSet(f, S \union X) = SumFunctionOnSet(f, S) + SumFunctionOnSet(f, X)
<1> DEFINE Sum(U) == SumFunctionOnSet(f, U)
           bad == {U \in SUBSET X : Sum(S \union U) # Sum(S) + Sum(U)}
<1>1. ASSUME NEW U \in SUBSET X
      PROVE  /\ Sum(U) \in Nat /\ Sum(S) \in Nat
             /\ \A x \in U : /\ Sum(U) = f[x] + Sum(U \ {x})
                             /\ Sum(S \union U) = f[x] + Sum((S \union U) \ {x})
  <2>1. IsFiniteSet(U) /\ IsFiniteSet(S \union U)
    BY FS_Subset, FS_Union
  <2> QED
    BY <2>1, SumTaken
<1>2. Sum({}) = 0
  BY SumOfSome
<1> HIDE DEF Sum
<1>3. ASSUME bad # {}
      PROVE  FALSE
  <2>1. bad \in SUBSET SUBSET X
    OBVIOUS
  <2> HIDE DEF bad
  <2>2. PICK U \in bad : \A V \in bad : V \subseteq U => V = U
    BY <1>3, <2>1, SmallestSet
  <2> USE DEF bad
  <2>3. U \in SUBSET X /\ U # {}
    <3>1. S \union {} = S /\ Sum(S) + Sum({}) = Sum(S)
      BY <1>1, <1>2
    <3> QED
      BY <2>2, <3>1
  <2>4. PICK x \in U : TRUE
    BY <2>3
  <2>5. U \ {x} \in SUBSET X /\ U \ {x} \notin bad
    BY <2>2, <2>3, <2>4
  <2>6. (S \union U) \ {x} = S \union (U \ {x})
    BY <2>3, <2>4
  <2>7. Sum(S \union (U \ {x})) = Sum(S) + Sum(U \ {x})
    BY <2>5
  <2>8. Sum(U) = f[x] + Sum(U \ {x}) /\ Sum(S \union U) = f[x] + Sum(S \union (U \ {x}))
    <3>1. Sum(U) = f[x] + Sum(U \ {x}) /\ Sum(S \union U) = f[x] + Sum((S \union U) \ {x})
      BY <1>1, <2>3, <2>4, Zenon
    <3> QED
      BY <2>6, <3>1, Zenon
  <2>9. f[x] \in Nat /\ Sum(S) \in Nat /\ Sum(U \ {x}) \in Nat
    BY <1>1, <2>3, <2>4, <2>5
  <2>10. Sum(S \union U) # Sum(S) + Sum(U)
    BY <2>2
  <2> HIDE DEF bad
  <2> QED
    BY <2>7, <2>8, <2>9, <2>10
<1> QED
  BY <1>3 DEF Sum

(* The union of the parts.                                                 *)
All(piece, C) == UNION {piece[c] : c \in C}

(* What is added up over each of disjoint parts, added up over the parts,  *)
(* is the sum over their union.                                            *)
LEMMA SumOfSums ==
  ASSUME NEW f, NEW g, NEW C, IsFiniteSet(C), NEW piece,
         \A c \in C : IsFiniteSet(piece[c]) /\ \A x \in piece[c] : f[x] \in Nat,
         \A c, d \in C : c # d => piece[c] \cap piece[d] = {},
         \A c \in C : g[c] = SumFunctionOnSet(f, piece[c])
  PROVE  SumFunctionOnSet(g, C) = SumFunctionOnSet(f, All(piece, C))
<1> DEFINE Parts(D) == UNION {piece[c] : c \in D}
           Sum(S) == SumFunctionOnSet(f, S)
           Sum2(D) == SumFunctionOnSet(g, D)
           bad == {D \in SUBSET C : Sum2(D) # Sum(Parts(D)) \/ ~IsFiniteSet(Parts(D))}
<1>1. \A D \in SUBSET C : IsFiniteSet(D)
  BY FS_Subset
<1>2. \A c \in C : g[c] \in Nat
  BY SumTaken
<1>3. \A D \in SUBSET C : \A c \in D : Sum2(D) = g[c] + Sum2(D \ {c})
  <2> SUFFICES ASSUME NEW D \in SUBSET C PROVE \A c \in D : Sum2(D) = g[c] + Sum2(D \ {c})
    OBVIOUS
  <2>1. IsFiniteSet(D) /\ \A c \in D : g[c] \in Nat
    BY <1>1, <1>2
  <2> QED
    BY <2>1, SumTaken
<1>4. Sum2({}) = 0 /\ Sum({}) = 0 /\ IsFiniteSet({}) /\ Parts({}) = {}
  BY SumOfSome, FS_EmptySet
<1>5. \A D \in SUBSET C : \A c \in D :
        Parts(D) = piece[c] \union Parts(D \ {c}) /\ piece[c] \cap Parts(D \ {c}) = {}
  OBVIOUS
<1>6. \A D \in SUBSET C : \A x \in Parts(D) : f[x] \in Nat
  OBVIOUS
<1>7. ASSUME NEW D \in SUBSET C, NEW c \in D, IsFiniteSet(Parts(D \ {c}))
      PROVE  Sum(Parts(D)) = g[c] + Sum(Parts(D \ {c})) /\ IsFiniteSet(Parts(D))
  <2> DEFINE P == piece[c]
             rest == Parts(D \ {c})
  <2>1. IsFiniteSet(P) /\ g[c] = SumFunctionOnSet(f, P) /\ IsFiniteSet(rest)
    BY <1>7
  <2>2. Parts(D) = P \union rest /\ P \cap rest = {} /\ \A x \in P \union rest : f[x] \in Nat
    BY <1>5, <1>6
  <2> HIDE DEF P, rest, All
  <2>3. SumFunctionOnSet(f, P \union rest) = SumFunctionOnSet(f, P) + SumFunctionOnSet(f, rest)
    BY <2>1, <2>2, SumOfUnion
  <2>4. IsFiniteSet(P \union rest)
    BY <2>1, FS_Union
  <2> QED
    BY <2>1, <2>2, <2>3, <2>4 DEF rest
<1> HIDE DEF Sum, Sum2, Parts
<1>8. ASSUME bad # {}
      PROVE  FALSE
  <2>1. bad \in SUBSET SUBSET C
    OBVIOUS
  <2> HIDE DEF bad
  <2>2. PICK D \in bad : \A E \in bad : E \subseteq D => E = D
    BY <1>8, <2>1, SmallestSet
  <2> USE DEF bad
  <2>3. D \in SUBSET C /\ D # {}
    BY <1>4, <2>2
  <2>4. PICK c \in D : TRUE
    BY <2>3
  <2>5. D \ {c} \in SUBSET C /\ D \ {c} \notin bad
    BY <2>2, <2>3, <2>4
  <2>6. Sum2(D \ {c}) = Sum(Parts(D \ {c})) /\ IsFiniteSet(Parts(D \ {c}))
    BY <2>5
  <2>7. Sum2(D) = Sum(Parts(D)) /\ IsFiniteSet(Parts(D))
    BY <1>3, <1>7, <2>3, <2>4, <2>6
  <2> QED
    BY <2>2, <2>7
<1>9. Sum2(C) = Sum(Parts(C))
  BY <1>8
<1> QED
  BY <1>9 DEF Sum, Sum2, Parts, All

(* A set's size is the sum of its ones.                                    *)
LEMMA CardinalityIsSum ==
  ASSUME NEW f, NEW S, IsFiniteSet(S), \A x \in S : f[x] = 1
  PROVE  SumFunctionOnSet(f, S) = Cardinality(S)
<1>1. \A X \in SUBSET S : IsFiniteSet(X) /\ Cardinality(X) \in Nat
  BY FS_Subset, FS_CardinalityType
<1> DEFINE bad == {X \in SUBSET S : SumFunctionOnSet(f, X) # Cardinality(X)}
<1> SUFFICES ASSUME bad # {} PROVE FALSE
  OBVIOUS
<1>2. bad \in SUBSET SUBSET S
  OBVIOUS
<1> HIDE DEF bad
<1>3. PICK X \in bad : \A U \in bad : U \subseteq X => U = X
  BY <1>2, SmallestSet
<1> USE DEF bad
<1>4. X \in SUBSET S /\ X # {}
  BY <1>1, SumOfSome, FS_EmptySet
<1>5. Some(X) \in X /\ X \ {Some(X)} \in SUBSET S
  BY <1>4, SomeIn
<1>6. X \ {Some(X)} \notin bad
  BY <1>3, <1>5
<1>7. SumFunctionOnSet(f, X \ {Some(X)}) = Cardinality(X) - 1
  BY <1>1, <1>4, <1>5, <1>6, FS_RemoveElement
<1>8. SumFunctionOnSet(f, X) = 1 + (Cardinality(X) - 1)
  BY <1>1, <1>4, <1>5, <1>7, SumOfSome
<1>9. 1 + (Cardinality(X) - 1) = Cardinality(X)
  BY <1>1, <1>4
<1> QED
  BY <1>3, <1>8, <1>9

(* As many values as elements.                                             *)
LEMMA ImageFinite ==
  ASSUME NEW S, IsFiniteSet(S), NEW f
  PROVE  IsFiniteSet({f[x] : x \in S})
<1> DEFINE X == {f[x] : x \in S}
           g == [x \in S |-> f[x]]
<1>1. g \in Surjection(S, X)
  BY DEF Surjection
<1> QED
  BY <1>1, FS_Surjection

(* Sizes of disjoint parts add up to that of their union.                  *)
LEMMA SizesAddUp ==
  ASSUME NEW g, NEW C, IsFiniteSet(C), NEW piece,
         \A c \in C : IsFiniteSet(piece[c]),
         \A c, d \in C : c # d => piece[c] \cap piece[d] = {},
         \A c \in C : g[c] = Cardinality(piece[c])
  PROVE  SumFunctionOnSet(g, C) = Cardinality(All(piece, C))
<1> DEFINE all == All(piece, C)
           one == [x \in all |-> 1]
<1>1. \A c \in C : \A x \in piece[c] : one[x] = 1
  BY DEF All
<1>2. \A x \in all : one[x] = 1
  OBVIOUS
<1>3. IsFiniteSet(all)
  <2>1. IsFiniteSet({piece[c] : c \in C})
    BY ImageFinite
  <2> QED
    BY <2>1, FS_UNION DEF All
<1> HIDE DEF one
<1>4. \A c \in C : g[c] = SumFunctionOnSet(one, piece[c])
  BY <1>1, CardinalityIsSum
<1>5. \A c \in C : IsFiniteSet(piece[c]) /\ \A x \in piece[c] : one[x] \in Nat
  BY <1>1
<1>6. SumFunctionOnSet(g, C) = SumFunctionOnSet(one, all)
  BY <1>4, <1>5, SumOfSums
<1> HIDE DEF all
<1>7. SumFunctionOnSet(one, all) = Cardinality(all)
  BY <1>2, <1>3, CardinalityIsSum
<1> QED
  BY <1>6, <1>7 DEF all

(* The largest number of a finite set.                                     *)
LEMMA Largest ==
  ASSUME NEW S \in SUBSET Nat, IsFiniteSet(S), S # {}
  PROVE  \E x \in S : \A y \in S : y <= x
<1> DEFINE above(x) == {y \in S : y > x}
           sizes == {Cardinality(above(x)) : x \in S}
<1>1. \A x \in S : IsFiniteSet(above(x)) /\ Cardinality(above(x)) \in Nat
  BY FS_Subset, FS_CardinalityType
<1>2. sizes \in SUBSET Nat /\ sizes # {}
  BY <1>1
<1> HIDE DEF above
<1>3. PICK n \in sizes : \A k \in sizes : n <= k
  BY <1>2, LeastNatural
<1>4. PICK x \in S : n = Cardinality(above(x))
  BY <1>3
<1>5. ASSUME NEW y \in S, y > x
      PROVE  FALSE
  <2>1. above(y) \in SUBSET above(x) /\ y \in above(x) /\ y \notin above(y)
    <3>1. \A z \in S : z > y => z > x
      BY <1>5
    <3>2. ~(y > y)
      OBVIOUS
    <3> QED
      BY <1>5, <3>1, <3>2 DEF above
  <2>2. /\ Cardinality(above(y)) <= Cardinality(above(x))
        /\ Cardinality(above(y)) = Cardinality(above(x)) => above(y) = above(x)
    BY <1>1, <2>1, FS_Subset
  <2>3. Cardinality(above(y)) # Cardinality(above(x))
    BY <2>1, <2>2
  <2>4. Cardinality(above(x)) <= Cardinality(above(y))
    BY <1>3, <1>4
  <2>5. Cardinality(above(y)) \in Nat /\ Cardinality(above(x)) \in Nat
    BY <1>1
  <2> QED
    BY <2>2, <2>3, <2>4, <2>5
<1>6. \A y \in S : y <= x
  BY <1>5
<1> QED
  BY <1>6

(* Max of a set that has a largest number is that one.                     *)
LEMMA MaxIs ==
  ASSUME NEW S \in SUBSET Nat, NEW x \in S, \A y \in S : y <= x
  PROVE  Pipeline!Max(S) = x
<1>1. \A y \in S : (\A z \in S : y >= z) => y = x
  OBVIOUS
<1>2. \A z \in S : x >= z
  OBVIOUS
<1> QED
  BY <1>1, <1>2 DEF Pipeline!Max

MaxOf(f, S) == Pipeline!Max({f[x] : x \in S} \union {0})

(* It is there, and what it is.                                            *)
LEMMA MaxOfSet ==
  ASSUME NEW f, NEW S, IsFiniteSet(S), \A x \in S : f[x] \in Nat
  PROVE  /\ MaxOf(f, S) \in Nat
         /\ MaxOf(f, S) = 0 \/ \E x \in S : MaxOf(f, S) = f[x]
         /\ \A x \in S : f[x] <= MaxOf(f, S)
<1> DEFINE values == {f[x] : x \in S} \union {0}
<1>1. IsFiniteSet({f[x] : x \in S})
  BY ImageFinite
<1>2. IsFiniteSet(values)
  BY <1>1, FS_AddElement
<1>3. values \in SUBSET Nat /\ values # {} /\ \A x \in S : f[x] \in values
  OBVIOUS
<1>4. \A y \in values : y = 0 \/ \E x \in S : y = f[x]
  OBVIOUS
<1> HIDE DEF values
<1>5. PICK m \in values : \A y \in values : y <= m
  BY <1>2, <1>3, Largest
<1>6. Pipeline!Max(values) = m
  BY <1>3, <1>5, MaxIs
<1>7. MaxOf(f, S) = m
  BY <1>6 DEF MaxOf, values
<1> QED
  BY <1>3, <1>4, <1>5, <1>7

(* The largest of the parts' largest is the largest of all.                *)
LEMMA LargestOfLargest ==
  ASSUME NEW C, IsFiniteSet(C), NEW piece, NEW f, NEW most,
         \A c \in C : IsFiniteSet(piece[c]),
         \A c \in C : \A x \in piece[c] : f[x] \in Nat,
         \A c \in C : most[c] = MaxOf(f, piece[c])
  PROVE  MaxOf(most, C) = MaxOf(f, All(piece, C))
<1> DEFINE a == MaxOf(most, C)
           b == MaxOf(f, All(piece, C))
<1>1. \A c \in C : /\ most[c] \in Nat
                   /\ most[c] = 0 \/ \E x \in piece[c] : most[c] = f[x]
                   /\ \A x \in piece[c] : f[x] <= most[c]
  BY MaxOfSet
<1>2. /\ a \in Nat /\ \A c \in C : most[c] <= a
      /\ a = 0 \/ \E c \in C : a = most[c]
  BY <1>1, MaxOfSet
<1>3. IsFiniteSet({piece[c] : c \in C})
  BY ImageFinite
<1>4. IsFiniteSet(All(piece, C))
  BY <1>3, FS_UNION DEF All
<1>5. /\ \A x \in All(piece, C) : f[x] \in Nat /\ \E c \in C : x \in piece[c]
      /\ \A c \in C : \A x \in piece[c] : x \in All(piece, C)
  BY DEF All
<1>6. /\ b \in Nat /\ \A x \in All(piece, C) : f[x] <= b
      /\ b = 0 \/ \E x \in All(piece, C) : b = f[x]
  BY <1>4, <1>5, MaxOfSet
<1> HIDE DEF a, b
<1>7. a <= b
  <2>1. CASE a = 0
    BY <1>6, <2>1
  <2>2. ASSUME NEW c \in C, a = most[c]
        PROVE  a <= b
    BY <1>1, <1>2, <1>5, <1>6, <2>2
  <2> QED
    BY <1>2, <2>1, <2>2
<1>8. b <= a
  <2>1. CASE b = 0
    BY <1>2, <2>1
  <2>2. ASSUME NEW x \in All(piece, C), b = f[x]
        PROVE  b <= a
    <3>1. PICK c \in C : x \in piece[c]
      BY <1>5
    <3>2. f[x] <= most[c] /\ most[c] <= a /\ most[c] \in Nat /\ f[x] \in Nat
      BY <1>1, <1>2, <1>5, <3>1
    <3> QED
      BY <1>2, <2>2, <3>2
  <2> QED
    BY <1>6, <2>1, <2>2
<1> QED
  BY <1>2, <1>6, <1>7, <1>8 DEF a, b

---------------------------------------------------------------------------
(* The chunks of a campaign's projection, whatever invocation runs them.   *)

AnyCommand == CHOOSE c \in StageCommands : TRUE
Chunks == Pipeline!RangesOf(AnyCommand)
ChunkIds == 1 .. Len(Chunks)
DigestOf(source) == IF source = "prompt_hash_bf16" THEN AnyCommand.prompt ELSE "seed42"

(* The invocations have chunks and digests in common.                      *)
LEMMA SameChunks ==
  ASSUME NEW c \in StageCommands
  PROVE  /\ Pipeline!RangesOf(c) = Chunks /\ Pipeline!Digest(c) = DigestOf(c.source)
         /\ AnyCommand \in StageCommands
<1>1. AnyCommand \in StageCommands
  BY DEF AnyCommand
<1>2. c.chunk_rows = AnyCommand.chunk_rows /\ c.prompt = AnyCommand.prompt
  BY <1>1, Campaign DEF Pipeline!CampaignAssumption
<1> QED
  BY <1>1, <1>2 DEF Chunks, Pipeline!RangesOf, Pipeline!Digest, DigestOf

(* Division, by the multiples that a number is between.                    *)
LEMMA DivisionUnique ==
  ASSUME NEW x \in Int, NEW i \in Int, NEW m \in Nat \ {0}, i * m <= x, x < (i + 1) * m
  PROVE  x \div m = i
<1> DEFINE q == x \div m
<1>1. /\ q \in Int /\ x = m * q + (x % m) /\ x % m \in 0 .. m - 1
  BY Z3
<1> HIDE DEF q
<1>2. ~(q < i)
  <2> SUFFICES ASSUME q + 1 <= i PROVE FALSE
    BY <1>1
  <2>1. m * (q + 1) <= m * i
    BY <1>1, Z3
  <2>2. m * (q + 1) = m * q + m /\ m * i = i * m /\ m * q \in Int /\ i * m \in Int
    BY <1>1, Z3
  <2> QED
    BY <1>1, <2>1, <2>2
<1>3. ~(q > i)
  <2> SUFFICES ASSUME i + 1 <= q PROVE FALSE
    BY <1>1
  <2>1. m * (i + 1) <= m * q
    BY <1>1, Z3
  <2>2. m * (i + 1) = (i + 1) * m /\ m * q \in Int /\ (i + 1) * m \in Int
    BY <1>1, Z3
  <2> QED
    BY <1>1, <2>1, <2>2
<1>4. q = i
  BY <1>1, <1>2, <1>3
<1> QED
  BY <1>4 DEF q

(* A row is in the chunk that its number says and in no other.             *)
LEMMA ChunkOfRow ==
  ASSUME NEW r \in Nat \ {0}, NEW m \in Nat \ {0}
  PROVE  LET ranges == Pipeline!chunk_ranges(r, m)
         IN  /\ \A i \in 1 .. Len(ranges) : \A x \in Pipeline!RowsOf(ranges[i]) :
                  x \in 0 .. r - 1 /\ x \div m = i - 1
             /\ \A x \in 0 .. r - 1 : \E i \in 1 .. Len(ranges) : x \in Pipeline!RowsOf(ranges[i])
<1> DEFINE ranges == Pipeline!chunk_ranges(r, m)
<1> SUFFICES /\ \A i \in 1 .. Len(ranges) : \A x \in Pipeline!RowsOf(ranges[i]) :
                  x \in 0 .. r - 1 /\ x \div m = i - 1
             /\ \A x \in 0 .. r - 1 : \E i \in 1 .. Len(ranges) : x \in Pipeline!RowsOf(ranges[i])
  OBVIOUS
<1>1. CASE r <= m
  <2>1. ranges = <<<<0, r>>>>
    BY <1>1 DEF Pipeline!chunk_ranges
  <2>2. Len(ranges) = 1 /\ ranges[1] = <<0, r>>
    BY <2>1
  <2> HIDE DEF ranges
  <2>3. Pipeline!RowsOf(ranges[1]) = 0 .. r - 1
    BY <2>2 DEF Pipeline!RowsOf
  <2>4. \A x \in 0 .. r - 1 : x \div m = 0
    <3> SUFFICES ASSUME NEW x \in 0 .. r - 1 PROVE x \div m = 0
      OBVIOUS
    <3>1. 0 * m = 0 /\ (0 + 1) * m = m
      BY Z3
    <3> QED
      BY <1>1, <3>1, DivisionUnique
  <2> QED
    BY <2>2, <2>3, <2>4
<1>2. CASE ~(r <= m)
  <2> DEFINE n == (r + m - 1) \div m
             last(i) == Pipeline!Min({r, i * m})
             e(i) == <<(i - 1) * m, last(i)>>
  <2>1. n \in Nat /\ n >= 1 /\ m * n <= r + m - 1
    BY <1>2, Quotient
  <2>2. ranges = [i \in 1 .. n |-> e(i)]
    BY <1>2 DEF Pipeline!chunk_ranges
  <2>3. \A i \in 1 .. n : e(i)[1] = (i - 1) * m /\ e(i)[2] = last(i)
    OBVIOUS
  <2> HIDE DEF e
  <2>4. Len(ranges) = n /\ \A i \in 1 .. n : Pipeline!RowsOf(ranges[i]) = (i - 1) * m .. last(i) - 1
    <3> HIDE DEF n, last
    <3>1. n \in Nat
      BY <2>1
    <3>2. Len(ranges) = n /\ \A i \in 1 .. n : ranges[i] = e(i)
      BY <3>1, <2>2
    <3> HIDE DEF ranges
    <3> QED
      BY <2>3, <3>2 DEF Pipeline!RowsOf
  <2> HIDE DEF ranges
  <2>5. ASSUME NEW i \in 1 .. n
        PROVE  /\ i \in Nat /\ (i - 1) * m \in Nat /\ last(i) \in Nat /\ last(i) <= r
               /\ last(i) <= ((i - 1) + 1) * m
               /\ last(i) = r \/ last(i) = ((i - 1) + 1) * m
    <3> DEFINE a == i * m
    <3>1. i \in Nat /\ a \in Nat /\ (i - 1) * m \in Nat /\ ((i - 1) + 1) * m = a
      BY <2>1, <2>5, Z3
    <3>2. last(i) \in {r, a} /\ last(i) <= r /\ last(i) <= a
      BY <3>1, MinOfTwo
    <3> HIDE DEF a
    <3> QED
      BY <3>1, <3>2
  <2> HIDE DEF last
  <2>6. ASSUME NEW i \in 1 .. n, NEW x \in Pipeline!RowsOf(ranges[i])
        PROVE  x \in 0 .. r - 1 /\ x \div m = i - 1
    <3>1. x \in (i - 1) * m .. last(i) - 1
      BY <2>4
    <3>2. x \in Int /\ i - 1 \in Int /\ (i - 1) * m <= x /\ x < ((i - 1) + 1) * m /\ x <= r - 1 /\ 0 <= x
      <4> DEFINE a == (i - 1) * m
                 b == ((i - 1) + 1) * m
      <4>1. a \in Nat /\ b \in Int /\ i \in Nat
        BY <2>5, Z3
      <4>2. last(i) \in Nat /\ last(i) <= r /\ last(i) <= b /\ x \in a .. last(i) - 1
        BY <2>5, <3>1
      <4> HIDE DEF a, b
      <4>3. x \in Int /\ i - 1 \in Int /\ a <= x /\ x < b /\ x <= r - 1 /\ 0 <= x
        BY <4>1, <4>2
      <4> QED
        BY <4>3 DEF a, b
    <3> QED
      BY <3>2, DivisionUnique
  <2>7. ASSUME NEW x \in 0 .. r - 1
        PROVE  \E i \in 1 .. n : x \in Pipeline!RowsOf(ranges[i])
    <3> DEFINE q == x \div m
               i == q + 1
               a == q * m
    <3>1. q \in Nat /\ a \in Nat /\ a <= x /\ x < a + m /\ (i - 1) * m = a /\ ((i - 1) + 1) * m = a + m
      <4>1. /\ q \in Int /\ x = m * q + (x % m) /\ x % m \in 0 .. m - 1
        BY Z3
      <4>2. q \in Nat
        BY Quotient
      <4> HIDE DEF q
      <4> QED
        BY <4>1, <4>2, Z3
    <3>2. i <= n
      <4> SUFFICES ASSUME n <= q PROVE FALSE
        BY <2>1, <3>1
      <4>1. /\ r + m - 1 = m * n + ((r + m - 1) % m) /\ (r + m - 1) % m \in 0 .. m - 1
        BY Z3
      <4>2. m * n \in Int /\ m * n <= a
        <5> HIDE DEF n, q
        <5> QED
          BY <2>1, <3>1, Z3
      <4> HIDE DEF n, a
      <4> QED
        BY <3>1, <4>1, <4>2
    <3>3. i \in 1 .. n
      BY <2>1, <3>1, <3>2
    <3>4. /\ last(i) = r \/ last(i) = a + m
          /\ (i - 1) * m = a
      BY <2>5, <3>1, <3>3
    <3> HIDE DEF n
    <3>5. x \in (i - 1) * m .. last(i) - 1
      <4> HIDE DEF i, a
      <4> QED
        BY <3>1, <3>4
    <3> QED
      BY <2>4, <3>3, <3>5
  <2> QED
    BY <2>4, <2>6, <2>7
<1> QED
  BY <1>1, <1>2

(* The chunks cut the projection's rows.                                   *)
LEMMA ChunksCut ==
  ASSUME StageCommands # {}
  PROVE  /\ RangesOK(Chunks)
         /\ \A i \in ChunkIds : Pipeline!RowsOf(Chunks[i]) # {}
         /\ \A i, j \in ChunkIds : i # j => /\ Pipeline!RowsOf(Chunks[i]) \cap Pipeline!RowsOf(Chunks[j]) = {}
                                           /\ Chunks[i] # Chunks[j]
         /\ UNION {Pipeline!RowsOf(Chunks[i]) : i \in ChunkIds} = 0 .. OutputRows - 1
         /\ Pipeline!Ranges = {Chunks[i] : i \in ChunkIds}
<1>1. AnyCommand \in StageCommands
  BY SameChunks
<1> DEFINE m == AnyCommand.chunk_rows
<1>2. OutputRows \in Nat \ {0} /\ m \in Nat \ {0}
  BY <1>1, Assumptions DEF Pipeline!StageAssumption, Pipeline!CommandType
<1>3. Chunks = Pipeline!chunk_ranges(OutputRows, m)
  BY DEF Chunks, Pipeline!RangesOf
<1>4. RangesOK(Chunks)
  BY <1>1, RangesOfCommand DEF Chunks
<1> HIDE DEF m
<1>5. /\ \A i \in ChunkIds : \A x \in Pipeline!RowsOf(Chunks[i]) : x \in 0 .. OutputRows - 1 /\ x \div m = i - 1
      /\ \A x \in 0 .. OutputRows - 1 : \E i \in ChunkIds : x \in Pipeline!RowsOf(Chunks[i])
  BY <1>2, <1>3, ChunkOfRow DEF ChunkIds
<1>6. ASSUME NEW i \in ChunkIds
      PROVE  Pipeline!RowsOf(Chunks[i]) # {}
  <2>1. Chunks[i][1] \in Nat /\ Chunks[i][2] \in Nat /\ Chunks[i][1] < Chunks[i][2]
    BY <1>4 DEF RangesOK, ChunkIds
  <2>2. Chunks[i][1] \in Pipeline!RowsOf(Chunks[i])
    BY <2>1 DEF Pipeline!RowsOf
  <2> QED
    BY <2>2
<1>7. ASSUME NEW i \in ChunkIds, NEW j \in ChunkIds, i # j
      PROVE  Pipeline!RowsOf(Chunks[i]) \cap Pipeline!RowsOf(Chunks[j]) = {} /\ Chunks[i] # Chunks[j]
  <2>1. i \in Int /\ j \in Int
    BY <1>4 DEF ChunkIds, RangesOK
  <2>2. \A x \in Pipeline!RowsOf(Chunks[i]) : x \notin Pipeline!RowsOf(Chunks[j])
    BY <1>5, <1>7, <2>1
  <2> QED
    BY <1>6, <2>2
<1>8. UNION {Pipeline!RowsOf(Chunks[i]) : i \in ChunkIds} = 0 .. OutputRows - 1
  BY <1>5
<1>9. Pipeline!Ranges = {Chunks[i] : i \in ChunkIds}
  <2>1. \A c \in StageCommands : Pipeline!RangesOf(c) = Chunks
    BY SameChunks
  <2>2. DOMAIN Chunks = ChunkIds
    BY <1>4 DEF RangesOK, ChunkIds
  <2>3. Pipeline!Ranges = UNION {{Chunks[i] : i \in ChunkIds} : c \in StageCommands}
    BY <2>1, <2>2 DEF Pipeline!Ranges
  <2> QED
    BY <1>1, <2>3
<1> QED
  BY <1>4, <1>6, <1>7, <1>8, <1>9

---------------------------------------------------------------------------
(* What chunks add up to.                                                  *)

(* What a report and an aggregate say, in the operators of these proofs.   *)
LEMMA ReportOf ==
  ASSUME NEW S
  PROVE  Pipeline!write_report(Ulp, S) =
           [n |-> Cardinality(S), exact |-> Cardinality({i \in S : Ulp[i] = 0}),
            within_1 |-> Cardinality({i \in S : Ulp[i] <= 1}),
            max_ulp |-> MaxOf(Ulp, S), sum_ulp |-> SumFunctionOnSet(Ulp, S)]
<1>1. \A X : Pipeline!Cardinality(X) = Cardinality(X)
  BY DEF Pipeline!Cardinality, Cardinality
<1>2. Pipeline!SumFunctionOnSet(Ulp, S) = SumFunctionOnSet(Ulp, S)
  BY DEF Pipeline!SumFunctionOnSet, Pipeline!FoldFunctionOnSet, Pipeline!MapThenFoldSet,
         SumFunctionOnSet, FoldFunctionOnSet, MapThenFoldSet
<1> QED
  BY <1>1, <1>2 DEF Pipeline!write_report, MaxOf

(* A sum over a function is one over its domain.                           *)
LEMMA SumIs ==
  ASSUME NEW f
  PROVE  Pipeline!SumFunction(f) = SumFunctionOnSet(f, DOMAIN f)
BY DEF Pipeline!SumFunction, Pipeline!SumFunctionOnSet, Pipeline!FoldFunctionOnSet, Pipeline!MapThenFoldSet,
       SumFunctionOnSet, FoldFunctionOnSet, MapThenFoldSet

(* The rows of a range, and how many there are.                            *)
LEMMA RangeRows ==
  ASSUME StageCommands # {}, NEW range \in Pipeline!Ranges
  PROVE  /\ IsFiniteSet(Pipeline!RowsOf(range)) /\ Pipeline!RowsOf(range) # {}
         /\ Pipeline!RowsOf(range) \in SUBSET (0 .. OutputRows - 1)
         /\ \A i \in Pipeline!RowsOf(range) : Ulp[i] \in Nat
         /\ Pipeline!Size(range) = Cardinality(Pipeline!RowsOf(range))
         /\ Pipeline!Size(range) \in Nat \ {0}
<1>1. PICK i \in ChunkIds : range = Chunks[i]
  BY ChunksCut
<1>2. range[1] \in Nat /\ range[2] \in Nat /\ range[1] < range[2]
  BY <1>1, ChunksCut DEF RangesOK, ChunkIds
<1>3. /\ IsFiniteSet(range[1] .. range[2] - 1)
      /\ Cardinality(range[1] .. range[2] - 1) = range[2] - range[1]
  <2>1. range[1] \in Int /\ range[2] - 1 \in Int /\ ~(range[1] > range[2] - 1)
        /\ (range[2] - 1) - range[1] + 1 = range[2] - range[1]
    BY <1>2
  <2> QED
    BY <2>1, FS_Interval
<1>4. Pipeline!RowsOf(range) = range[1] .. range[2] - 1 /\ Pipeline!Size(range) = range[2] - range[1]
  BY DEF Pipeline!RowsOf, Pipeline!Size
<1>5. range[2] - range[1] \in Nat \ {0}
  BY <1>2
<1>6. Pipeline!RowsOf(range) \in SUBSET (0 .. OutputRows - 1) /\ Pipeline!RowsOf(range) # {}
  BY <1>1, ChunksCut
<1>7. \A x \in 0 .. OutputRows - 1 : Ulp[x] \in Nat
  BY Assumptions DEF Pipeline!StageAssumption
<1> QED
  BY <1>3, <1>4, <1>5, <1>6, <1>7

(* Rows of different ranges have nothing in common.                        *)
LEMMA RangesApart ==
  ASSUME StageCommands # {}, NEW a \in Pipeline!Ranges, NEW b \in Pipeline!Ranges, a # b
  PROVE  Pipeline!RowsOf(a) \cap Pipeline!RowsOf(b) = {}
<1>1. PICK i \in ChunkIds : a = Chunks[i]
  BY ChunksCut
<1>2. PICK j \in ChunkIds : b = Chunks[j]
  BY ChunksCut
<1> QED
  BY <1>1, <1>2, ChunksCut

(* The sizes of different ranges add up to the number of their rows.       *)
LEMMA RangesAddUp ==
  ASSUME StageCommands # {}, NEW C, IsFiniteSet(C), NEW range,
         \A c \in C : range[c] \in Pipeline!Ranges,
         \A c, d \in C : c # d => range[c] # range[d],
         NEW g, DOMAIN g = C, \A c \in C : g[c] = Pipeline!Size(range[c])
  PROVE  Pipeline!SumFunction(g) = Cardinality(UNION {Pipeline!RowsOf(range[c]) : c \in C})
<1> DEFINE piece == [c \in C |-> Pipeline!RowsOf(range[c])]
<1>1. \A c \in C : piece[c] = Pipeline!RowsOf(range[c])
  OBVIOUS
<1>2. All(piece, C) = UNION {Pipeline!RowsOf(range[c]) : c \in C}
  BY DEF All
<1> HIDE DEF piece
<1>3. \A c \in C : IsFiniteSet(piece[c]) /\ g[c] = Cardinality(piece[c])
  BY <1>1, RangeRows
<1>4. \A c, d \in C : c # d => piece[c] \cap piece[d] = {}
  BY <1>1, RangesApart
<1>5. SumFunctionOnSet(g, C) = Cardinality(All(piece, C))
  BY <1>3, <1>4, SizesAddUp
<1> QED
  BY <1>2, <1>5, SumIs

(* Rows counted in disjoint sets add up to those counted in their union.   *)
LEMMA ExactAddUp ==
  ASSUME NEW C, IsFiniteSet(C), NEW piece,
         \A c \in C : IsFiniteSet(piece[c]),
         \A c, d \in C : c # d => piece[c] \cap piece[d] = {},
         NEW exact, \A c \in C : exact[c] = Cardinality({i \in piece[c] : Ulp[i] = 0})
  PROVE  SumFunctionOnSet(exact, C) = Cardinality({i \in All(piece, C) : Ulp[i] = 0})
<1> DEFINE p == [c \in C |-> {i \in piece[c] : Ulp[i] = 0}]
<1>1. \A c \in C : exact[c] = Cardinality(p[c])
  OBVIOUS
<1>2. \A c \in C : p[c] \in SUBSET piece[c]
  OBVIOUS
<1>3. All(p, C) = {i \in All(piece, C) : Ulp[i] = 0}
  BY DEF All
<1> HIDE DEF p
<1>4. \A c \in C : IsFiniteSet(p[c])
  BY <1>2, FS_Subset
<1>5. \A c, d \in C : c # d => p[c] \cap p[d] = {}
  BY <1>2
<1>6. SumFunctionOnSet(exact, C) = Cardinality(All(p, C))
  BY <1>1, <1>4, <1>5, SizesAddUp
<1> QED
  BY <1>3, <1>6

LEMMA WithinAddUp ==
  ASSUME NEW C, IsFiniteSet(C), NEW piece,
         \A c \in C : IsFiniteSet(piece[c]),
         \A c, d \in C : c # d => piece[c] \cap piece[d] = {},
         NEW within_1, \A c \in C : within_1[c] = Cardinality({i \in piece[c] : Ulp[i] <= 1})
  PROVE  SumFunctionOnSet(within_1, C) = Cardinality({i \in All(piece, C) : Ulp[i] <= 1})
<1> DEFINE p == [c \in C |-> {i \in piece[c] : Ulp[i] <= 1}]
<1>1. \A c \in C : within_1[c] = Cardinality(p[c])
  OBVIOUS
<1>2. \A c \in C : p[c] \in SUBSET piece[c]
  OBVIOUS
<1>3. All(p, C) = {i \in All(piece, C) : Ulp[i] <= 1}
  BY DEF All
<1> HIDE DEF p
<1>4. \A c \in C : IsFiniteSet(p[c])
  BY <1>2, FS_Subset
<1>5. \A c, d \in C : c # d => p[c] \cap p[d] = {}
  BY <1>2
<1>6. SumFunctionOnSet(within_1, C) = Cardinality(All(p, C))
  BY <1>1, <1>4, <1>5, SizesAddUp
<1> QED
  BY <1>3, <1>6

(* And so do their distances.                                              *)
LEMMA DistancesAddUp ==
  ASSUME NEW C, IsFiniteSet(C), NEW piece,
         \A c \in C : IsFiniteSet(piece[c]),
         \A c \in C : \A i \in piece[c] : Ulp[i] \in Nat,
         \A c, d \in C : c # d => piece[c] \cap piece[d] = {},
         NEW sum_ulp, \A c \in C : sum_ulp[c] = SumFunctionOnSet(Ulp, piece[c])
  PROVE  SumFunctionOnSet(sum_ulp, C) = SumFunctionOnSet(Ulp, All(piece, C))
BY SumOfSums

(* The aggregate over reports of different ranges is the report of all     *)
(* their rows.                                                             *)
LEMMA AggregateIsReport ==
  ASSUME StageCommands # {}, NEW C, IsFiniteSet(C),
         \A c \in C : /\ c.range \in Pipeline!Ranges
                      /\ c.stats = Pipeline!write_report(Ulp, Pipeline!RowsOf(c.range)),
         \A c, d \in C : c # d => c.range # d.range
  PROVE  Pipeline!consolidate_hf_weight_functional_aggregate(C).stats
           = Pipeline!write_report(Ulp, UNION {Pipeline!RowsOf(c.range) : c \in C})
<1> DEFINE piece == [c \in C |-> Pipeline!RowsOf(c.range)]
           all == All(piece, C)
           n == [c \in C |-> c.stats.n]
           exact == [c \in C |-> c.stats.exact]
           within_1 == [c \in C |-> c.stats.within_1]
           max_ulp == [c \in C |-> c.stats.max_ulp]
           sum_ulp == [c \in C |-> c.stats.sum_ulp]
           total == Pipeline!consolidate_hf_weight_functional_aggregate(C).stats
<1>1. \A c \in C : piece[c] = Pipeline!RowsOf(c.range)
  OBVIOUS
<1>2. all = UNION {Pipeline!RowsOf(c.range) : c \in C}
  BY DEF All
<1> HIDE DEF piece
<1>3. /\ \A c \in C : IsFiniteSet(piece[c])
      /\ \A c \in C : \A i \in piece[c] : Ulp[i] \in Nat
  BY <1>1, RangeRows
<1>4. \A c, d \in C : c # d => piece[c] \cap piece[d] = {}
  BY <1>1, RangesApart
<1>5. ASSUME NEW c \in C
      PROVE  /\ n[c] = Cardinality(piece[c])
             /\ exact[c] = Cardinality({i \in piece[c] : Ulp[i] = 0})
             /\ within_1[c] = Cardinality({i \in piece[c] : Ulp[i] <= 1})
             /\ max_ulp[c] = MaxOf(Ulp, piece[c])
             /\ sum_ulp[c] = SumFunctionOnSet(Ulp, piece[c])
  <2>1. c.stats = Pipeline!write_report(Ulp, piece[c])
    BY <1>1
  <2> DEFINE a == Cardinality(piece[c])
             b == Cardinality({i \in piece[c] : Ulp[i] = 0})
             d == Cardinality({i \in piece[c] : Ulp[i] <= 1})
             e == SumFunctionOnSet(Ulp, piece[c])
             m == MaxOf(Ulp, piece[c])
  <2>2. c.stats = [n |-> a, exact |-> b, within_1 |-> d, max_ulp |-> m, sum_ulp |-> e]
    BY <2>1, ReportOf, Zenon
  <2> HIDE DEF a, b, d, e, m
  <2>3. /\ c.stats.n = a /\ c.stats.exact = b /\ c.stats.within_1 = d /\ c.stats.max_ulp = m
        /\ c.stats.sum_ulp = e
    BY <2>2
  <2>4. n[c] = a /\ exact[c] = b /\ within_1[c] = d /\ max_ulp[c] = m /\ sum_ulp[c] = e
    BY <2>3
  <2> QED
    BY <2>4 DEF a, b, d, e, m
<1>6. total = [n |-> SumFunctionOnSet(n, C), exact |-> SumFunctionOnSet(exact, C),
               within_1 |-> SumFunctionOnSet(within_1, C), max_ulp |-> MaxOf(max_ulp, C),
               sum_ulp |-> SumFunctionOnSet(sum_ulp, C)]
  <2>1. \A f : DOMAIN f = C => Pipeline!SumFunction(f) = SumFunctionOnSet(f, C)
    BY SumIs
  <2>2. /\ Pipeline!SumFunction(n) = SumFunctionOnSet(n, C)
        /\ Pipeline!SumFunction(exact) = SumFunctionOnSet(exact, C)
        /\ Pipeline!SumFunction(within_1) = SumFunctionOnSet(within_1, C)
        /\ Pipeline!SumFunction(sum_ulp) = SumFunctionOnSet(sum_ulp, C)
    BY <2>1
  <2>3. {max_ulp[c] : c \in C} = {c.stats.max_ulp : c \in C}
    OBVIOUS
  <2>4. MaxOf(max_ulp, C) = Pipeline!Max({c.stats.max_ulp : c \in C} \union {0})
    BY <2>3 DEF MaxOf
  <2> QED
    BY <2>2, <2>4 DEF Pipeline!consolidate_hf_weight_functional_aggregate
<1> HIDE DEF n, exact, within_1, max_ulp, sum_ulp
<1>7. /\ \A c \in C : n[c] = Cardinality(piece[c])
      /\ \A c \in C : exact[c] = Cardinality({i \in piece[c] : Ulp[i] = 0})
      /\ \A c \in C : within_1[c] = Cardinality({i \in piece[c] : Ulp[i] <= 1})
      /\ \A c \in C : max_ulp[c] = MaxOf(Ulp, piece[c])
      /\ \A c \in C : sum_ulp[c] = SumFunctionOnSet(Ulp, piece[c])
  BY <1>5
<1>8. /\ SumFunctionOnSet(n, C) = Cardinality(all)
      /\ SumFunctionOnSet(exact, C) = Cardinality({i \in all : Ulp[i] = 0})
      /\ SumFunctionOnSet(within_1, C) = Cardinality({i \in all : Ulp[i] <= 1})
      /\ MaxOf(max_ulp, C) = MaxOf(Ulp, all)
      /\ SumFunctionOnSet(sum_ulp, C) = SumFunctionOnSet(Ulp, all)
  <2>1. SumFunctionOnSet(n, C) = Cardinality(all)
    BY <1>3, <1>4, <1>7, SizesAddUp
  <2>2. SumFunctionOnSet(exact, C) = Cardinality({i \in all : Ulp[i] = 0})
    BY <1>3, <1>4, <1>7, ExactAddUp
  <2>3. SumFunctionOnSet(within_1, C) = Cardinality({i \in all : Ulp[i] <= 1})
    BY <1>3, <1>4, <1>7, WithinAddUp
  <2>4. MaxOf(max_ulp, C) = MaxOf(Ulp, all)
    BY <1>3, <1>7, LargestOfLargest
  <2>5. SumFunctionOnSet(sum_ulp, C) = SumFunctionOnSet(Ulp, all)
    BY <1>3, <1>4, <1>7, DistancesAddUp
  <2> QED
    BY <2>1, <2>2, <2>3, <2>4, <2>5
<1> HIDE DEF all, total
<1>9. total = Pipeline!write_report(Ulp, all)
  BY <1>6, <1>8, ReportOf
<1> QED
  BY <1>2, <1>9 DEF total

---------------------------------------------------------------------------
(* The files of a campaign.                                                *)

RunOf(l, s, i) == [layout |-> l, source |-> s, range |-> Chunks[i]]
RefOf(s, i) == [source |-> s, range |-> Chunks[i]]

WholeReportOf(k) ==
  [state |-> "whole", digest |-> DigestOf(k.source), cycles |-> 100,
   stats |-> Pipeline!write_report(Ulp, Pipeline!RowsOf(k.range))]
WholeMode1 == [exists |-> TRUE, cycles |-> 100, wall |-> TRUE]

(* A report is not there, empty, or what all rows of its range give.       *)
ReportsExact ==
  /\ DOMAIN run_dirs = Pipeline!RunIds
  /\ \A k \in Pipeline!RunIds :
       run_dirs[k].report \in {Pipeline!NoReport, Pipeline!EmptyReport, WholeReportOf(k)}

(* What a directory is before, between and after the stages.               *)
Untouched(k) ==
  /\ run_dirs[k].trace = "none" /\ run_dirs[k].metadata = "none"
  /\ run_dirs[k].report = Pipeline!NoReport /\ run_dirs[k].mode1 = Pipeline!NoMode1
RanMode2(k) ==
  /\ run_dirs[k].trace = "whole" /\ run_dirs[k].metadata = DigestOf(k.source)
  /\ run_dirs[k].report = WholeReportOf(k)
RanBoth(k) == RanMode2(k) /\ run_dirs[k].mode1 = WholeMode1
Timed(k) == refs[k].state = "whole" /\ refs[k].digest = DigestOf(k.source)
NotTimed(k) == refs[k] = Pipeline!NoRef

(* When nothing was interrupted and nothing failed: the chunk that is      *)
(* worked on, by where the driver is;                                      *)
CurrentRunOK ==
  LET k == Pipeline!run_id
      Mode1OK == run_dirs[k].mode1 \in {Pipeline!NoMode1, WholeMode1}
  IN  /\ stage_pc = "stage5" => Untouched(k) \/ RanBoth(k)
      /\ stage_pc \in {"trace", "metadata", "describe", "simulate", "report", "stage6"} => Mode1OK
      /\ stage_pc \in {"metadata", "describe", "simulate", "report"} => run_dirs[k].trace = "whole"
      /\ stage_pc \in {"simulate", "report"} => run_dirs[k].metadata = DigestOf(stage_cmd.source)
      /\ stage_pc \in {"stage6", "mode1", "wall"} => RanMode2(k)
      /\ stage_pc = "mode1" => run_dirs[k].mode1 \in [exists : {TRUE}, cycles : {0}, wall : BOOLEAN]
      /\ stage_pc = "wall" => run_dirs[k].mode1 \in [exists : {TRUE}, cycles : {100}, wall : BOOLEAN]
      /\ stage_pc \in {"stage7", "reference", "next", "done"} => RanBoth(k)
CurrentRefOK ==
  LET k == Pipeline!reference_id
  IN  /\ stage_pc # "reference" => NotTimed(k) \/ Timed(k)
      /\ stage_pc \in {"next", "done"} => Timed(k)

(* the invocation's other chunks, done before it and not begun after it,   *)
(* unless an earlier invocation was complete;                              *)
ChunksOK ==
  \A i \in ChunkIds :
    LET k == RunOf(stage_cmd.layout, stage_cmd.source, i)
        p == RefOf(stage_cmd.source, i)
    IN  /\ i < chunk => RanBoth(k) /\ Timed(p)
        /\ i > chunk => (Untouched(k) \/ RanBoth(k)) /\ (NotTimed(p) \/ Timed(p))

(* other layouts and sources, of which all chunks or none were done.       *)
RunsWhole(l, s) == \/ \A i \in ChunkIds : Untouched(RunOf(l, s, i))
                   \/ \A i \in ChunkIds : RanBoth(RunOf(l, s, i))
RefsWhole(s) == \/ \A i \in ChunkIds : Timed(RefOf(s, i))
                \/ \A i \in ChunkIds : NotTimed(RefOf(s, i))
RunsTimed(s) ==
  \A l \in Pipeline!Layouts, i \in ChunkIds : Untouched(RunOf(l, s, i)) \/ Timed(RefOf(s, i))
OthersOK ==
  /\ \A l \in Pipeline!Layouts, s \in Pipeline!Sources :
       l # stage_cmd.layout \/ s # stage_cmd.source => RunsWhole(l, s)
  /\ \A s \in Pipeline!Sources : s # stage_cmd.source => RefsWhole(s) /\ RunsTimed(s)

(* Between invocations that is so of all.                                  *)
AllOK ==
  /\ \A l \in Pipeline!Layouts, s \in Pipeline!Sources : RunsWhole(l, s)
  /\ \A s \in Pipeline!Sources : RefsWhole(s) /\ RunsTimed(s)

(* The driver is at a chunk, and all is as it should be there.            *)
InCampaign ==
  stage_cmd \in StageCommands /\ chunk \in ChunkIds /\ CurrentRunOK /\ CurrentRefOK /\ ChunksOK /\ OthersOK

CampaignOK ==
  kills = 0 /\ faults = 0 =>
    /\ stage_pc # "failed"
    /\ stage_pc = "idle" => AllOK
    /\ stage_pc # "idle" => InCampaign
    /\ stage_pc = "done" => chunk = Len(Chunks)

---------------------------------------------------------------------------
(* Names of directories and of reference files.                            *)

(* Every chunk has its directories and reference files.                    *)
LEMMA NamesOf ==
  ASSUME StageCommands # {}, NEW l \in Pipeline!Layouts, NEW s \in Pipeline!Sources, NEW i \in ChunkIds
  PROVE  RunOf(l, s, i) \in Pipeline!RunIds /\ RefOf(s, i) \in Pipeline!ReferenceIds
<1>1. Chunks[i] \in Pipeline!Ranges
  BY ChunksCut
<1> QED
  BY <1>1 DEF RunOf, RefOf, Pipeline!RunIds, Pipeline!ReferenceIds

(* and different ones different names.                                     *)
LEMMA NamesDiffer ==
  ASSUME StageCommands # {}, NEW l, NEW s, NEW i \in ChunkIds, NEW l2, NEW s2, NEW j \in ChunkIds
  PROVE  /\ l # l2 \/ s # s2 \/ i # j => RunOf(l, s, i) # RunOf(l2, s2, j)
         /\ s # s2 \/ i # j => RefOf(s, i) # RefOf(s2, j)
<1>1. i # j => Chunks[i] # Chunks[j]
  BY ChunksCut
<1> QED
  BY <1>1 DEF RunOf, RefOf

(* What the driver is at is one of the chunks.                             *)
LEMMA CurrentNames ==
  ASSUME stage_cmd \in StageCommands, chunk \in ChunkIds
  PROVE  /\ stage_cmd.layout \in Pipeline!Layouts /\ stage_cmd.source \in Pipeline!Sources
         /\ Pipeline!run_id = RunOf(stage_cmd.layout, stage_cmd.source, chunk)
         /\ Pipeline!reference_id = RefOf(stage_cmd.source, chunk)
         /\ Pipeline!run_id \in Pipeline!RunIds /\ Pipeline!reference_id \in Pipeline!ReferenceIds
         /\ Pipeline!Digest(stage_cmd) = DigestOf(stage_cmd.source)
         /\ Pipeline!RangesOf(stage_cmd) = Chunks
         /\ Pipeline!run_id.source = stage_cmd.source /\ Pipeline!run_id.range = Chunks[chunk]
         /\ Pipeline!reference_id.source = stage_cmd.source
<1>1. stage_cmd.layout \in Pipeline!Layouts /\ stage_cmd.source \in Pipeline!Sources
  BY Assumptions DEF Pipeline!StageAssumption, Pipeline!CommandType
<1>2. Pipeline!Digest(stage_cmd) = DigestOf(stage_cmd.source) /\ Pipeline!RangesOf(stage_cmd) = Chunks
  BY SameChunks
<1>3. /\ Pipeline!run_id = RunOf(stage_cmd.layout, stage_cmd.source, chunk)
      /\ Pipeline!reference_id = RefOf(stage_cmd.source, chunk)
  BY <1>2 DEF Pipeline!run_id, Pipeline!reference_id, RunOf, RefOf
<1>4. Pipeline!run_id \in Pipeline!RunIds /\ Pipeline!reference_id \in Pipeline!ReferenceIds
  BY <1>1, <1>3, NamesOf
<1> QED
  BY <1>1, <1>2, <1>3, <1>4 DEF RunOf, RefOf

(* A file that is written is one of its directory's.                       *)
LEMMA PutOne ==
  ASSUME ReportsOK, NEW k \in DOMAIN run_dirs,
         NEW field \in {"trace", "metadata", "report", "mode1"}, NEW value,
         Pipeline!Put(k, field, value)
  PROVE  /\ DOMAIN run_dirs' = DOMAIN run_dirs
         /\ \A d \in DOMAIN run_dirs : d # k => run_dirs'[d] = run_dirs[d]
         /\ run_dirs'[k].trace = IF field = "trace" THEN value ELSE run_dirs[k].trace
         /\ run_dirs'[k].metadata = IF field = "metadata" THEN value ELSE run_dirs[k].metadata
         /\ run_dirs'[k].report = IF field = "report" THEN value ELSE run_dirs[k].report
         /\ run_dirs'[k].mode1 = IF field = "mode1" THEN value ELSE run_dirs[k].mode1
<1>1. run_dirs' = [run_dirs EXCEPT ![k] = [@ EXCEPT ![field] = value]]
  BY DEF Pipeline!Put
<1>2. DOMAIN run_dirs[k] = {"trace", "metadata", "report", "mode1"}
  BY DEF ReportsOK
<1>3. run_dirs'[k] = [run_dirs[k] EXCEPT ![field] = value]
  BY <1>1
<1>4. \A d \in DOMAIN run_dirs : d # k => run_dirs'[d] = run_dirs[d]
  BY <1>1
<1> QED
  BY <1>1, <1>2, <1>3, <1>4

(* Work on one chunk leaves the others alone.                              *)
LEMMA OthersStay ==
  ASSUME stage_cmd \in StageCommands, chunk \in ChunkIds, UNCHANGED <<stage_cmd, chunk>>,
         \A k \in Pipeline!RunIds : k # Pipeline!run_id => run_dirs'[k] = run_dirs[k],
         \A k \in Pipeline!ReferenceIds : k # Pipeline!reference_id => refs'[k] = refs[k]
  PROVE  (ChunksOK => ChunksOK') /\ (OthersOK => OthersOK')
<1> DEFINE l == stage_cmd.layout
           s == stage_cmd.source
<1>1. /\ l \in Pipeline!Layouts /\ s \in Pipeline!Sources /\ StageCommands # {}
      /\ Pipeline!run_id = RunOf(l, s, chunk) /\ Pipeline!reference_id = RefOf(s, chunk)
  BY CurrentNames
<1>2. ASSUME NEW l2 \in Pipeline!Layouts, NEW s2 \in Pipeline!Sources, NEW i \in ChunkIds,
             l2 # l \/ s2 # s \/ i # chunk
      PROVE  /\ Untouched(RunOf(l2, s2, i))' <=> Untouched(RunOf(l2, s2, i))
             /\ RanBoth(RunOf(l2, s2, i))' <=> RanBoth(RunOf(l2, s2, i))
  <2> DEFINE k == RunOf(l2, s2, i)
  <2>1. k \in Pipeline!RunIds /\ k # Pipeline!run_id
    BY <1>1, <1>2, NamesOf, NamesDiffer
  <2>2. run_dirs'[k] = run_dirs[k]
    BY <2>1
  <2> QED
    BY <2>2 DEF Untouched, RanBoth, RanMode2
<1>3. ASSUME NEW s2 \in Pipeline!Sources, NEW i \in ChunkIds, s2 # s \/ i # chunk
      PROVE  /\ Timed(RefOf(s2, i))' <=> Timed(RefOf(s2, i))
             /\ NotTimed(RefOf(s2, i))' <=> NotTimed(RefOf(s2, i))
  <2> DEFINE k == RefOf(s2, i)
  <2>1. k \in Pipeline!ReferenceIds /\ k # Pipeline!reference_id
    BY <1>1, <1>3, NamesOf, NamesDiffer
  <2>2. refs'[k] = refs[k]
    BY <2>1
  <2> QED
    BY <2>2 DEF Timed, NotTimed
<1>4. ASSUME ChunksOK PROVE ChunksOK'
  <2>1. chunk \in Int /\ \A i \in ChunkIds : i \in Int
    BY DEF ChunkIds
  <2>2. ASSUME NEW i \in ChunkIds
        PROVE  /\ i < chunk => RanBoth(RunOf(l, s, i))' /\ Timed(RefOf(s, i))'
               /\ i > chunk => /\ Untouched(RunOf(l, s, i))' \/ RanBoth(RunOf(l, s, i))'
                               /\ NotTimed(RefOf(s, i))' \/ Timed(RefOf(s, i))'
    <3>1. /\ i < chunk => RanBoth(RunOf(l, s, i)) /\ Timed(RefOf(s, i))
          /\ i > chunk => /\ Untouched(RunOf(l, s, i)) \/ RanBoth(RunOf(l, s, i))
                          /\ NotTimed(RefOf(s, i)) \/ Timed(RefOf(s, i))
      BY <1>4 DEF ChunksOK
    <3>2. i < chunk \/ i > chunk => i # chunk
      BY <2>1
    <3>3. i # chunk =>
            /\ Untouched(RunOf(l, s, i))' <=> Untouched(RunOf(l, s, i))
            /\ RanBoth(RunOf(l, s, i))' <=> RanBoth(RunOf(l, s, i))
            /\ Timed(RefOf(s, i))' <=> Timed(RefOf(s, i))
            /\ NotTimed(RefOf(s, i))' <=> NotTimed(RefOf(s, i))
      BY <1>1, <1>2, <1>3
    <3> QED
      BY <3>1, <3>2, <3>3, Zenon
  <2> QED
    BY <2>2 DEF ChunksOK
<1>5. ASSUME OthersOK PROVE OthersOK'
  <2>1. ASSUME NEW l2 \in Pipeline!Layouts, NEW s2 \in Pipeline!Sources, l2 # l \/ s2 # s
        PROVE  RunsWhole(l2, s2)'
    BY <1>2, <1>5, <2>1 DEF OthersOK, RunsWhole
  <2>2. ASSUME NEW s2 \in Pipeline!Sources, s2 # s
        PROVE  RefsWhole(s2)' /\ RunsTimed(s2)'
    BY <1>2, <1>3, <1>5, <2>2 DEF OthersOK, RefsWhole, RunsTimed
  <2> QED
    BY <2>1, <2>2 DEF OthersOK
<1> QED
  BY <1>4, <1>5
---------------------------------------------------------------------------
(* The steps of a campaign that nothing interrupts.                        *)

(* A report is emptied or written whole.                                   *)
LEMMA ReportsStayExact ==
  ASSUME EInv, ReportsExact, Pipeline!Next
  PROVE  ReportsExact'
<1>1. CASE UNCHANGED run_dirs
  BY <1>1 DEF ReportsExact
<1>2. ASSUME Pipeline!Running
      PROVE  chunk \in ChunkIds /\ stage_cmd \in StageCommands /\ Pipeline!run_id \in Pipeline!RunIds
  <2>1. stage_cmd \in StageCommands /\ chunk \in Nat \ {0} /\ chunk <= Len(Pipeline!RangesOf(stage_cmd))
    BY <1>2 DEF EInv, PlaceInRanges
  <2>2. Pipeline!RangesOf(stage_cmd) = Chunks /\ Len(Chunks) \in Nat
    BY <2>1, SameChunks, ChunksCut DEF RangesOK
  <2>3. chunk \in ChunkIds
    BY <2>1, <2>2 DEF ChunkIds
  <2> QED
    BY <2>1, <2>3, CurrentNames
<1>3. ASSUME Pipeline!Running, NEW field \in {"trace", "metadata", "mode1"}, NEW value,
             Pipeline!Put(Pipeline!run_id, field, value)
      PROVE  ReportsExact'
  <2>1. /\ DOMAIN run_dirs' = DOMAIN run_dirs
        /\ \A k \in DOMAIN run_dirs : run_dirs'[k].report = run_dirs[k].report
    BY <1>2, <1>3, PutOne DEF ReportsExact, EInv
  <2> QED
    BY <2>1 DEF ReportsExact
<1>4. ASSUME Pipeline!Running, NEW value \in {Pipeline!EmptyReport, WholeReportOf(Pipeline!run_id)},
             Pipeline!Put(Pipeline!run_id, "report", value)
      PROVE  ReportsExact'
  <2>1. /\ DOMAIN run_dirs' = DOMAIN run_dirs
        /\ \A k \in DOMAIN run_dirs :
             run_dirs'[k].report = IF k = Pipeline!run_id THEN value ELSE run_dirs[k].report
    BY <1>2, <1>4, PutOne DEF ReportsExact, EInv
  <2> QED
    BY <2>1 DEF ReportsExact
<1>5. CASE \/ Pipeline!OpenTrace \/ Pipeline!WriteTrace \/ Pipeline!OpenMetadata \/ Pipeline!WriteMetadata
           \/ Pipeline!OpenMode1 \/ Pipeline!RunMode1 \/ Pipeline!WriteWall
  BY <1>1, <1>3, <1>5 DEF Pipeline!OpenTrace, Pipeline!WriteTrace, Pipeline!OpenMetadata,
       Pipeline!WriteMetadata, Pipeline!OpenMode1, Pipeline!RunMode1, Pipeline!WriteWall, Pipeline!Running
<1>6. CASE Pipeline!Simulate
  BY <1>4, <1>6 DEF Pipeline!Simulate, Pipeline!Running
<1>7. CASE Pipeline!WriteReport
  <2>1. Pipeline!Running
    BY <1>7 DEF Pipeline!WriteReport, Pipeline!Running
  <2>2. Pipeline!Put(Pipeline!run_id, "report", WholeReportOf(Pipeline!run_id))
    <3>1. /\ Pipeline!run_id.source = stage_cmd.source /\ Pipeline!run_id.range = Chunks[chunk]
          /\ Pipeline!Digest(stage_cmd) = DigestOf(stage_cmd.source)
          /\ Pipeline!RangesOf(stage_cmd) = Chunks
      BY <1>2, <2>1, CurrentNames
    <3>2. Pipeline!Cycles("whole") = 100
      BY DEF Pipeline!Cycles
    <3> QED
      BY <1>7, <3>1, <3>2 DEF Pipeline!WriteReport, WholeReportOf, Pipeline!RowsOf
  <2> QED
    BY <1>4, <2>1, <2>2
<1>8. CASE Pipeline!Launch \/ Pipeline!ProgramFails \/ Pipeline!Kill \/ Pipeline!NextChunk
  BY <1>1, <1>8 DEF Pipeline!Launch, Pipeline!ProgramFails, Pipeline!Kill, Pipeline!NextChunk,
                    Pipeline!files
<1>9. CASE \/ Pipeline!SkipStage5 \/ Pipeline!SkipStage6 \/ Pipeline!SkipStage7
           \/ Pipeline!OpenReference \/ Pipeline!WriteReference
  BY <1>1, <1>9 DEF Pipeline!SkipStage5, Pipeline!SkipStage6, Pipeline!SkipStage7,
                    Pipeline!OpenReference, Pipeline!WriteReference, Pipeline!files
<1> QED
  BY <1>5, <1>6, <1>7, <1>8, <1>9 DEF Pipeline!Next, Pipeline!Step
(* Writing one of the current run's files.                                 *)
LEMMA RunFile ==
  ASSUME EInv, ReportsExact, InCampaign, UNCHANGED <<stage_cmd, chunk, refs>>,
         NEW field \in {"trace", "metadata", "report", "mode1"}, NEW value,
         Pipeline!Put(Pipeline!run_id, field, value)
  PROVE  LET k == Pipeline!run_id
         IN  /\ ChunksOK' /\ OthersOK' /\ stage_cmd' \in StageCommands /\ chunk' \in ChunkIds
             /\ k' = k /\ (stage_pc # "reference" /\ stage_pc' \notin {"next", "done"} => CurrentRefOK')
             /\ run_dirs'[k].trace = IF field = "trace" THEN value ELSE run_dirs[k].trace
             /\ run_dirs'[k].metadata = IF field = "metadata" THEN value ELSE run_dirs[k].metadata
             /\ run_dirs'[k].report = IF field = "report" THEN value ELSE run_dirs[k].report
             /\ run_dirs'[k].mode1 = IF field = "mode1" THEN value ELSE run_dirs[k].mode1
<1> DEFINE k == Pipeline!run_id
<1>1. k \in Pipeline!RunIds
  BY CurrentNames DEF InCampaign
<1>2. k \in DOMAIN run_dirs
  BY <1>1 DEF ReportsExact
<1>3. k' = k /\ Pipeline!reference_id' = Pipeline!reference_id
  BY DEF Pipeline!run_id, Pipeline!reference_id, Pipeline!RangesOf
<1>4. /\ \A d \in DOMAIN run_dirs : d # k => run_dirs'[d] = run_dirs[d]
      /\ run_dirs'[k].trace = IF field = "trace" THEN value ELSE run_dirs[k].trace
      /\ run_dirs'[k].metadata = IF field = "metadata" THEN value ELSE run_dirs[k].metadata
      /\ run_dirs'[k].report = IF field = "report" THEN value ELSE run_dirs[k].report
      /\ run_dirs'[k].mode1 = IF field = "mode1" THEN value ELSE run_dirs[k].mode1
  BY <1>2, PutOne DEF EInv
<1>5. \A d \in Pipeline!RunIds : d # k => run_dirs'[d] = run_dirs[d]
  BY <1>4 DEF ReportsExact
<1>6. ChunksOK' /\ OthersOK'
  BY <1>5, OthersStay DEF InCampaign
<1>7. stage_pc # "reference" /\ stage_pc' \notin {"next", "done"} => CurrentRefOK'
  BY <1>3 DEF InCampaign, CurrentRefOK, NotTimed, Timed
<1> QED
  BY <1>3, <1>4, <1>6, <1>7 DEF InCampaign

(* Stage 5 starts from a directory that is untouched or done, and ends     *)
(* with its report.                                                        *)
LEMMA Stage5OK ==
  ASSUME EInv, ReportsExact, InCampaign,
         \/ Pipeline!OpenTrace \/ Pipeline!WriteTrace \/ Pipeline!OpenMetadata
         \/ Pipeline!WriteMetadata \/ Pipeline!Simulate \/ Pipeline!WriteReport
  PROVE  InCampaign' /\ stage_pc' \notin {"failed", "idle", "done"}
<1> DEFINE k == Pipeline!run_id
<1>1. UNCHANGED <<stage_cmd, chunk, refs>>
  BY DEF Pipeline!OpenTrace, Pipeline!WriteTrace, Pipeline!OpenMetadata,
         Pipeline!WriteMetadata, Pipeline!Simulate, Pipeline!WriteReport, Pipeline!Goto
<1>2. /\ Pipeline!Digest(stage_cmd) = DigestOf(stage_cmd.source) /\ k.source = stage_cmd.source
      /\ k.range = Chunks[chunk] /\ Pipeline!RangesOf(stage_cmd) = Chunks
  BY CurrentNames DEF InCampaign
<1>3. CurrentRunOK
  BY DEF InCampaign
<1>4. WholeMode1 # Pipeline!NoMode1
  BY DEF WholeMode1, Pipeline!NoMode1
<1>5. CASE Pipeline!OpenTrace
  <2>1. /\ Pipeline!Put(k, "trace", "cut") /\ stage_pc = "stage5" /\ stage_pc' = "trace"
    BY <1>5 DEF Pipeline!OpenTrace, Pipeline!Goto
  <2>2. run_dirs[k].mode1 \in {Pipeline!NoMode1, WholeMode1}
    BY <1>3, <2>1 DEF CurrentRunOK, Untouched, RanBoth
  <2>3. CurrentRunOK'
    BY <1>1, <2>1, <2>2, RunFile DEF CurrentRunOK
  <2> QED
    BY <1>1, <2>1, <2>3, RunFile DEF InCampaign
<1>6. CASE Pipeline!WriteTrace
  <2>1. /\ Pipeline!Put(k, "trace", "whole") /\ stage_pc = "trace" /\ stage_pc' = "metadata"
    BY <1>6 DEF Pipeline!WriteTrace, Pipeline!Goto
  <2>2. CurrentRunOK'
    BY <1>1, <1>3, <2>1, RunFile DEF CurrentRunOK
  <2> QED
    BY <1>1, <2>1, <2>2, RunFile DEF InCampaign
<1>7. CASE Pipeline!OpenMetadata
  <2>1. /\ Pipeline!Put(k, "metadata", "cut") /\ stage_pc = "metadata" /\ stage_pc' = "describe"
    BY <1>7 DEF Pipeline!OpenMetadata, Pipeline!Goto
  <2>2. CurrentRunOK'
    BY <1>1, <1>3, <2>1, RunFile DEF CurrentRunOK
  <2> QED
    BY <1>1, <2>1, <2>2, RunFile DEF InCampaign
<1>8. CASE Pipeline!WriteMetadata
  <2>1. /\ Pipeline!Put(k, "metadata", DigestOf(stage_cmd.source))
        /\ stage_pc = "describe" /\ stage_pc' = "simulate"
    BY <1>2, <1>8 DEF Pipeline!WriteMetadata, Pipeline!Goto
  <2>2. CurrentRunOK'
    BY <1>1, <1>3, <2>1, RunFile DEF CurrentRunOK
  <2> QED
    BY <1>1, <2>1, <2>2, RunFile DEF InCampaign
<1>9. CASE Pipeline!Simulate
  <2>1. /\ Pipeline!Put(k, "report", Pipeline!EmptyReport) /\ stage_pc = "simulate" /\ stage_pc' = "report"
    BY <1>9 DEF Pipeline!Simulate, Pipeline!Goto
  <2>2. CurrentRunOK'
    BY <1>1, <1>3, <2>1, RunFile DEF CurrentRunOK
  <2> QED
    BY <1>1, <2>1, <2>2, RunFile DEF InCampaign
<1>10. CASE Pipeline!WriteReport
  <2>1. /\ Pipeline!Put(k, "report", WholeReportOf(k)) /\ stage_pc = "report" /\ stage_pc' = "stage6"
    <3>1. Pipeline!Cycles("whole") = 100
      BY DEF Pipeline!Cycles
    <3> QED
      BY <1>2, <1>10, <3>1 DEF Pipeline!WriteReport, Pipeline!Goto, WholeReportOf, Pipeline!RowsOf
  <2>2. run_dirs[k].trace = "whole" /\ run_dirs[k].metadata = DigestOf(stage_cmd.source)
        /\ run_dirs[k].mode1 \in {Pipeline!NoMode1, WholeMode1}
    BY <1>3, <2>1 DEF CurrentRunOK
  <2>3. run_dirs'[k].trace = "whole" /\ run_dirs'[k].metadata = DigestOf(k.source)
        /\ run_dirs'[k].report = WholeReportOf(k)
        /\ run_dirs'[k].mode1 \in {Pipeline!NoMode1, WholeMode1} /\ k' = k
    BY <1>1, <1>2, <2>1, <2>2, RunFile
  <2>4. RanMode2(k)'
    <3>1. WholeReportOf(k)' = WholeReportOf(k) /\ DigestOf(k.source)' = DigestOf(k.source)
      BY <2>3 DEF WholeReportOf, DigestOf
    <3> QED
      BY <2>3, <3>1 DEF RanMode2
  <2>5. CurrentRunOK'
    BY <2>1, <2>3, <2>4 DEF CurrentRunOK
  <2> QED
    BY <1>1, <2>1, <2>5, RunFile DEF InCampaign
<1> QED
  BY <1>5, <1>6, <1>7, <1>8, <1>9, <1>10
(* Stage 6 ends with the cycles of the whole trace.                        *)
LEMMA Stage6OK ==
  ASSUME EInv, ReportsExact, InCampaign, faults' = faults, faults \in Nat,
         Pipeline!OpenMode1 \/ Pipeline!RunMode1 \/ Pipeline!WriteWall
  PROVE  InCampaign' /\ stage_pc' \notin {"failed", "idle", "done"}
<1> DEFINE k == Pipeline!run_id
           old == run_dirs[k].mode1
<1>1. UNCHANGED <<stage_cmd, chunk, refs>> /\ stage_pc \in {"stage6", "mode1", "wall"}
  BY DEF Pipeline!OpenMode1, Pipeline!RunMode1, Pipeline!WriteWall, Pipeline!Goto
<1>2. CurrentRunOK /\ RanMode2(k)
  BY <1>1 DEF InCampaign, CurrentRunOK
<1>3. ASSUME NEW value, Pipeline!Put(k, "mode1", value)
      PROVE  /\ RanMode2(k)' /\ k' = k /\ run_dirs'[k].mode1 = value /\ ChunksOK' /\ OthersOK'
             /\ stage_cmd' \in StageCommands /\ chunk' \in ChunkIds
             /\ (stage_pc' \notin {"next", "done"} => CurrentRefOK')
  <2>1. /\ run_dirs'[k].trace = run_dirs[k].trace /\ run_dirs'[k].metadata = run_dirs[k].metadata
        /\ run_dirs'[k].report = run_dirs[k].report /\ run_dirs'[k].mode1 = value /\ k' = k
        /\ ChunksOK' /\ OthersOK' /\ stage_cmd' \in StageCommands /\ chunk' \in ChunkIds
        /\ (stage_pc' \notin {"next", "done"} => CurrentRefOK')
    BY <1>1, <1>3, RunFile
  <2>2. WholeReportOf(k)' = WholeReportOf(k) /\ DigestOf(k.source)' = DigestOf(k.source)
    BY <2>1 DEF WholeReportOf, DigestOf
  <2>3. RanMode2(k)'
    BY <1>2, <2>1, <2>2 DEF RanMode2
  <2> QED
    BY <2>1, <2>3
<1>4. CASE Pipeline!OpenMode1
  <2>1. /\ stage_pc = "stage6" /\ stage_pc' = "mode1"
        /\ Pipeline!Put(k, "mode1", [exists |-> TRUE, cycles |-> 0, wall |-> old.wall])
    BY <1>4 DEF Pipeline!OpenMode1, Pipeline!Goto
  <2>2. old \in {Pipeline!NoMode1, WholeMode1}
    BY <1>2, <2>1 DEF CurrentRunOK
  <2>3. [exists |-> TRUE, cycles |-> 0, wall |-> old.wall] \in [exists : {TRUE}, cycles : {0}, wall : BOOLEAN]
    <3>1. old.wall \in BOOLEAN
      <4>1. Pipeline!NoMode1.wall \in BOOLEAN /\ WholeMode1.wall \in BOOLEAN
        BY Zenon DEF Pipeline!NoMode1, WholeMode1
      <4> QED
        BY <2>2, <4>1, Zenon
    <3> DEFINE wall == old.wall
    <3> HIDE DEF wall
    <3>2. wall \in BOOLEAN
      BY <3>1 DEF wall
    <3>3. [exists |-> TRUE, cycles |-> 0, wall |-> wall] \in [exists : {TRUE}, cycles : {0}, wall : BOOLEAN]
      BY <3>2
    <3> QED
      BY <3>3 DEF wall
  <2>4. CurrentRunOK'
    BY <1>3, <2>1, <2>3 DEF CurrentRunOK
  <2> QED
    BY <1>3, <2>1, <2>4 DEF InCampaign
<1>5. CASE Pipeline!RunMode1
  <2>1. /\ stage_pc = "mode1" /\ stage_pc' = "wall"
        /\ Pipeline!Put(k, "mode1", [old EXCEPT !.cycles = Pipeline!Cycles(run_dirs[k].trace)])
    BY <1>5 DEF Pipeline!RunMode1, Pipeline!Goto
  <2>2. old \in [exists : {TRUE}, cycles : {0}, wall : BOOLEAN] /\ run_dirs[k].trace = "whole"
    BY <1>2, <2>1 DEF CurrentRunOK, RanMode2
  <2>3. [old EXCEPT !.cycles = Pipeline!Cycles(run_dirs[k].trace)]
          \in [exists : {TRUE}, cycles : {100}, wall : BOOLEAN]
    BY <2>2 DEF Pipeline!Cycles
  <2>4. CurrentRunOK'
    BY <1>3, <2>1, <2>3 DEF CurrentRunOK
  <2> QED
    BY <1>3, <2>1, <2>4 DEF InCampaign
<1>6. CASE Pipeline!WriteWall
  <2>1. /\ stage_pc = "wall" /\ stage_pc' = IF old.cycles = 0 THEN "failed" ELSE "stage7"
        /\ Pipeline!Put(k, "mode1", [old EXCEPT !.wall = TRUE])
    BY <1>6 DEF Pipeline!WriteWall, Pipeline!Goto
  <2>2. old \in [exists : {TRUE}, cycles : {100}, wall : BOOLEAN]
    BY <1>2, <2>1 DEF CurrentRunOK
  <2>3. [old EXCEPT !.wall = TRUE] = WholeMode1 /\ stage_pc' = "stage7"
    <3> DEFINE was == old
    <3>1. was \in [exists : {TRUE}, cycles : {100}, wall : BOOLEAN]
      BY <2>2
    <3> HIDE DEF was
    <3> DEFINE now == [was EXCEPT !.wall = TRUE]
    <3>2. was.cycles = 100
      BY <3>1
    <3>3. now \in [exists : {TRUE}, cycles : {100}, wall : {TRUE}]
      BY <3>1
    <3>5. ~(was.cycles = 0)
      BY <3>2
    <3> HIDE DEF now
    <3>4. now = WholeMode1
      BY <3>3 DEF WholeMode1
    <3>6. old.cycles # 0
      BY <3>5 DEF was
    <3>7. stage_pc' = "stage7"
      BY <2>1, <3>6
    <3> QED
      BY <3>4, <3>7, Zenon DEF now, was
  <2>4. RanBoth(k)' /\ k' = k
    BY <1>3, <2>1, <2>3 DEF RanBoth, WholeMode1
  <2>5. CurrentRunOK'
    BY <2>3, <2>4 DEF CurrentRunOK
  <2> QED
    BY <1>3, <2>1, <2>3, <2>5 DEF InCampaign
<1> QED
  BY <1>4, <1>5, <1>6

(* What is skipped is done.                                                *)
LEMMA SkipsOK ==
  ASSUME InCampaign, Pipeline!SkipStage5 \/ Pipeline!SkipStage6 \/ Pipeline!SkipStage7
  PROVE  InCampaign' /\ stage_pc' \notin {"failed", "idle", "done"}
<1> DEFINE k == Pipeline!run_id
           p == Pipeline!reference_id
<1>1. UNCHANGED <<stage_cmd, chunk, run_dirs, refs>>
  BY DEF Pipeline!SkipStage5, Pipeline!SkipStage6, Pipeline!SkipStage7, Pipeline!Goto, Pipeline!files
<1>2. k' = k /\ p' = p
  BY <1>1 DEF Pipeline!run_id, Pipeline!reference_id, Pipeline!RangesOf
<1>3. ChunksOK' /\ OthersOK' /\ stage_cmd' \in StageCommands /\ chunk' \in ChunkIds
  BY <1>1, OthersStay DEF InCampaign
<1>4. CurrentRunOK /\ CurrentRefOK
  BY DEF InCampaign
<1>5. /\ Untouched(k)' <=> Untouched(k)
      /\ RanMode2(k)' <=> RanMode2(k)
      /\ RanBoth(k)' <=> RanBoth(k)
      /\ Timed(p)' <=> Timed(p)
      /\ NotTimed(p)' <=> NotTimed(p)
  BY <1>1, <1>2 DEF Untouched, RanMode2, RanBoth, Timed, NotTimed, WholeReportOf, DigestOf
<1>6. CASE Pipeline!SkipStage5
  <2>1. stage_pc = "stage5" /\ stage_pc' = "stage6" /\ run_dirs[k].report.state # "none"
    BY <1>6 DEF Pipeline!SkipStage5, Pipeline!Goto
  <2>2. RanBoth(k)
    <3>1. Pipeline!NoReport.state = "none"
      BY DEF Pipeline!NoReport
    <3>2. ~Untouched(k)
      BY <2>1, <3>1, Zenon DEF Untouched
    <3> QED
      BY <1>4, <2>1, <3>2, Zenon DEF CurrentRunOK
  <2>3. CurrentRunOK' /\ CurrentRefOK'
    BY <1>1, <1>2, <1>4, <1>5, <2>1, <2>2 DEF CurrentRunOK, CurrentRefOK, RanBoth
  <2> QED
    BY <1>3, <2>1, <2>3 DEF InCampaign
<1>7. CASE Pipeline!SkipStage6
  <2>1. stage_pc = "stage6" /\ stage_pc' = "stage7" /\ run_dirs[k].mode1.exists
    BY <1>7 DEF Pipeline!SkipStage6, Pipeline!Skipped6, Pipeline!Goto
  <2>2. RanBoth(k)
    BY <1>4, <2>1 DEF CurrentRunOK, RanBoth, Pipeline!NoMode1
  <2>3. CurrentRunOK' /\ CurrentRefOK'
    BY <1>1, <1>2, <1>4, <1>5, <2>1, <2>2 DEF CurrentRunOK, CurrentRefOK
  <2> QED
    BY <1>3, <2>1, <2>3 DEF InCampaign
<1>8. CASE Pipeline!SkipStage7
  <2>1. stage_pc = "stage7" /\ stage_pc' = "next" /\ refs[p].state # "none"
    BY <1>8 DEF Pipeline!SkipStage7, Pipeline!Goto
  <2>2. RanBoth(k) /\ Timed(p)
    <3>1. Pipeline!NoRef.state = "none"
      BY DEF Pipeline!NoRef
    <3>2. ~NotTimed(p)
      BY <2>1, <3>1, Zenon DEF NotTimed
    <3>3. RanBoth(k)
      BY <1>4, <2>1 DEF CurrentRunOK
    <3>4. NotTimed(p) \/ Timed(p)
      BY <1>4, <2>1 DEF CurrentRefOK
    <3> QED
      BY <3>2, <3>3, <3>4
  <2>3. CurrentRunOK' /\ CurrentRefOK'
    BY <1>1, <1>2, <1>4, <1>5, <2>1, <2>2 DEF CurrentRunOK, CurrentRefOK
  <2> QED
    BY <1>3, <2>1, <2>3 DEF InCampaign
<1> QED
  BY <1>6, <1>7, <1>8
(* Stage 7 ends with the times of the invocation's prompt.                 *)
LEMMA Stage7OK ==
  ASSUME InCampaign, DOMAIN refs = Pipeline!ReferenceIds,
         Pipeline!OpenReference \/ Pipeline!WriteReference
  PROVE  InCampaign' /\ stage_pc' \notin {"failed", "idle", "done"}
<1> DEFINE k == Pipeline!run_id
           p == Pipeline!reference_id
<1>1. UNCHANGED <<stage_cmd, chunk, run_dirs>>
  BY DEF Pipeline!OpenReference, Pipeline!WriteReference, Pipeline!Goto
<1>2. k' = k /\ p' = p
  BY <1>1 DEF Pipeline!run_id, Pipeline!reference_id, Pipeline!RangesOf
<1>3. p \in Pipeline!ReferenceIds /\ p.source = stage_cmd.source
      /\ Pipeline!Digest(stage_cmd) = DigestOf(p.source)
  BY CurrentNames DEF InCampaign
<1>4. RanBoth(k)' <=> RanBoth(k)
  BY <1>1, <1>2 DEF RanMode2, RanBoth, WholeReportOf, DigestOf
<1>5. ASSUME NEW value, refs' = [refs EXCEPT ![p] = value]
      PROVE  refs'[p] = value /\ ChunksOK' /\ OthersOK' /\ stage_cmd' \in StageCommands /\ chunk' \in ChunkIds
  <2>1. refs'[p] = value /\ \A q \in Pipeline!ReferenceIds : q # p => refs'[q] = refs[q]
    BY <1>3, <1>5
  <2> QED
    BY <1>1, <2>1, OthersStay DEF InCampaign
<1>6. CASE Pipeline!OpenReference
  <2>1. stage_pc = "stage7" /\ stage_pc' = "reference"
        /\ refs' = [refs EXCEPT ![p] = [Pipeline!NoRef EXCEPT !.state = "empty"]]
    BY <1>6 DEF Pipeline!OpenReference, Pipeline!Goto
  <2>2. RanBoth(k)
    BY <2>1 DEF InCampaign, CurrentRunOK
  <2>3. CurrentRunOK' /\ CurrentRefOK'
    BY <1>2, <1>4, <2>1, <2>2 DEF CurrentRunOK, CurrentRefOK
  <2> QED
    BY <1>5, <2>1, <2>3 DEF InCampaign
<1>7. CASE Pipeline!WriteReference
  <2>1. PICK available \in BOOLEAN :
          refs' = [refs EXCEPT ![p] =
                     [state |-> "whole", digest |-> Pipeline!Digest(stage_cmd), gpu |-> available]]
    BY <1>7 DEF Pipeline!WriteReference
  <2>2. stage_pc = "reference" /\ stage_pc' = "next"
    BY <1>7 DEF Pipeline!WriteReference, Pipeline!Goto
  <2>3. RanBoth(k)
    BY <2>2 DEF InCampaign, CurrentRunOK
  <2>4. refs'[p].state = "whole" /\ refs'[p].digest = DigestOf(p.source)
    BY <1>3, <1>5, <2>1
  <2>5. Timed(p)'
    <3>1. DigestOf(p.source)' = DigestOf(p.source)
      BY <1>2 DEF DigestOf
    <3> QED
      BY <1>2, <2>4, <3>1 DEF Timed
  <2>6. CurrentRunOK' /\ CurrentRefOK'
    BY <1>2, <1>4, <2>2, <2>3, <2>5 DEF CurrentRunOK, CurrentRefOK
  <2> QED
    BY <1>5, <2>1, <2>2, <2>6 DEF InCampaign
<1> QED
  BY <1>6, <1>7

(* After a chunk the next one, or the end.                                 *)
LEMMA NextChunkOK ==
  ASSUME InCampaign, Pipeline!NextChunk
  PROVE  InCampaign' /\ stage_pc' \notin {"failed", "idle"} /\ (stage_pc' = "done" => chunk' = Len(Chunks))
<1> DEFINE l == stage_cmd.layout
           s == stage_cmd.source
<1>1. UNCHANGED <<stage_cmd, run_dirs, refs>> /\ stage_pc = "next"
  BY DEF Pipeline!NextChunk, Pipeline!files
<1>2. /\ Pipeline!RangesOf(stage_cmd) = Chunks /\ StageCommands # {} /\ chunk \in 1 .. Len(Chunks)
      /\ Pipeline!run_id = RunOf(l, s, chunk) /\ Pipeline!reference_id = RefOf(s, chunk)
  BY CurrentNames DEF InCampaign, ChunkIds
<1>3. Len(Chunks) \in Nat
  BY <1>2, ChunksCut DEF RangesOK
<1>4. RanBoth(RunOf(l, s, chunk)) /\ Timed(RefOf(s, chunk))
  BY <1>1, <1>2 DEF InCampaign, CurrentRunOK, CurrentRefOK
<1>5. /\ \A k : /\ Untouched(k)' <=> Untouched(k)
                /\ RanBoth(k)' <=> RanBoth(k)
      /\ \A k : /\ Timed(k)' <=> Timed(k)
                /\ NotTimed(k)' <=> NotTimed(k)
  BY <1>1 DEF Untouched, RanMode2, RanBoth, Timed, NotTimed, WholeReportOf, DigestOf
<1>9. \A i : /\ Untouched(RunOf(l, s, i))' <=> Untouched(RunOf(l, s, i))
             /\ RanBoth(RunOf(l, s, i))' <=> RanBoth(RunOf(l, s, i))
             /\ Timed(RefOf(s, i))' <=> Timed(RefOf(s, i))
             /\ NotTimed(RefOf(s, i))' <=> NotTimed(RefOf(s, i))
  BY <1>1 DEF Untouched, RanMode2, RanBoth, Timed, NotTimed, WholeReportOf, DigestOf, RunOf, RefOf
<1>6. OthersOK'
  <2>1. \A l2, s2 : RunsWhole(l2, s2)' <=> RunsWhole(l2, s2)
    BY <1>5 DEF RunsWhole
  <2>2. \A s2 : (RefsWhole(s2)' <=> RefsWhole(s2)) /\ (RunsTimed(s2)' <=> RunsTimed(s2))
    BY <1>5 DEF RefsWhole, RunsTimed
  <2> QED
    BY <1>1, <2>1, <2>2 DEF InCampaign, OthersOK
<1>7. CASE chunk < Len(Chunks)
  <2>1. stage_pc' = "stage5" /\ chunk' = chunk + 1
    BY <1>2, <1>7 DEF Pipeline!NextChunk
  <2>2. chunk' \in ChunkIds /\ chunk' > chunk /\ \A i \in ChunkIds : i < chunk' => i < chunk \/ i = chunk
    BY <1>2, <1>3, <1>7, <2>1 DEF ChunkIds
  <2>3. \A i \in ChunkIds : i > chunk' => i > chunk
    BY <1>2, <2>1 DEF ChunkIds
  <2>4. ASSUME NEW i \in ChunkIds
        PROVE  /\ i < chunk' => RanBoth(RunOf(l, s, i)) /\ Timed(RefOf(s, i))
               /\ i > chunk' \/ i = chunk' => /\ Untouched(RunOf(l, s, i)) \/ RanBoth(RunOf(l, s, i))
                                              /\ NotTimed(RefOf(s, i)) \/ Timed(RefOf(s, i))
    <3>1. /\ i < chunk => RanBoth(RunOf(l, s, i)) /\ Timed(RefOf(s, i))
          /\ i > chunk => /\ Untouched(RunOf(l, s, i)) \/ RanBoth(RunOf(l, s, i))
                          /\ NotTimed(RefOf(s, i)) \/ Timed(RefOf(s, i))
      BY DEF InCampaign, ChunksOK
    <3> QED
      BY <1>4, <2>2, <2>3, <3>1
  <2>5. ChunksOK'
    <3>1. \A i \in ChunkIds :
            /\ i < chunk' => RanBoth(RunOf(l, s, i))' /\ Timed(RefOf(s, i))'
            /\ i > chunk' => /\ Untouched(RunOf(l, s, i))' \/ RanBoth(RunOf(l, s, i))'
                             /\ NotTimed(RefOf(s, i))' \/ Timed(RefOf(s, i))'
      <4> SUFFICES ASSUME NEW i \in ChunkIds
                   PROVE  /\ i < chunk' => RanBoth(RunOf(l, s, i))' /\ Timed(RefOf(s, i))'
                          /\ i > chunk' => /\ Untouched(RunOf(l, s, i))' \/ RanBoth(RunOf(l, s, i))'
                                           /\ NotTimed(RefOf(s, i))' \/ Timed(RefOf(s, i))'
        OBVIOUS
      <4> QED
        BY <1>9, <2>4, Zenon
    <3> QED
      BY <1>1, <3>1 DEF ChunksOK
  <2>6. PICK c \in ChunkIds : c = chunk'
    BY <2>2
  <2>7. stage_cmd' \in StageCommands /\ Pipeline!run_id' = RunOf(l, s, c)
        /\ Pipeline!reference_id' = RefOf(s, c)
    BY <1>1, <1>2, <2>6 DEF InCampaign, Pipeline!run_id, Pipeline!reference_id, Pipeline!RangesOf, RunOf, RefOf
  <2>8. CurrentRunOK' /\ CurrentRefOK'
    <3>1. /\ Untouched(RunOf(l, s, c)) \/ RanBoth(RunOf(l, s, c))
          /\ NotTimed(RefOf(s, c)) \/ Timed(RefOf(s, c))
      BY <2>4, <2>6
    <3>2. Untouched(Pipeline!run_id)' \/ RanBoth(Pipeline!run_id)'
      BY <2>7, <3>1, <1>1 DEF Untouched, RanMode2, RanBoth, WholeReportOf, DigestOf
    <3>3. NotTimed(Pipeline!reference_id)' \/ Timed(Pipeline!reference_id)'
      BY <2>7, <3>1, <1>1 DEF Timed, NotTimed, DigestOf
    <3> QED
      BY <2>1, <3>2, <3>3 DEF CurrentRunOK, CurrentRefOK
  <2> QED
    BY <1>6, <2>1, <2>2, <2>5, <2>7, <2>8 DEF InCampaign
<1>8. CASE ~(chunk < Len(Chunks))
  <2>1. stage_pc' = "done" /\ chunk' = chunk /\ chunk' = Len(Chunks)
    BY <1>2, <1>3, <1>8 DEF Pipeline!NextChunk
  <2>2. Pipeline!run_id' = Pipeline!run_id /\ Pipeline!reference_id' = Pipeline!reference_id
    BY <1>1, <2>1 DEF Pipeline!run_id, Pipeline!reference_id, Pipeline!RangesOf
  <2>3. CurrentRunOK' /\ CurrentRefOK'
    BY <1>2, <1>4, <1>5, <2>1, <2>2 DEF CurrentRunOK, CurrentRefOK
  <2>4. ChunksOK'
    BY <1>1, <2>1, OthersStay DEF InCampaign
  <2> QED
    BY <1>1, <1>6, <2>1, <2>3, <2>4 DEF InCampaign
<1> QED
  BY <1>7, <1>8

(* At the end of an invocation everything of its layout and source is      *)
(* done.                                                                   *)
LEMMA AllOKWhenDone ==
  ASSUME InCampaign, stage_pc = "done", chunk = Len(Chunks)
  PROVE  /\ AllOK
         /\ \A i \in ChunkIds : /\ RanBoth(RunOf(stage_cmd.layout, stage_cmd.source, i))
                                /\ Timed(RefOf(stage_cmd.source, i))
<1> DEFINE l == stage_cmd.layout
           s == stage_cmd.source
<1>1. /\ StageCommands # {} /\ chunk \in ChunkIds
      /\ Pipeline!run_id = RunOf(l, s, chunk) /\ Pipeline!reference_id = RefOf(s, chunk)
  BY CurrentNames DEF InCampaign
<1>2. \A i \in ChunkIds : i < chunk \/ i = chunk
  <2>1. Len(Chunks) \in Nat
    BY <1>1, ChunksCut DEF RangesOK
  <2> QED
    BY <2>1 DEF ChunkIds
<1>3. RanBoth(RunOf(l, s, chunk)) /\ Timed(RefOf(s, chunk))
  BY <1>1 DEF InCampaign, CurrentRunOK, CurrentRefOK
<1>4. \A i \in ChunkIds : RanBoth(RunOf(l, s, i)) /\ Timed(RefOf(s, i))
  BY <1>2, <1>3 DEF InCampaign, ChunksOK
<1>5. OthersOK
  BY DEF InCampaign
<1>6. ASSUME NEW l2 \in Pipeline!Layouts, NEW s2 \in Pipeline!Sources
      PROVE  RunsWhole(l2, s2)
  BY <1>4, <1>5 DEF OthersOK, RunsWhole
<1>7. ASSUME NEW s2 \in Pipeline!Sources
      PROVE  RefsWhole(s2) /\ RunsTimed(s2)
  BY <1>4, <1>5 DEF OthersOK, RefsWhole, RunsTimed
<1> QED
  BY <1>4, <1>6, <1>7 DEF AllOK

(* Whatever invocation comes next finds what it expects.                   *)
LEMMA LaunchOK ==
  ASSUME AllOK, Pipeline!Launch
  PROVE  InCampaign' /\ stage_pc' \notin {"failed", "idle", "done"}
<1>1. stage_cmd' \in StageCommands /\ stage_pc' = "stage5" /\ chunk' = 1 /\ UNCHANGED <<run_dirs, refs>>
  BY DEF Pipeline!Launch, Pipeline!files
<1>0. PICK c \in StageCommands : c = stage_cmd'
  BY <1>1
<1> DEFINE l == c.layout
           s == c.source
<1>2. l \in Pipeline!Layouts /\ s \in Pipeline!Sources
  BY <1>1, Assumptions DEF Pipeline!StageAssumption, Pipeline!CommandType
<1>3. 1 \in ChunkIds /\ \A i \in ChunkIds : ~(i < 1)
  <2>1. Len(Chunks) \in Nat \ {0}
    BY <1>1, ChunksCut DEF RangesOK
  <2> QED
    BY <2>1 DEF ChunkIds
<1>4. /\ \A k : /\ Untouched(k)' <=> Untouched(k)
                /\ RanBoth(k)' <=> RanBoth(k)
      /\ \A k : /\ Timed(k)' <=> Timed(k)
                /\ NotTimed(k)' <=> NotTimed(k)
  BY <1>1 DEF Untouched, RanMode2, RanBoth, Timed, NotTimed, WholeReportOf, DigestOf
<1>5. OthersOK'
  <2>1. \A l2, s2 : RunsWhole(l2, s2)' <=> RunsWhole(l2, s2)
    BY <1>4 DEF RunsWhole
  <2>2. \A s2 : (RefsWhole(s2)' <=> RefsWhole(s2)) /\ (RunsTimed(s2)' <=> RunsTimed(s2))
    BY <1>4 DEF RefsWhole, RunsTimed
  <2> QED
    BY <2>1, <2>2 DEF AllOK, OthersOK
<1>6. \A i \in ChunkIds : /\ Untouched(RunOf(l, s, i)) \/ RanBoth(RunOf(l, s, i))
                          /\ NotTimed(RefOf(s, i)) \/ Timed(RefOf(s, i))
  BY <1>2 DEF AllOK, RunsWhole, RefsWhole
<1>7. ChunksOK'
  <2>1. \A i \in ChunkIds : /\ Untouched(RunOf(l, s, i))' \/ RanBoth(RunOf(l, s, i))'
                            /\ NotTimed(RefOf(s, i))' \/ Timed(RefOf(s, i))'
    BY <1>4, <1>6
  <2> QED
    BY <1>0, <1>1, <1>3, <2>1 DEF ChunksOK
<1>8. Pipeline!run_id' = RunOf(l, s, 1) /\ Pipeline!reference_id' = RefOf(s, 1)
  <2>1. Pipeline!RangesOf(c) = Chunks
    BY SameChunks
  <2> QED
    BY <1>0, <1>1, <2>1 DEF Pipeline!run_id, Pipeline!reference_id, RunOf, RefOf, Pipeline!RangesOf
<1>9. CurrentRunOK' /\ CurrentRefOK'
  <2>1. /\ Untouched(RunOf(l, s, 1))' \/ RanBoth(RunOf(l, s, 1))'
        /\ NotTimed(RefOf(s, 1))' \/ Timed(RefOf(s, 1))'
    BY <1>3, <1>4, <1>6
  <2> QED
    <3>1. Untouched(Pipeline!run_id)' \/ RanBoth(Pipeline!run_id)'
      BY <1>8, <2>1 DEF Untouched, RanMode2, RanBoth, WholeReportOf, DigestOf
    <3>2. NotTimed(Pipeline!reference_id)' \/ Timed(Pipeline!reference_id)'
      BY <1>8, <2>1 DEF Timed, NotTimed, DigestOf
    <3> QED
      BY <1>1, <3>1, <3>2 DEF CurrentRunOK, CurrentRefOK
<1> QED
  BY <1>1, <1>3, <1>5, <1>7, <1>9 DEF InCampaign
(* The invariant of campaigns.                                             *)
CampaignInv ==
  /\ EInv /\ ReportsExact /\ DOMAIN refs = Pipeline!ReferenceIds
  /\ program = "pipeline" => kills \in Nat /\ faults \in Nat /\ CampaignOK

(* An interruption or a fault is counted, and never forgotten.             *)
LEMMA FaultsCounted ==
  ASSUME kills \in Nat, faults \in Nat, Pipeline!Next
  PROVE  /\ kills' \in Nat /\ faults' \in Nat
         /\ kills' = 0 /\ faults' = 0 =>
              kills = 0 /\ faults = 0 /\ ~Pipeline!ProgramFails /\ ~Pipeline!Kill
<1>1. CASE Pipeline!Kill
  BY <1>1 DEF Pipeline!Kill
<1>2. CASE Pipeline!ProgramFails
  BY <1>2 DEF Pipeline!ProgramFails
<1>3. CASE Pipeline!RunMode1
  <2>1. UNCHANGED <<kills, faults>> \/ (faults' = faults + 1 /\ UNCHANGED kills)
    BY <1>3 DEF Pipeline!RunMode1
  <2>2. ~Pipeline!Kill /\ ~Pipeline!ProgramFails
    <3>1. stage_pc = "mode1" /\ stage_pc' = "wall"
      BY <1>3 DEF Pipeline!RunMode1, Pipeline!Goto
    <3> QED
      BY <3>1 DEF Pipeline!Kill, Pipeline!ProgramFails, Pipeline!Goto
  <2> QED
    BY <2>1, <2>2
<1>4. ASSUME UNCHANGED <<kills, faults>>
      PROVE  /\ kills' \in Nat /\ faults' \in Nat
             /\ kills = 0 /\ faults = 0 => ~Pipeline!ProgramFails /\ ~Pipeline!Kill
  <2>1. ~Pipeline!Kill
    BY <1>4 DEF Pipeline!Kill
  <2>2. ~Pipeline!ProgramFails
    BY <1>4 DEF Pipeline!ProgramFails
  <2> QED
    BY <1>4, <2>1, <2>2
<1>5. Pipeline!Kill \/ Pipeline!ProgramFails \/ Pipeline!RunMode1 \/ UNCHANGED <<kills, faults>>
  <2>1. CASE \/ Pipeline!SkipStage5 \/ Pipeline!OpenTrace \/ Pipeline!WriteTrace
             \/ Pipeline!OpenMetadata \/ Pipeline!WriteMetadata \/ Pipeline!Simulate
    BY <2>1 DEF Pipeline!SkipStage5, Pipeline!OpenTrace, Pipeline!WriteTrace, Pipeline!OpenMetadata,
                Pipeline!WriteMetadata, Pipeline!Simulate, Pipeline!bounds
  <2>2. CASE Pipeline!WriteReport
    BY <2>2 DEF Pipeline!WriteReport, Pipeline!bounds
  <2>3. CASE \/ Pipeline!SkipStage6 \/ Pipeline!OpenMode1 \/ Pipeline!WriteWall \/ Pipeline!Launch
    BY <2>3 DEF Pipeline!SkipStage6, Pipeline!OpenMode1, Pipeline!WriteWall, Pipeline!Launch,
                Pipeline!bounds
  <2>4. CASE \/ Pipeline!SkipStage7 \/ Pipeline!OpenReference \/ Pipeline!WriteReference
             \/ Pipeline!NextChunk
    BY <2>4 DEF Pipeline!SkipStage7, Pipeline!OpenReference, Pipeline!WriteReference,
                Pipeline!NextChunk, Pipeline!bounds
  <2> QED
    BY <2>1, <2>2, <2>3, <2>4 DEF Pipeline!Next, Pipeline!Step
<1> QED
  BY <1>1, <1>2, <1>3, <1>4, <1>5

(* What an uninterrupted campaign can rely on.                             *)
LEMMA CampaignStays ==
  ASSUME EInv, ReportsExact, DOMAIN refs = Pipeline!ReferenceIds, kills \in Nat, faults \in Nat,
         CampaignOK, Pipeline!Next
  PROVE  CampaignOK'
<1> SUFFICES ASSUME kills' = 0, faults' = 0
             PROVE  /\ stage_pc' # "failed" /\ (stage_pc' = "idle" => AllOK')
                    /\ stage_pc' # "idle" => InCampaign'
                    /\ stage_pc' = "done" => chunk' = Len(Chunks)
  BY DEF CampaignOK
<1>1. /\ kills = 0 /\ faults = 0 /\ ~Pipeline!ProgramFails /\ ~Pipeline!Kill
      /\ faults' = faults
  BY FaultsCounted
<1>2. /\ stage_pc # "failed"
      /\ stage_pc = "idle" => AllOK
      /\ stage_pc # "idle" => InCampaign
      /\ stage_pc = "done" => chunk = Len(Chunks)
  BY <1>1 DEF CampaignOK
<1>3. CASE Pipeline!Launch
  <2>1. stage_pc \in {"idle", "failed", "done"}
    BY <1>3 DEF Pipeline!Launch, Pipeline!Running
  <2>2. AllOK
    BY <1>2, <2>1, AllOKWhenDone
  <2> QED
    BY <1>3, <2>2, LaunchOK
<1>4. CASE Pipeline!Step
  <2>1. stage_pc # "idle"
    BY <1>4 DEF Pipeline!Step, Pipeline!SkipStage5, Pipeline!OpenTrace, Pipeline!WriteTrace,
         Pipeline!OpenMetadata, Pipeline!WriteMetadata, Pipeline!Simulate, Pipeline!WriteReport,
         Pipeline!SkipStage6, Pipeline!OpenMode1, Pipeline!RunMode1, Pipeline!WriteWall,
         Pipeline!SkipStage7, Pipeline!OpenReference, Pipeline!WriteReference, Pipeline!NextChunk
  <2>2. InCampaign
    BY <1>2, <2>1
  <2>3. InCampaign' /\ stage_pc' \notin {"failed", "idle"} /\ (stage_pc' = "done" => chunk' = Len(Chunks))
    BY <1>1, <1>4, <2>2, Stage5OK, Stage6OK, SkipsOK, Stage7OK, NextChunkOK DEF Pipeline!Step
  <2> QED
    BY <2>3
<1> QED
  BY <1>1, <1>3, <1>4 DEF Pipeline!Next

(* No reference file gets another name.                                    *)
LEMMA ReferencesStay ==
  ASSUME Pipeline!Next
  PROVE  DOMAIN refs' = DOMAIN refs
<1>1. CASE UNCHANGED refs
  BY <1>1
<1>2. CASE Pipeline!OpenReference \/ Pipeline!WriteReference
  BY <1>2 DEF Pipeline!OpenReference, Pipeline!WriteReference
<1>3. CASE \/ Pipeline!SkipStage5 \/ Pipeline!OpenTrace \/ Pipeline!WriteTrace
           \/ Pipeline!OpenMetadata \/ Pipeline!WriteMetadata \/ Pipeline!Simulate
  BY <1>3 DEF Pipeline!SkipStage5, Pipeline!OpenTrace, Pipeline!WriteTrace, Pipeline!OpenMetadata,
              Pipeline!WriteMetadata, Pipeline!Simulate, Pipeline!files
<1>4. CASE Pipeline!WriteReport
  BY <1>4 DEF Pipeline!WriteReport
<1>5. CASE Pipeline!SkipStage6 \/ Pipeline!OpenMode1 \/ Pipeline!RunMode1 \/ Pipeline!WriteWall
  BY <1>5 DEF Pipeline!SkipStage6, Pipeline!OpenMode1, Pipeline!RunMode1, Pipeline!WriteWall,
              Pipeline!files
<1>6. CASE \/ Pipeline!SkipStage7 \/ Pipeline!NextChunk \/ Pipeline!Launch
           \/ Pipeline!ProgramFails \/ Pipeline!Kill
  BY <1>6 DEF Pipeline!SkipStage7, Pipeline!NextChunk, Pipeline!Launch, Pipeline!ProgramFails,
              Pipeline!Kill, Pipeline!files
<1> QED
  BY <1>1, <1>2, <1>3, <1>4, <1>5, <1>6 DEF Pipeline!Next, Pipeline!Step

(* The other programs leave a campaign alone.                              *)
LEMMA CampaignRests ==
  ASSUME CampaignOK, UNCHANGED pipeline, UNCHANGED <<kills, faults>>
  PROVE  CampaignOK'
<1>1. UNCHANGED <<stage_cmd, stage_pc, chunk, run_dirs, refs>>
  BY DEF pipeline
<1>2. Pipeline!run_id' = Pipeline!run_id /\ Pipeline!reference_id' = Pipeline!reference_id
  BY <1>1 DEF Pipeline!run_id, Pipeline!reference_id, Pipeline!RangesOf
<1>3. /\ \A k : /\ Untouched(k)' <=> Untouched(k)
                /\ RanMode2(k)' <=> RanMode2(k)
                /\ RanBoth(k)' <=> RanBoth(k)
      /\ \A k : /\ Timed(k)' <=> Timed(k)
                /\ NotTimed(k)' <=> NotTimed(k)
  BY <1>1 DEF Untouched, RanMode2, RanBoth, Timed, NotTimed, WholeReportOf, DigestOf
<1>4. ASSUME InCampaign PROVE InCampaign'
  <2>1. ChunksOK' /\ OthersOK'
    BY <1>1, <1>4, OthersStay DEF InCampaign
  <2>2. CurrentRunOK' /\ CurrentRefOK'
    <3> DEFINE k == Pipeline!run_id
               p == Pipeline!reference_id
    <3>1. /\ Untouched(k)' <=> Untouched(k)
          /\ RanMode2(k)' <=> RanMode2(k)
          /\ RanBoth(k)' <=> RanBoth(k)
          /\ Timed(p)' <=> Timed(p)
          /\ NotTimed(p)' <=> NotTimed(p)
      BY <1>1, <1>2 DEF Untouched, RanMode2, RanBoth, Timed, NotTimed, WholeReportOf, DigestOf
    <3>2. CurrentRunOK /\ CurrentRefOK
      BY <1>4 DEF InCampaign
    <3> QED
      BY <1>1, <1>2, <3>1, <3>2 DEF CurrentRunOK, CurrentRefOK
  <2> QED
    BY <1>1, <1>4, <2>1, <2>2 DEF InCampaign
<1>5. ASSUME AllOK PROVE AllOK'
  BY <1>3, <1>5 DEF AllOK, RunsWhole, RefsWhole, RunsTimed
<1> QED
  BY <1>1, <1>4, <1>5 DEF CampaignOK

(* The invariant of campaigns is inductive.                                *)
LEMMA CampaignInductive ==
  /\ ExperimentsInit => CampaignInv
  /\ CampaignInv /\ [ExperimentsNext]_experiments => CampaignInv'
<1>1. ASSUME ExperimentsInit PROVE CampaignInv
  <2>1. Pipeline!Init
    BY <1>1 DEF ExperimentsInit
  <2>2. EInv
    BY <1>1, EInvInductive
  <2>3. ReportsExact /\ DOMAIN refs = Pipeline!ReferenceIds
    BY <2>1 DEF ReportsExact, Pipeline!Init
  <2>4. CampaignOK /\ kills \in Nat /\ faults \in Nat
    <3>1. kills = 0 /\ faults = 0 /\ stage_pc = "idle" /\ StageCommands # {}
      BY <2>1 DEF Pipeline!Init
    <3>2. ASSUME NEW l \in Pipeline!Layouts, NEW s \in Pipeline!Sources, NEW i \in ChunkIds
          PROVE  Untouched(RunOf(l, s, i)) /\ NotTimed(RefOf(s, i))
      <4>1. RunOf(l, s, i) \in Pipeline!RunIds /\ RefOf(s, i) \in Pipeline!ReferenceIds
        BY <3>1, NamesOf
      <4> QED
        BY <2>1, <4>1 DEF Pipeline!Init, Untouched, NotTimed
    <3>3. Pipeline!Layouts # {}
      BY DEF Pipeline!Layouts
    <3>4. AllOK
      BY <3>2, <3>3 DEF AllOK, RunsWhole, RefsWhole, RunsTimed
    <3> QED
      BY <3>1, <3>4 DEF CampaignOK
  <2> QED
    BY <2>2, <2>3, <2>4 DEF CampaignInv
<1>2. ASSUME CampaignInv, [ExperimentsNext]_experiments PROVE CampaignInv'
  <2>1. EInv'
    BY <1>2, EInvInductive DEF CampaignInv
  <2>2. CASE RunPipeline /\ Pipeline!Next
    <3>1. ReportsExact'
      BY <1>2, <2>2, ReportsStayExact DEF CampaignInv
    <3>2. (DOMAIN refs = Pipeline!ReferenceIds)'
      BY <1>2, <2>2, ReferencesStay DEF CampaignInv
    <3>3. kills' \in Nat /\ faults' \in Nat /\ CampaignOK'
      BY <1>2, <2>2, FaultsCounted, CampaignStays DEF CampaignInv, RunPipeline
    <3> QED
      BY <2>1, <3>1, <3>2, <3>3 DEF CampaignInv
  <2>3. CASE UNCHANGED pipeline /\ (program' # "pipeline" \/ UNCHANGED <<program, kills, faults>>)
    <3>1. ReportsExact' /\ (DOMAIN refs = Pipeline!ReferenceIds)'
      BY <1>2, <2>3 DEF CampaignInv, pipeline, ReportsExact
    <3>2. program' = "pipeline" => kills' \in Nat /\ faults' \in Nat /\ CampaignOK'
      BY <1>2, <2>3, CampaignRests DEF CampaignInv
    <3> QED
      BY <2>1, <3>1, <3>2 DEF CampaignInv
  <2> QED
    BY <1>2, <2>2, <2>3 DEF ExperimentsNext, experiments, RunDownload, RunRunner, RunDriver
<1> QED
  BY <1>1, <1>2

---------------------------------------------------------------------------
(* What is published.                                                      *)

PublishedRow(k) ==
  [layout |-> k.layout, source |-> k.source, range |-> k.range,
   digest |-> run_dirs[k].metadata, measured |-> run_dirs[k].report.digest,
   cycles |-> run_dirs[k].report.cycles, stats |-> run_dirs[k].report.stats, dir |-> k]
Publishable(k) == run_dirs[k].metadata # "none" /\ run_dirs[k].report.state # "none"

(* A row for every directory with metadata and a report.                   *)
LEMMA CandidateRows ==
  ASSUME ReportsExact
  PROVE  /\ \A c \in Pipeline!candidates(run_dirs) :
              \E k \in Pipeline!RunIds : Publishable(k) /\ c = PublishedRow(k)
         /\ \A k \in Pipeline!RunIds :
              Publishable(k) => PublishedRow(k) \in Pipeline!candidates(run_dirs)
BY DEF ReportsExact, Pipeline!candidates, Publishable, PublishedRow

(* Those of one layout and one source: the row-sharded runs if there are   *)
(* any, of them those of the prompt if there are any.                      *)
LEMMA OneLayoutAndSource ==
  ASSUME ReportsExact
  PROVE  \E l \in Pipeline!Layouts, s \in Pipeline!Sources :
           /\ Pipeline!consolidate_hf_weight_functional(run_dirs)
                = {c \in Pipeline!candidates(run_dirs) : c.layout = l /\ c.source = s}
           /\ Pipeline!candidates(run_dirs) # {} =>
                Pipeline!consolidate_hf_weight_functional(run_dirs) # {}
<1> DEFINE all == Pipeline!candidates(run_dirs)
           Sharded(c) == c.layout = "row_sharded"
           Prompted(c) == c.source = "prompt_hash_bf16"
           by_case == {c \in all : Sharded(c) \/ ~\E d \in all : Pipeline!SameCase(c, d) /\ Sharded(d)}
           sharded == IF \E c \in by_case : Sharded(c) THEN {c \in by_case : Sharded(c)} ELSE by_case
           kept == IF \E c \in sharded : Prompted(c) THEN {c \in sharded : Prompted(c)} ELSE sharded
<1>1. Pipeline!consolidate_hf_weight_functional(run_dirs) = kept
  BY DEF Pipeline!consolidate_hf_weight_functional
<1>2. \A c \in all : /\ c.layout \in {"broadcast", "row_sharded"}
                     /\ c.source \in {"random_bf16", "prompt_hash_bf16"}
  <2>1. \A k \in Pipeline!RunIds : /\ k.layout \in {"broadcast", "row_sharded"}
                                   /\ k.source \in {"random_bf16", "prompt_hash_bf16"}
    BY DEF Pipeline!RunIds, Pipeline!Layouts, Pipeline!Sources
  <2> QED
    BY <2>1, CandidateRows DEF PublishedRow
<1> HIDE DEF all
<1>3. PICK l \in {"broadcast", "row_sharded"} :
        sharded = {c \in all : c.layout = l} /\ (all # {} => sharded # {})
  <2>1. CASE \E c \in all : Sharded(c)
    <3>1. \E c \in by_case : Sharded(c)
      BY <2>1
    <3>2. sharded = {c \in all : c.layout = "row_sharded"} /\ sharded # {}
      BY <3>1
    <3> QED
      BY <3>2
  <2>2. CASE ~\E c \in all : Sharded(c)
    <3>1. by_case = all /\ sharded = all
      BY <2>2
    <3>2. \A c \in all : c.layout = "broadcast"
      BY <1>2, <2>2
    <3>3. sharded = {c \in all : c.layout = "broadcast"} /\ (all # {} => sharded # {})
      BY <3>1, <3>2
    <3> QED
      BY <3>3
  <2> QED
    BY <2>1, <2>2
<1> HIDE DEF sharded
<1>4. PICK s \in {"random_bf16", "prompt_hash_bf16"} :
        kept = {c \in sharded : c.source = s} /\ (sharded # {} => kept # {})
  <2>1. CASE \E c \in sharded : Prompted(c)
    BY <2>1
  <2>2. CASE ~\E c \in sharded : Prompted(c)
    <3>1. \A c \in sharded : c.source = "random_bf16"
      BY <1>2, <1>3, <2>2
    <3>2. kept = {c \in sharded : c.source = "random_bf16"} /\ (sharded # {} => kept # {})
      BY <2>2, <3>1
    <3> QED
      BY <3>2
  <2> QED
    BY <2>1, <2>2
<1>5. kept = {c \in all : c.layout = l /\ c.source = s} /\ (all # {} => kept # {})
  BY <1>3, <1>4
<1> HIDE DEF kept
<1> QED
  BY <1>1, <1>5 DEF all, Pipeline!Layouts, Pipeline!Sources

(* Directories of one layout and source are those of the chunks.           *)
LEMMA RunsOfOne ==
  ASSUME StageCommands # {}, NEW k \in Pipeline!RunIds
  PROVE  \E i \in ChunkIds : k = RunOf(k.layout, k.source, i)
<1>1. PICK i \in ChunkIds : k.range = Chunks[i]
  BY ChunksCut DEF Pipeline!RunIds
<1>2. k = [layout |-> k.layout, source |-> k.source, range |-> k.range]
  BY DEF Pipeline!RunIds
<1> QED
  BY <1>1, <1>2 DEF RunOf

(* Publication at any time.                                                *)
LEMMA PublishedRows ==
  ASSUME StageCommands # {}, ReportsExact
  PROVE  /\ IsFiniteSet(Pipeline!Published)
         /\ \A c \in Pipeline!Published :
              \E k \in Pipeline!RunIds : Publishable(k) /\ c = PublishedRow(k)
         /\ \A c, d \in Pipeline!Published : c # d => c.range # d.range
<1> DEFINE all == Pipeline!candidates(run_dirs)
<1>1. PICK l \in Pipeline!Layouts, s \in Pipeline!Sources :
        Pipeline!consolidate_hf_weight_functional(run_dirs) = {c \in all : c.layout = l /\ c.source = s}
  BY OneLayoutAndSource
<1>2. Pipeline!Published \in SUBSET {c \in all : c.layout = l /\ c.source = s}
  BY <1>1 DEF Pipeline!Published
<1>3. ASSUME NEW c \in Pipeline!Published
      PROVE  \E k \in Pipeline!RunIds, i \in ChunkIds :
               Publishable(k) /\ c = PublishedRow(k) /\ k = RunOf(l, s, i) /\ c.range = Chunks[i]
  <2>1. PICK k \in Pipeline!RunIds : Publishable(k) /\ c = PublishedRow(k)
    BY <1>2, CandidateRows
  <2>2. k.layout = l /\ k.source = s /\ c.range = k.range
    BY <1>2, <2>1 DEF PublishedRow
  <2>3. PICK i \in ChunkIds : k = RunOf(l, s, i)
    BY <2>2, RunsOfOne
  <2>4. k.range = Chunks[i]
    BY <2>3 DEF RunOf
  <2> QED
    BY <2>1, <2>2, <2>3, <2>4
<1> HIDE DEF all
<1>4. IsFiniteSet(Pipeline!Published)
  <2> DEFINE row == [i \in ChunkIds |-> PublishedRow(RunOf(l, s, i))]
             kept == {row[i] : i \in ChunkIds}
  <2>1. IsFiniteSet(ChunkIds)
    <3>1. Len(Chunks) \in Nat
      BY ChunksCut DEF RangesOK
    <3> QED
      BY <3>1, FS_Interval DEF ChunkIds
  <2>2. Pipeline!Published \in SUBSET kept
    BY <1>3
  <2> HIDE DEF row
  <2>3. IsFiniteSet(kept)
    BY <2>1, ImageFinite
  <2> HIDE DEF kept
  <2> QED
    BY <2>2, <2>3, FS_Subset
<1>5. ASSUME NEW c \in Pipeline!Published, NEW d \in Pipeline!Published, c.range = d.range
      PROVE  c = d
  <2>1. PICK i \in ChunkIds : c = PublishedRow(RunOf(l, s, i)) /\ c.range = Chunks[i]
    BY <1>3
  <2>2. PICK j \in ChunkIds : d = PublishedRow(RunOf(l, s, j)) /\ d.range = Chunks[j]
    BY <1>3
  <2>3. i = j
    BY <1>5, <2>1, <2>2, ChunksCut
  <2> QED
    BY <2>1, <2>2, <2>3
<1> QED
  BY <1>3, <1>4, <1>5

(* A row that counts every row of its range has what they give.            *)
LEMMA WholeRow ==
  ASSUME StageCommands # {}, ReportsExact, NEW c \in Pipeline!Published, c.stats.n = Pipeline!Size(c.range)
  PROVE  c.range \in Pipeline!Ranges /\ c.stats = Pipeline!write_report(Ulp, Pipeline!RowsOf(c.range))
<1>1. PICK k \in Pipeline!RunIds : c = PublishedRow(k)
  BY PublishedRows
<1>2. c.range = k.range /\ c.stats = run_dirs[k].report.stats
  BY <1>1 DEF PublishedRow
<1>3. k.range \in Pipeline!Ranges
  BY DEF Pipeline!RunIds
<1>4. Pipeline!Size(k.range) # 0
  BY <1>3, RangeRows
<1>5. Pipeline!NoReport.stats.n = 0 /\ Pipeline!EmptyReport.stats.n = 0
  BY DEF Pipeline!NoReport, Pipeline!EmptyReport, Pipeline!NoStats
<1>6. run_dirs[k].report \in {Pipeline!NoReport, Pipeline!EmptyReport, WholeReportOf(k)}
  BY DEF ReportsExact
<1>7. run_dirs[k].report = WholeReportOf(k)
  BY <1>2, <1>4, <1>5, <1>6
<1>8. WholeReportOf(k).stats = Pipeline!write_report(Ulp, Pipeline!RowsOf(k.range))
  BY Zenon DEF WholeReportOf
<1> QED
  BY <1>2, <1>3, <1>7, <1>8

(* What is added up over chunks is what all their rows give together.      *)
LEMMA FunctionalIsReport ==
  ASSUME StageCommands # {}, ReportsExact,
         \A c \in Pipeline!Published : c.stats.n = Pipeline!Size(c.range)
  PROVE  Pipeline!Functional.stats
           = Pipeline!write_report(Ulp, UNION {Pipeline!RowsOf(c.range) : c \in Pipeline!Published})
<1> DEFINE C == Pipeline!Published
<1>1. IsFiniteSet(C) /\ \A c, d \in C : c # d => c.range # d.range
  BY PublishedRows
<1>2. \A c \in C : /\ c.range \in Pipeline!Ranges
                   /\ c.stats = Pipeline!write_report(Ulp, Pipeline!RowsOf(c.range))
  BY WholeRow
<1> HIDE DEF C
<1>3. Pipeline!consolidate_hf_weight_functional_aggregate(C).stats
        = Pipeline!write_report(Ulp, UNION {Pipeline!RowsOf(c.range) : c \in C})
  BY <1>1, <1>2, AggregateIsReport
<1> QED
  BY <1>3 DEF Pipeline!Functional, C

---------------------------------------------------------------------------
(* At the end of a campaign that nothing interrupted.                      *)

AtTheEnd ==
  /\ StageCommands # {} /\ ReportsExact /\ DOMAIN refs = Pipeline!ReferenceIds
  /\ AllOK /\ \E l \in Pipeline!Layouts, s \in Pipeline!Sources : \A i \in ChunkIds : RanBoth(RunOf(l, s, i))

(* There is a chunk, and not infinitely many.                              *)
LEMMA SomeChunk ==
  ASSUME StageCommands # {}
  PROVE  IsFiniteSet(ChunkIds) /\ 1 \in ChunkIds
<1>1. Len(Chunks) \in Nat \ {0}
  BY ChunksCut DEF RangesOK
<1> QED
  BY <1>1, FS_Interval DEF ChunkIds

(* A digest is not one of the marks.                                       *)
LEMMA DigestIsNoMark ==
  ASSUME StageCommands # {}, NEW s
  PROVE  DigestOf(s) \notin {"none", "cut"}
<1>1. AnyCommand.prompt \notin {"none", "cut"}
  <2>1. AnyCommand \in StageCommands
    BY SameChunks
  <2> QED
    BY <2>1, Assumptions DEF Pipeline!StageAssumption, Pipeline!CommandType
<1> QED
  BY <1>1 DEF DigestOf

(* Every directory is untouched or was run in both modes, and is as all of *)
(* its layout and source.                                                  *)
LEMMA EveryRun ==
  ASSUME AtTheEnd, NEW k \in Pipeline!RunIds
  PROVE  /\ Untouched(k) \/ RanBoth(k)
         /\ Untouched(k) => ~Publishable(k)
         /\ RanBoth(k) => Publishable(k) /\ \A i \in ChunkIds : RanBoth(RunOf(k.layout, k.source, i))
         /\ run_dirs[k].metadata # "cut"
<1>1. PICK j \in ChunkIds : k = RunOf(k.layout, k.source, j)
  BY RunsOfOne DEF AtTheEnd
<1>2. RunsWhole(k.layout, k.source)
  BY DEF AtTheEnd, AllOK, Pipeline!RunIds
<1>3. Untouched(k) \/ RanBoth(k)
  BY <1>1, <1>2 DEF RunsWhole
<1>4. DigestOf(k.source) \notin {"none", "cut"}
  BY DigestIsNoMark DEF AtTheEnd
<1>5. WholeReportOf(k).state = "whole"
  BY Zenon DEF WholeReportOf
<1>6. Pipeline!NoReport.state = "none"
  BY DEF Pipeline!NoReport
<1>7. Untouched(k) => ~Publishable(k) /\ run_dirs[k].metadata # "cut"
  BY DEF Untouched, Publishable
<1>8. RanBoth(k) => Publishable(k) /\ run_dirs[k].metadata # "cut" /\ ~Untouched(k)
  BY <1>4, <1>5 DEF RanBoth, RanMode2, Publishable, Untouched
<1>9. RanBoth(k) => \A i \in ChunkIds : RanBoth(RunOf(k.layout, k.source, i))
  BY <1>1, <1>2, <1>8 DEF RunsWhole
<1> QED
  BY <1>3, <1>7, <1>8, <1>9

(* Published is one row for each chunk of one layout and source.           *)
LEMMA PublishedAtTheEnd ==
  ASSUME AtTheEnd
  PROVE  \E l \in Pipeline!Layouts, s \in Pipeline!Sources :
           /\ Pipeline!Published = {PublishedRow(RunOf(l, s, i)) : i \in ChunkIds}
           /\ \A i \in ChunkIds : RanBoth(RunOf(l, s, i))
<1> DEFINE all == Pipeline!candidates(run_dirs)
           listed == Pipeline!consolidate_hf_weight_functional(run_dirs)
<1>1. ~Pipeline!Raises(run_dirs)
  BY EveryRun DEF AtTheEnd, ReportsExact, Pipeline!Raises
<1>2. Pipeline!Published = listed
  BY <1>1 DEF Pipeline!Published
<1>3. PICK l \in Pipeline!Layouts, s \in Pipeline!Sources :
        listed = {c \in all : c.layout = l /\ c.source = s} /\ (all # {} => listed # {})
  BY OneLayoutAndSource DEF AtTheEnd
<1>4. /\ \A c \in all : \E k \in Pipeline!RunIds : Publishable(k) /\ c = PublishedRow(k)
      /\ \A k \in Pipeline!RunIds : Publishable(k) => PublishedRow(k) \in all
  BY CandidateRows DEF AtTheEnd
<1> HIDE DEF all, listed
<1>5. all # {}
  <2>1. PICK l2 \in Pipeline!Layouts, s2 \in Pipeline!Sources : RanBoth(RunOf(l2, s2, 1))
    BY SomeChunk DEF AtTheEnd
  <2>2. RunOf(l2, s2, 1) \in Pipeline!RunIds
    BY SomeChunk, NamesOf DEF AtTheEnd
  <2> QED
    BY <1>4, <2>1, <2>2, EveryRun
<1>6. PICK c \in listed : c \in all /\ c.layout = l /\ c.source = s
  BY <1>3, <1>5
<1>7. PICK k \in Pipeline!RunIds : Publishable(k) /\ c = PublishedRow(k)
  BY <1>4, <1>6
<1>8. \A i \in ChunkIds : RanBoth(RunOf(l, s, i))
  <2>1. k.layout = l /\ k.source = s
    BY <1>6, <1>7 DEF PublishedRow
  <2> QED
    BY <1>7, <2>1, EveryRun
<1>9. ASSUME NEW i \in ChunkIds
      PROVE  PublishedRow(RunOf(l, s, i)) \in listed
  <2>1. RunOf(l, s, i) \in Pipeline!RunIds /\ Publishable(RunOf(l, s, i))
    BY <1>8, NamesOf, EveryRun DEF AtTheEnd
  <2>2. PublishedRow(RunOf(l, s, i)).layout = l /\ PublishedRow(RunOf(l, s, i)).source = s
    BY DEF PublishedRow, RunOf
  <2> QED
    BY <1>3, <1>4, <2>1, <2>2
<1>10. ASSUME NEW d \in listed
       PROVE  \E i \in ChunkIds : d = PublishedRow(RunOf(l, s, i))
  <2>1. PICK p \in Pipeline!RunIds : d = PublishedRow(p)
    BY <1>3, <1>4
  <2>2. p.layout = l /\ p.source = s
    BY <1>3, <2>1 DEF PublishedRow
  <2> QED
    BY <2>1, <2>2, RunsOfOne DEF AtTheEnd
<1>11. listed = {PublishedRow(RunOf(l, s, i)) : i \in ChunkIds}
  BY <1>9, <1>10
<1> QED
  BY <1>2, <1>8, <1>11

(* The rows of all of a projection's chunks.                               *)
LEMMA AllRowsOnce ==
  ASSUME StageCommands # {}, NEW C, IsFiniteSet(C), NEW range,
         \A c \in C : range[c] \in Pipeline!Ranges,
         \A c, d \in C : c # d => range[c] # range[d],
         \A i \in ChunkIds : \E c \in C : range[c] = Chunks[i],
         NEW g, DOMAIN g = C, \A c \in C : g[c] = Pipeline!Size(range[c])
  PROVE  /\ UNION {Pipeline!RowsOf(range[c]) : c \in C} = 0 .. OutputRows - 1
         /\ Pipeline!SumFunction(g) = OutputRows
<1> DEFINE all == UNION {Pipeline!RowsOf(range[c]) : c \in C}
<1>1. Pipeline!SumFunction(g) = Cardinality(all)
  BY RangesAddUp
<1>2. \A c \in C : \E i \in ChunkIds : range[c] = Chunks[i]
  BY ChunksCut
<1>3. all = UNION {Pipeline!RowsOf(Chunks[i]) : i \in ChunkIds}
  BY <1>2
<1> HIDE DEF all
<1>4. all = 0 .. OutputRows - 1
  BY <1>3, ChunksCut
<1>5. OutputRows \in Nat \ {0}
  BY Assumptions DEF Pipeline!StageAssumption
<1>6. Cardinality(0 .. OutputRows - 1) = OutputRows
  BY <1>5, FS_Interval
<1> QED
  BY <1>1, <1>4, <1>6 DEF all
(* The functional aggregate is of all rows.                                *)
LEMMA FunctionalAtTheEnd ==
  ASSUME AtTheEnd
  PROVE  Pipeline!Functional.r_sum = OutputRows /\ Pipeline!Functional.stats.n = OutputRows
<1> DEFINE C == Pipeline!Published
           range == [c \in C |-> c.range]
           sizes == [c \in C |-> Pipeline!Size(c.range)]
<1>1. StageCommands # {} /\ ReportsExact
  BY DEF AtTheEnd
<1>2. PICK l \in Pipeline!Layouts, s \in Pipeline!Sources :
        /\ C = {PublishedRow(RunOf(l, s, i)) : i \in ChunkIds}
        /\ \A i \in ChunkIds : RanBoth(RunOf(l, s, i))
  BY PublishedAtTheEnd
<1>3. ASSUME NEW i \in ChunkIds
      PROVE  LET c == PublishedRow(RunOf(l, s, i))
             IN  /\ c.range = Chunks[i] /\ c.range \in Pipeline!Ranges
                 /\ c.stats.n = Pipeline!Size(c.range)
  <2> DEFINE k == RunOf(l, s, i)
             c == PublishedRow(k)
  <2>1. c.range = k.range /\ k.range = Chunks[i] /\ c.stats = run_dirs[k].report.stats
    BY DEF PublishedRow, RunOf
  <2>2. Chunks[i] \in Pipeline!Ranges
    BY <1>1, ChunksCut
  <2>3. run_dirs[k].report = WholeReportOf(k)
    BY <1>2 DEF RanBoth, RanMode2
  <2>4. WholeReportOf(k).stats = Pipeline!write_report(Ulp, Pipeline!RowsOf(k.range))
    BY Zenon DEF WholeReportOf
  <2>5. c.stats.n = Cardinality(Pipeline!RowsOf(k.range))
    BY <2>1, <2>3, <2>4, RowsCounted
  <2>6. Pipeline!Size(k.range) = Cardinality(Pipeline!RowsOf(k.range))
    BY <1>1, <2>1, <2>2, RangeRows
  <2> HIDE DEF k, c
  <2>7. c.range = Chunks[i] /\ c.range \in Pipeline!Ranges /\ c.stats.n = Pipeline!Size(c.range)
    BY <2>1, <2>2, <2>5, <2>6
  <2> QED
    BY <2>7 DEF c, k
<1>4. IsFiniteSet(C) /\ \A c, d \in C : c # d => c.range # d.range
  BY <1>1, PublishedRows
<1>5. /\ \A c \in C : range[c] = c.range
      /\ DOMAIN sizes = C /\ \A c \in C : sizes[c] = Pipeline!Size(c.range)
  OBVIOUS
<1>6. \A c \in C : c.range \in Pipeline!Ranges /\ c.stats.n = Pipeline!Size(c.range)
  BY <1>2, <1>3
<1>7. \A i \in ChunkIds : \E c \in C : c.range = Chunks[i]
  BY <1>2, <1>3
<1>8. /\ Pipeline!Functional.r_sum = Pipeline!SumFunction(sizes)
  BY DEF Pipeline!Functional, Pipeline!consolidate_hf_weight_functional_aggregate
<1>9. Pipeline!Functional.stats
        = Pipeline!write_report(Ulp, UNION {Pipeline!RowsOf(c.range) : c \in C})
  BY <1>1, <1>6, FunctionalIsReport
<1> HIDE DEF C
<1>10. {Pipeline!RowsOf(range[c]) : c \in C} = {Pipeline!RowsOf(c.range) : c \in C}
  BY <1>5
<1> HIDE DEF range, sizes
<1>11. /\ UNION {Pipeline!RowsOf(range[c]) : c \in C} = 0 .. OutputRows - 1
       /\ Pipeline!SumFunction(sizes) = OutputRows
  <2>1. \A c \in C : range[c] \in Pipeline!Ranges
    BY <1>5, <1>6
  <2>2. \A c, d \in C : c # d => range[c] # range[d]
    BY <1>4, <1>5
  <2>3. \A i \in ChunkIds : \E c \in C : range[c] = Chunks[i]
    BY <1>5, <1>7
  <2>4. \A c \in C : sizes[c] = Pipeline!Size(range[c])
    BY <1>5
  <2> QED
    BY <1>1, <1>4, <1>5, <2>1, <2>2, <2>3, <2>4, AllRowsOnce
<1>12. Pipeline!Functional.stats.n = Cardinality(0 .. OutputRows - 1)
  BY <1>9, <1>10, <1>11, RowsCounted
<1>13. Cardinality(0 .. OutputRows - 1) = OutputRows
  <2>1. OutputRows \in Nat \ {0}
    BY Assumptions DEF Pipeline!StageAssumption
  <2> QED
    BY <2>1, FS_Interval
<1> QED
  BY <1>8, <1>11, <1>12, <1>13

(* Every published run passed.                                             *)
LEMMA ModesAtTheEnd ==
  ASSUME StageCommands # {}, NEW l, NEW s, NEW i \in ChunkIds, RanBoth(RunOf(l, s, i))
  PROVE  Pipeline!result(run_dirs[PublishedRow(RunOf(l, s, i)).dir].mode1.cycles,
                         PublishedRow(RunOf(l, s, i)).cycles) = "PASS"
<1> DEFINE k == RunOf(l, s, i)
<1>1. PublishedRow(k).dir = k /\ PublishedRow(k).cycles = run_dirs[k].report.cycles
  BY DEF PublishedRow
<1>2. run_dirs[k].report = WholeReportOf(k) /\ run_dirs[k].mode1 = WholeMode1
  BY DEF RanBoth, RanMode2
<1>3. WholeReportOf(k).cycles = 100 /\ WholeMode1.cycles = 100
  BY Zenon DEF WholeReportOf, WholeMode1
<1> QED
  BY <1>1, <1>2, <1>3 DEF Pipeline!result

(* The timing has every chunk once, and its modes, which passed.           *)
LEMMA ComparedAtTheEnd ==
  ASSUME AtTheEnd
  PROVE  LET C == Pipeline!Comparison
         IN  /\ IsFiniteSet(C)
             /\ \A c \in C : c.case.range \in Pipeline!Ranges
             /\ \A c, d \in C : c # d => c.case.range # d.case.range
             /\ \A i \in ChunkIds : \E c \in C : c.case.range = Chunks[i]
             /\ \A c \in C : c.modes # {} /\ \A t \in c.modes : t.result = "PASS"
<1> DEFINE C == Pipeline!Comparison
           M == Pipeline!Modes
           CaseOf(p) == [source |-> p.source, range |-> p.range, digest |-> refs[p].digest,
                         gpu |-> refs[p].gpu]
           ModesOf(k) == {t \in M : Pipeline!SameCase(t.row, k)}
           whole == {p \in DOMAIN refs : refs[p].state = "whole"}
           Official(k) == M = {} \/ \E t \in M : Pipeline!SameCase(t.row, k)
           Mode(c) == [row |-> c, mode1 |-> run_dirs[c.dir].mode1.cycles, mode2 |-> c.cycles,
                       result |-> Pipeline!result(run_dirs[c.dir].mode1.cycles, c.cycles)]
<1>1. StageCommands # {} /\ DOMAIN refs = Pipeline!ReferenceIds /\ AllOK
  BY DEF AtTheEnd
<1>2. PICK l \in Pipeline!Layouts, s \in Pipeline!Sources :
        /\ Pipeline!Published = {PublishedRow(RunOf(l, s, i)) : i \in ChunkIds}
        /\ \A i \in ChunkIds : RanBoth(RunOf(l, s, i))
  BY PublishedAtTheEnd
<1>3. C = {[case |-> k, modes |-> ModesOf(k)] : k \in {k \in {CaseOf(p) : p \in whole} : Official(k)}}
  BY DEF Pipeline!Comparison, Pipeline!consolidate_reference_time
<1>4. M = {Mode(c) : c \in Pipeline!Published}
  BY DEF Pipeline!Modes, Pipeline!consolidate_tier2
<1> DEFINE ref(i) == RefOf(s, i)
           mode(i) == Mode(PublishedRow(RunOf(l, s, i)))
<1>5. M = {mode(i) : i \in ChunkIds}
  BY <1>2, <1>4
<1>6. ASSUME NEW i \in ChunkIds
      PROVE  /\ mode(i).result = "PASS"
             /\ mode(i).row.source = s /\ mode(i).row.range = Chunks[i] /\ mode(i).row.digest = DigestOf(s)
  <2> DEFINE k == RunOf(l, s, i)
             c == PublishedRow(k)
  <2>1. mode(i).row = c
    BY Zenon
  <2>2. c.source = s /\ c.range = Chunks[i] /\ c.digest = run_dirs[k].metadata /\ k.source = s
    BY DEF PublishedRow, RunOf
  <2>3. run_dirs[k].metadata = DigestOf(s)
    BY <1>2, <2>2 DEF RanBoth, RanMode2
  <2>4. Pipeline!result(run_dirs[c.dir].mode1.cycles, c.cycles) = "PASS"
    BY <1>1, <1>2, ModesAtTheEnd
  <2>5. mode(i).result = Pipeline!result(run_dirs[c.dir].mode1.cycles, c.cycles)
    BY Zenon
  <2> HIDE DEF c, Mode
  <2> QED
    BY <2>1, <2>2, <2>3, <2>4, <2>5
<1>7. ASSUME NEW i \in ChunkIds
      PROVE  /\ ref(i) \in whole /\ CaseOf(ref(i)).source = s /\ CaseOf(ref(i)).range = Chunks[i]
             /\ CaseOf(ref(i)).digest = DigestOf(s)
  <2>1. ref(i) \in Pipeline!ReferenceIds /\ RunOf(l, s, i) \in Pipeline!RunIds
    BY <1>1, NamesOf
  <2>2. Timed(ref(i))
    <3>1. ~Untouched(RunOf(l, s, i))
      BY <1>2, <2>1, EveryRun
    <3> QED
      BY <1>1, <3>1 DEF AllOK, RunsTimed
  <2>3. ref(i).source = s /\ ref(i).range = Chunks[i]
    BY DEF RefOf
  <2>4. refs[ref(i)].state = "whole" /\ refs[ref(i)].digest = DigestOf(s)
    BY <2>2, <2>3 DEF Timed
  <2> QED
    BY <1>1, <2>1, <2>3, <2>4
<1> HIDE DEF Mode, CaseOf, whole, M, C, ref, mode
<1>8. ASSUME NEW i \in ChunkIds
      PROVE  Pipeline!SameCase(mode(i).row, CaseOf(ref(i)))
  BY <1>6, <1>7 DEF Pipeline!SameCase
<1>9. ASSUME NEW i \in ChunkIds
      PROVE  \E c \in C : c.case.range = Chunks[i]
  <2> DEFINE k == CaseOf(ref(i))
             c == [case |-> k, modes |-> ModesOf(k)]
  <2>1. k \in {CaseOf(p) : p \in whole} /\ Official(k)
    BY <1>5, <1>7, <1>8
  <2>2. c \in C
    BY <1>3, <2>1
  <2>3. c.case.range = Chunks[i]
    BY <1>7
  <2> QED
    BY <2>2, <2>3
<1>10. ASSUME NEW c \in C
       PROVE  \E i \in ChunkIds : /\ c = [case |-> CaseOf(ref(i)), modes |-> ModesOf(CaseOf(ref(i)))]
                                  /\ c.case.range = Chunks[i]
  <2>1. PICK p \in whole : /\ c = [case |-> CaseOf(p), modes |-> ModesOf(CaseOf(p))]
                           /\ Official(CaseOf(p))
    BY <1>3
  <2>2. M # {}
    BY <1>1, <1>5, SomeChunk
  <2>3. PICK i \in ChunkIds : Pipeline!SameCase(mode(i).row, CaseOf(p))
    BY <1>5, <2>1, <2>2
  <2>4. CaseOf(p).source = s /\ CaseOf(p).range = Chunks[i]
    BY <1>6, <2>3 DEF Pipeline!SameCase
  <2>5. p \in Pipeline!ReferenceIds /\ p.source = s /\ p.range = Chunks[i]
    BY <1>1, <2>4 DEF whole, CaseOf
  <2>6. p = ref(i)
    BY <2>5 DEF ref, RefOf, Pipeline!ReferenceIds
  <2>7. c.case.range = Chunks[i]
    BY <2>1, <2>4
  <2> QED
    BY <2>1, <2>6, <2>7
<1>11. IsFiniteSet(C)
  <2> DEFINE f == [i \in ChunkIds |-> [case |-> CaseOf(ref(i)), modes |-> ModesOf(CaseOf(ref(i)))]]
             values == {f[i] : i \in ChunkIds}
  <2>1. C \in SUBSET values
    BY <1>10
  <2> HIDE DEF f
  <2>2. IsFiniteSet(values)
    BY <1>1, SomeChunk, ImageFinite
  <2> HIDE DEF values
  <2> QED
    BY <2>1, <2>2, FS_Subset
<1>12. \A c \in C : c.case.range \in Pipeline!Ranges
  BY <1>1, <1>10, ChunksCut
<1>13. ASSUME NEW c \in C, NEW d \in C, c.case.range = d.case.range
       PROVE  c = d
  <2>1. PICK i \in ChunkIds : /\ c = [case |-> CaseOf(ref(i)), modes |-> ModesOf(CaseOf(ref(i)))]
                              /\ c.case.range = Chunks[i]
    BY <1>10
  <2>2. PICK j \in ChunkIds : /\ d = [case |-> CaseOf(ref(j)), modes |-> ModesOf(CaseOf(ref(j)))]
                              /\ d.case.range = Chunks[j]
    BY <1>10
  <2>3. i = j
    BY <1>1, <1>13, <2>1, <2>2, ChunksCut
  <2> QED
    BY <2>1, <2>2, <2>3
<1>14. ASSUME NEW c \in C
       PROVE  c.modes # {} /\ \A t \in c.modes : t.result = "PASS"
  <2>1. PICK i \in ChunkIds : c = [case |-> CaseOf(ref(i)), modes |-> ModesOf(CaseOf(ref(i)))]
    BY <1>10
  <2>2. c.modes = ModesOf(CaseOf(ref(i)))
    BY <2>1
  <2>3. mode(i) \in c.modes
    BY <1>5, <1>8, <2>2
  <2>4. \A t \in M : t.result = "PASS"
    BY <1>5, <1>6
  <2> QED
    BY <2>2, <2>3, <2>4
<1> QED
  BY <1>9, <1>11, <1>12, <1>13, <1>14 DEF C
(* The timing aggregate is of all rows, on the CPU too, and it passes.     *)
LEMMA TimingAtTheEnd ==
  ASSUME AtTheEnd
  PROVE  /\ Pipeline!Timing.r_sum = OutputRows /\ Pipeline!Timing.cpu_sum = OutputRows
         /\ Pipeline!Timing.mode_cycle_result = "PASS"
<1> DEFINE C == Pipeline!Comparison
           range == [c \in C |-> c.case.range]
           sizes == [c \in C |-> Pipeline!Size(c.case.range)]
<1>1. /\ StageCommands # {} /\ IsFiniteSet(C)
      /\ \A c \in C : c.case.range \in Pipeline!Ranges
      /\ \A c, d \in C : c # d => c.case.range # d.case.range
      /\ \A i \in ChunkIds : \E c \in C : c.case.range = Chunks[i]
      /\ \A c \in C : c.modes # {} /\ \A t \in c.modes : t.result = "PASS"
  BY ComparedAtTheEnd DEF AtTheEnd
<1>2. /\ Pipeline!Timing.r_sum = Pipeline!SumFunction(sizes)
      /\ Pipeline!Timing.cpu_sum = Pipeline!SumFunction(sizes)
  BY DEF Pipeline!Timing, Pipeline!consolidate_reference_time_aggregate
<1>3. Pipeline!Timing.mode_cycle_result = "PASS"
  BY <1>1 DEF Pipeline!Timing, Pipeline!consolidate_reference_time_aggregate
<1> HIDE DEF C
<1>4. /\ \A c \in C : range[c] = c.case.range
      /\ DOMAIN sizes = C /\ \A c \in C : sizes[c] = Pipeline!Size(range[c])
  OBVIOUS
<1> HIDE DEF range, sizes
<1>5. \A c \in C : range[c] \in Pipeline!Ranges
  BY <1>1, <1>4
<1>6. \A c, d \in C : c # d => range[c] # range[d]
  BY <1>1, <1>4
<1>7. \A i \in ChunkIds : \E c \in C : range[c] = Chunks[i]
  BY <1>1, <1>4
<1>8. Pipeline!SumFunction(sizes) = OutputRows
  BY <1>1, <1>4, <1>5, <1>6, <1>7, AllRowsOnce
<1> QED
  BY <1>2, <1>3, <1>8

(* Whatever was run, interrupted and consolidated, in whatever state: the  *)
(* statistics of a projection (consolidate_hf_weight_functional_aggregate) *)
(* are those of its rows together, each once, unless a report was cut      *)
(* short.  Of a campaign that nothing interrupted and in which nothing     *)
(* failed they are, at the end of each invocation, those of all rows, all  *)
(* of them timed, and the projection passes.  That a campaign keeps its    *)
(* chunk size and its prompt is CampaignAssumption, evaluated in Campaign. *)
THEOREM AggregatesAreWhole == ExperimentsSpec => []AggregateIsTheWhole
<1>1. CampaignInv => AggregateIsTheWhole
  <2> SUFFICES ASSUME CampaignInv, program = "pipeline" PROVE Pipeline!AggregateIsTheWhole
    BY DEF AggregateIsTheWhole
  <2>1. StageCommands # {} /\ ReportsExact /\ DOMAIN refs = Pipeline!ReferenceIds /\ CampaignOK
    BY DEF CampaignInv, EInv, PlaceInRanges
  <2>2. (\A c \in Pipeline!Published : c.stats.n = Pipeline!Size(c.range)) =>
          Pipeline!Functional.stats
            = Pipeline!write_report(Ulp, UNION {Pipeline!RowsOf(c.range) : c \in Pipeline!Published})
    BY <2>1, FunctionalIsReport
  <2>3. ASSUME stage_pc = "done", kills = 0, faults = 0
        PROVE  AtTheEnd
    <3>1. InCampaign /\ chunk = Len(Chunks)
      BY <2>1, <2>3 DEF CampaignOK
    <3>2. /\ AllOK
          /\ \A i \in ChunkIds : RanBoth(RunOf(stage_cmd.layout, stage_cmd.source, i))
      BY <2>3, <3>1, AllOKWhenDone
    <3>3. stage_cmd.layout \in Pipeline!Layouts /\ stage_cmd.source \in Pipeline!Sources
      BY <3>1, CurrentNames DEF InCampaign
    <3> QED
      BY <2>1, <3>2, <3>3 DEF AtTheEnd
  <2> QED
    BY <2>2, <2>3, FunctionalAtTheEnd, TimingAtTheEnd DEF Pipeline!AggregateIsTheWhole
<1>2. ExperimentsSpec => []CampaignInv
  BY CampaignInductive, PTL DEF ExperimentsSpec
<1> QED
  BY <1>1, <1>2, PTL
=============================================================================
