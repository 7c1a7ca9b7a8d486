---------------------------- MODULE Consolidate ----------------------------
(***************************************************************************)
(* consolidate_summer26_results.py: what the summaries say of the files    *)
(* that the projection experiments left on disk.                           *)
(*                                                                         *)
(* runs maps a run directory, named by layout, activation source and row   *)
(* range, to its files; refs maps source and range to the CPU/GPU timing.  *)
(* One model and one projection group, so an aggregate is one record.      *)
(* Cycle counts are numbers, 0 for a field that is absent or empty; a time *)
(* is the number of output rows it was measured on.                        *)
(***************************************************************************)
EXTENDS Integers, Sequences, FiniteSets, FiniteSetsExt, Functions

NoStats == [n |-> 0, exact |-> 0, within_1 |-> 0, max_ulp |-> 0, sum_ulp |-> 0]

(* What write_report computes of the elements of one run, whose distances  *)
(* from the CPU reference are ulp[i] for i in rows.  sum_ulp is n times    *)
(* the average it writes.                                                  *)
write_report(ulp, rows) ==
  [n |-> Cardinality(rows),
   exact |-> Cardinality({i \in rows : ulp[i] = 0}),
   within_1 |-> Cardinality({i \in rows : ulp[i] <= 1}),
   max_ulp |-> Max({ulp[i] : i \in rows} \union {0}),
   sum_ulp |-> SumFunctionOnSet(ulp, rows)]

(* A report file: "empty" was cut before its comments reached the disk.    *)
NoReport == [state |-> "none", digest |-> "", cycles |-> 0, stats |-> NoStats]
EmptyReport == [NoReport EXCEPT !.state = "empty"]

Size(range) == range[2] - range[1]

---------------------------------------------------------------------------
(* Functional results.                                                     *)

(* The directories with metadata and a report; the statistics are those    *)
(* of the report's comments, everything else is the metadata's.            *)
candidates(runs) ==
  {[layout |-> k.layout, source |-> k.source, range |-> k.range,
    digest |-> runs[k].metadata, measured |-> runs[k].report.digest,
    cycles |-> runs[k].report.cycles, stats |-> runs[k].report.stats,
    dir |-> k] :
   k \in {k \in DOMAIN runs : runs[k].metadata # "none" /\ runs[k].report.state # "none"}}

(* json.loads refuses metadata that was cut.                               *)
Raises(runs) ==
  \E k \in DOMAIN runs : runs[k].metadata = "cut" /\ runs[k].report.state # "none"

SameCase(c, d) == c.source = d.source /\ c.range = d.range /\ c.digest = d.digest

(* One row per case, the row-sharded run if there is one; then only the    *)
(* row-sharded rows if there are any, then only those with a prompt.       *)
consolidate_hf_weight_functional(runs) ==
  LET Sharded(c) == c.layout = "row_sharded"
      Prompted(c) == c.source = "prompt_hash_bf16"
      by_case == {c \in candidates(runs) :
                    Sharded(c) \/ ~\E d \in candidates(runs) : SameCase(c, d) /\ Sharded(d)}
      sharded == IF \E c \in by_case : Sharded(c) THEN {c \in by_case : Sharded(c)} ELSE by_case
  IN  IF \E c \in sharded : Prompted(c) THEN {c \in sharded : Prompted(c)} ELSE sharded

(* Mutant: the largest distances of the chunks are added up. *)
Mut_aggregate(rows) ==
  [r_sum |-> SumFunction([c \in rows |-> Size(c.range)]),
   execution_rows |-> Cardinality(rows),
   cycles |-> SumFunction([c \in rows |-> c.cycles]),
   stats |->
     [n |-> SumFunction([c \in rows |-> c.stats.n]),
      exact |-> SumFunction([c \in rows |-> c.stats.exact]),
      within_1 |-> SumFunction([c \in rows |-> c.stats.within_1]),
      max_ulp |-> SumFunction([c \in rows |-> c.stats.max_ulp]),
      sum_ulp |-> SumFunction([c \in rows |-> c.stats.sum_ulp])]]

(* The rows of the projection added up; the average is weighted by the     *)
(* number of elements of each.                                             *)
consolidate_hf_weight_functional_aggregate(rows) ==
  [r_sum |-> SumFunction([c \in rows |-> Size(c.range)]),
   execution_rows |-> Cardinality(rows),
   cycles |-> SumFunction([c \in rows |-> c.cycles]),
   stats |-> [n |-> SumFunction([c \in rows |-> c.stats.n]),
              exact |-> SumFunction([c \in rows |-> c.stats.exact]),
              within_1 |-> SumFunction([c \in rows |-> c.stats.within_1]),
              max_ulp |-> Max({c.stats.max_ulp : c \in rows} \union {0}),
              sum_ulp |-> SumFunction([c \in rows |-> c.stats.sum_ulp])]]

---------------------------------------------------------------------------
(* Cycles and times.                                                       *)

(* Mutant: two absent cycle counts are equal. *)
Mut_result(mode1_cycles, mode2_cycles) ==
  IF mode1_cycles = mode2_cycles THEN "PASS" ELSE "MODE1_MISSING_OR_MISMATCH"

result(mode1_cycles, mode2_cycles) ==
  IF mode1_cycles # 0 /\ mode1_cycles = mode2_cycles
  THEN "PASS" ELSE "MODE1_MISSING_OR_MISMATCH"

(* The Mode1 and the Mode2 row of every functional row, as one record.     *)
consolidate_tier2(runs, rows) ==
  {[row |-> c, mode1 |-> runs[c.dir].mode1.cycles, mode2 |-> c.cycles,
    result |-> result(runs[c.dir].mode1.cycles, c.cycles)] : c \in rows}

(* The timed cases: those of the published rows, all if there are none;    *)
(* with each the mode rows of the same case.                               *)
consolidate_reference_time(refs, tier2) ==
  LET Official(k) == tier2 = {} \/ \E t \in tier2 : SameCase(t.row, k)
      Timed == {k \in {[source |-> p.source, range |-> p.range, digest |-> refs[p].digest,
                        gpu |-> refs[p].gpu] :
                       p \in {p \in DOMAIN refs : refs[p].state = "whole"}} : Official(k)}
      ModesOf(k) == {t \in tier2 : SameCase(t.row, k)}
  IN  {[case |-> k, modes |-> ModesOf(k)] : k \in Timed}

(* Their sums; PASS unless one of the rows is not.                         *)
consolidate_reference_time_aggregate(comparison) ==
  [r_sum |-> SumFunction([c \in comparison |-> Size(c.case.range)]),
   cpu_sum |-> SumFunction([c \in comparison |-> Size(c.case.range)]),
   gpu_sum |-> SumFunction([c \in comparison |-> IF c.case.gpu THEN Size(c.case.range) ELSE 0]),
   mode_cycle_result |->
     IF \A c \in comparison : c.modes # {} /\ \A t \in c.modes : t.result = "PASS"
     THEN "PASS" ELSE "MODE1_MISSING_OR_MISMATCH"]
=============================================================================
