--------------------------- MODULE StagePipeline ---------------------------
(***************************************************************************)
(* run_summer26_hf_stage5_7.py and the two programs it starts: every chunk *)
(* of a projection is simulated (stage 5), timed in Mode 1 (stage 6) and   *)
(* on the CPU and GPU (stage 7).  What exists on disk is skipped, so a     *)
(* campaign of several invocations, some interrupted, adds up; Consolidate *)
(* says what its files amount to at any time.                              *)
(*                                                                         *)
(* A file between the program's open and close is "empty" or "cut": that   *)
(* is what an interruption leaves of it.                                   *)
(***************************************************************************)
EXTENDS Consolidate, SequencesExt

CONSTANTS R,           \* output rows of the projection
          Ulp,         \* row -> distance of its RTL result from the CPU's
          Commands,    \* invocations, records as in CommandType
          MaxLaunches, MaxKills, MaxFaults  \* bounds on a campaign

Layouts == {"broadcast", "row_sharded"}
Sources == {"random_bf16", "prompt_hash_bf16"}

(* A prompt is its digest, "none" and "cut" are what a file can be.        *)
CommandType == [chunk_rows : Nat \ {0}, layout : Layouts, source : Sources,
                prompt : STRING \ {"none", "cut"},
                force5 : BOOLEAN, force_mode1 : BOOLEAN, force_reference : BOOLEAN]

StageAssumption ==
  /\ R \in Nat \ {0} /\ Ulp \in [0 .. R - 1 -> Nat] /\ Commands \subseteq CommandType
  /\ MaxLaunches \in Nat /\ MaxKills \in Nat /\ MaxFaults \in Nat

(* A campaign is of one projection: its invocations cut it into the same   *)
(* chunks and activate it with the same prompt, though neither is checked. *)
CampaignAssumption ==
  \A c, d \in Commands : c.chunk_rows = d.chunk_rows /\ c.prompt = d.prompt

VARIABLES cmd, pc, chunk,      \* the invocation, where it is, its chunk's number
          runs, refs,          \* the files
          launches, kills, faults

files == <<runs, refs>>
bounds == <<launches, kills, faults>>
vars == <<cmd, pc, chunk, files, bounds>>

(* chunk_ranges: chunk_rows rows each, the last one what is left.          *)
chunk_ranges(r, chunk_rows) ==
  IF r <= chunk_rows THEN <<<<0, r>>>>
  ELSE [i \in 1 .. (r + chunk_rows - 1) \div chunk_rows |->
          <<(i - 1) * chunk_rows, Min({r, i * chunk_rows})>>]

RangesOf(c) == chunk_ranges(R, c.chunk_rows)
Ranges == UNION {{RangesOf(c)[i] : i \in DOMAIN RangesOf(c)} : c \in Commands}

(* The prompt file is hashed, but the run's name says only that it was.    *)
Digest(c) == IF c.source = "prompt_hash_bf16" THEN c.prompt ELSE "seed42"

(* run_id, and the name of the reference file: neither has the prompt.     *)
run_id == [layout |-> cmd.layout, source |-> cmd.source, range |-> RangesOf(cmd)[chunk]]
reference_id == [source |-> cmd.source, range |-> RangesOf(cmd)[chunk]]

RunIds == [layout : Layouts, source : Sources, range : Ranges]
ReferenceIds == [source : Sources, range : Ranges]

(* Memory cycles of the simulator on a trace; another trace, other cycles. *)
Cycles(trace) == IF trace = "whole" THEN 100 ELSE 7

NoMode1 == [exists |-> FALSE, cycles |-> 0, wall |-> FALSE]
NoRef == [state |-> "none", digest |-> "", gpu |-> FALSE]

Init ==
  /\ cmd \in Commands /\ pc = "idle" /\ chunk = 1
  /\ runs = [k \in RunIds |-> [trace |-> "none", metadata |-> "none",
                               report |-> NoReport, mode1 |-> NoMode1]]
  /\ refs = [k \in ReferenceIds |-> NoRef]
  /\ launches = 0 /\ kills = 0 /\ faults = 0

Running == pc \notin {"idle", "failed", "done"}

(* main is started, again or with other options.                           *)
Launch ==
  /\ ~Running /\ launches < MaxLaunches
  /\ cmd' \in Commands
  /\ pc' = "stage5" /\ chunk' = 1 /\ launches' = launches + 1
  /\ UNCHANGED <<files, kills, faults>>

Goto(label) == pc' = label /\ UNCHANGED <<cmd, chunk>>
Put(k, field, value) == runs' = [runs EXCEPT ![k][field] = value]

---------------------------------------------------------------------------
(* Stage 5: run_hf_weight_projection.py, unless there is a report.         *)

SkipStage5 ==
  /\ pc = "stage5" /\ runs[run_id].report.state # "none" /\ ~cmd.force5
  /\ Goto("stage6") /\ UNCHANGED <<files, bounds>>

OpenTrace ==
  /\ pc = "stage5" /\ (runs[run_id].report.state = "none" \/ cmd.force5)
  /\ Put(run_id, "trace", "cut") /\ Goto("trace") /\ UNCHANGED <<refs, bounds>>

WriteTrace ==
  /\ pc = "trace" /\ Put(run_id, "trace", "whole") /\ Goto("metadata")
  /\ UNCHANGED <<refs, bounds>>

OpenMetadata ==
  /\ pc = "metadata" /\ Put(run_id, "metadata", "cut") /\ Goto("describe")
  /\ UNCHANGED <<refs, bounds>>

WriteMetadata ==
  /\ pc = "describe" /\ Put(run_id, "metadata", Digest(cmd)) /\ Goto("simulate")
  /\ UNCHANGED <<refs, bounds>>

(* The simulation returns 0 and its results parse; the report is opened.   *)
Simulate ==
  /\ pc = "simulate" /\ Put(run_id, "report", EmptyReport) /\ Goto("report")
  /\ UNCHANGED <<refs, bounds>>

WriteReport ==
  /\ pc = "report"
  /\ Put(run_id, "report",
         [state |-> "whole", digest |-> Digest(cmd), cycles |-> Cycles("whole"),
          stats |-> write_report(Ulp, RangesOf(cmd)[chunk][1] .. RangesOf(cmd)[chunk][2] - 1)])
  /\ Goto("stage6") /\ UNCHANGED <<refs, bounds>>

---------------------------------------------------------------------------
(* Stage 6: the trace in Mode 1.                                           *)

Skipped6 == runs[run_id].mode1.exists /\ runs[run_id].mode1.wall /\ ~cmd.force_mode1

(* Mutant: a Mode 1 output without cycles is an error. *)
MutSkipStage6 ==
  /\ pc = "stage6" /\ Skipped6
  /\ Goto(IF runs[run_id].mode1.cycles = 0 THEN "failed" ELSE "stage7")
  /\ UNCHANGED <<files, bounds>>

SkipStage6 ==
  /\ pc = "stage6" /\ Skipped6
  /\ Goto("stage7") /\ UNCHANGED <<files, bounds>>

(* run_checked opens mode1.txt for the simulator to write to.              *)
OpenMode1 ==
  /\ pc = "stage6" /\ ~Skipped6 /\ runs[run_id].trace # "none"
  /\ Put(run_id, "mode1", [exists |-> TRUE, cycles |-> 0, wall |-> runs[run_id].mode1.wall])
  /\ Goto("mode1") /\ UNCHANGED <<refs, bounds>>

(* It ends, with its cycles or with an error; the wall time is written     *)
(* either way, and only then is the return code looked at.                 *)
RunMode1 ==
  /\ pc = "mode1" /\ Goto("wall")
  /\ \/ /\ Put(run_id, "mode1", [runs[run_id].mode1 EXCEPT !.cycles = Cycles(runs[run_id].trace)])
        /\ UNCHANGED faults
     \/ /\ faults < MaxFaults /\ faults' = faults + 1 /\ UNCHANGED runs
  /\ UNCHANGED <<refs, launches, kills>>

WriteWall ==
  /\ pc = "wall"
  /\ Put(run_id, "mode1", [runs[run_id].mode1 EXCEPT !.wall = TRUE])
  /\ Goto(IF runs[run_id].mode1.cycles = 0 THEN "failed" ELSE "stage7")
  /\ UNCHANGED <<refs, bounds>>

---------------------------------------------------------------------------
(* Stage 7: benchmark_hf_weight_reference.py, unless there is its output.  *)

SkipStage7 ==
  /\ pc = "stage7" /\ refs[reference_id].state # "none" /\ ~cmd.force_reference
  /\ Goto("next") /\ UNCHANGED <<files, bounds>>

(* The CPU and the GPU are timed, then the output is opened.               *)
OpenReference ==
  /\ pc = "stage7" /\ (refs[reference_id].state = "none" \/ cmd.force_reference)
  /\ refs' = [refs EXCEPT ![reference_id] = [NoRef EXCEPT !.state = "empty"]]
  /\ Goto("reference") /\ UNCHANGED <<runs, bounds>>

(* benchmark_gpu: a GPU that is not available is a row without times.      *)
WriteReference ==
  /\ pc = "reference"
  /\ \E available \in BOOLEAN :
       refs' = [refs EXCEPT ![reference_id] =
                  [state |-> "whole", digest |-> Digest(cmd), gpu |-> available]]
  /\ Goto("next") /\ UNCHANGED <<runs, bounds>>

(* The next chunk, or "[done] ... complete".                               *)
NextChunk ==
  /\ pc = "next"
  /\ IF chunk < Len(RangesOf(cmd)) THEN pc' = "stage5" /\ chunk' = chunk + 1
                                   ELSE pc' = "done" /\ UNCHANGED chunk
  /\ UNCHANGED <<cmd, files, bounds>>

---------------------------------------------------------------------------
(* A program that fails makes the driver raise; an interruption stops both. *)

ProgramFails ==
  /\ pc \in {"simulate", "stage5", "stage7"} /\ faults < MaxFaults
  /\ pc = "stage5" => runs[run_id].report.state = "none" \/ cmd.force5
  /\ pc = "stage7" => refs[reference_id].state = "none" \/ cmd.force_reference
  /\ faults' = faults + 1 /\ Goto("failed") /\ UNCHANGED <<files, launches, kills>>

Kill ==
  /\ Running /\ kills < MaxKills /\ kills' = kills + 1
  /\ Goto("idle") /\ UNCHANGED <<files, launches, faults>>

Step == \/ SkipStage5 \/ OpenTrace \/ WriteTrace \/ OpenMetadata \/ WriteMetadata
        \/ Simulate \/ WriteReport
        \/ SkipStage6 \/ OpenMode1 \/ RunMode1 \/ WriteWall
        \/ SkipStage7 \/ OpenReference \/ WriteReference \/ NextChunk

Next == Launch \/ Step \/ ProgramFails \/ Kill

(* The operating system runs the programs, and the experimenter starts the *)
(* driver again until it is done.                                          *)
Fairness == WF_vars(Step) /\ WF_vars(Launch)

Spec == Init /\ [][Next]_vars /\ Fairness

---------------------------------------------------------------------------
(* What a consolidation at this moment publishes.                          *)

Published == IF Raises(runs) THEN {} ELSE consolidate_hf_weight_functional(runs)
Modes == consolidate_tier2(runs, Published)
Comparison == consolidate_reference_time(refs, Modes)
Functional == consolidate_hf_weight_functional_aggregate(Published)
Timing == consolidate_reference_time_aggregate(Comparison)

RowsOf(range) == range[1] .. range[2] - 1

(* The statistics added up over chunks are those of all their rows         *)
(* together, each row once, whatever layouts and activations the campaign  *)
(* ran before, when none of the reports was cut short.  If nothing was     *)
(* interrupted or failed, those are all rows of the projection at the end. *)
AggregateIsTheWhole ==
  /\ (\A c \in Published : c.stats.n = Size(c.range)) =>
       Functional.stats = write_report(Ulp, UNION {RowsOf(c.range) : c \in Published})
  /\ pc = "done" /\ kills = 0 /\ faults = 0 =>
       /\ Functional.r_sum = R /\ Functional.stats.n = R
       /\ Timing.r_sum = R /\ Timing.cpu_sum = R /\ Timing.mode_cycle_result = "PASS"

(* A projection that passes had, for each of its rows, a Mode 2 run that   *)
(* reported and a Mode 1 run of the same trace that ended.                 *)
PassIsEarned ==
  Timing.mode_cycle_result = "PASS" =>
    \A c \in Comparison : \E t \in Modes :
      /\ SameCase(t.row, c.case)
      /\ t.row.stats.n = Size(t.row.range)
      /\ t.mode1 = Cycles("whole") /\ t.mode2 = Cycles("whole")

(* The driver's last invocation was complete.                              *)
Completed == pc = "done"
=============================================================================
