--------------------------- MODULE FigureCoverage ---------------------------
(***************************************************************************)
(* generate_summer26_llm_figures.py: the published rows are measured again *)
(* on the GPU, the measurements are kept in two files and reused, and the  *)
(* figures are drawn if the tables cover every case.  The campaign behind  *)
(* the tables goes on between two invocations.                             *)
(*                                                                         *)
(* A case is a model and a projection; a run is one chunk of it.  What a   *)
(* run's files hold is its version, a report that was cut its first part.  *)
(***************************************************************************)
EXTENDS Integers, Sequences, Functions

CONSTANTS RunOrder,    \* the runs, in the order of the summary
          CaseOf,      \* run -> case
          Expected,    \* the cases of MODEL_ORDER and PROJECTION_ORDER
          Elements,    \* output elements of a run
          MaxVersion, MaxLaunches  \* bounds on the campaign

Runs == Range(RunOrder)

FigureAssumption ==
  /\ CaseOf \in [Runs -> Expected] /\ IsInjective(RunOrder)
  /\ Elements \in Nat \ {0} /\ MaxVersion \in Nat /\ MaxLaunches \in Nat

VARIABLES published,   \* run -> [version, elements, result], version 0: no row
          pc, force, launches,
          torch_rows, cupy_rows,   \* what this invocation works with
          torch_file, cupy_file,   \* the supplemental summaries on disk
          verdict

memory == <<torch_rows, cupy_rows>>
stored == <<torch_file, cupy_file>>
vars == <<published, pc, force, launches, memory, stored, verdict>>

Functional == {k \in Runs : published[k].version > 0}
Nothing == [k \in {} |-> {}]

(* A file, what was published when it was opened last (of), and whether it *)
(* was written to its end since.                                           *)
NoFile == [exists |-> FALSE, rows |-> Nothing, of |-> {}, whole |-> FALSE]
Opened == [exists |-> TRUE, rows |-> Nothing, of |-> Functional, whole |-> FALSE]
Left(f, rows, whole) == [exists |-> TRUE, rows |-> rows, of |-> f.of, whole |-> whole]

Init ==
  /\ published = [k \in Runs |-> [version |-> 0, elements |-> 0, result |-> "PASS"]]
  /\ pc = "idle" /\ force = FALSE /\ launches = 0
  /\ torch_rows = Nothing /\ cupy_rows = Nothing
  /\ torch_file = NoFile /\ cupy_file = NoFile /\ verdict = "none"

(* A run of the campaign was consolidated, its report whole or cut.        *)
Publish ==
  /\ pc \in {"idle", "done"}
  /\ \E k \in Runs, n \in {0, Elements}, result \in {"PASS", "MISMATCH"} :
       /\ published[k].version < MaxVersion
       /\ published' = [published EXCEPT ![k] =
            [version |-> @.version + 1, elements |-> n, result |-> result]]
  /\ pc' = "idle" /\ UNCHANGED <<force, launches, memory, stored, verdict>>

Launch ==
  /\ pc \in {"idle", "done"} /\ launches < MaxLaunches /\ launches' = launches + 1
  /\ force' \in BOOLEAN /\ pc' = "measure" /\ verdict' = "none"
  /\ torch_rows' = Nothing /\ cupy_rows' = Nothing /\ UNCHANGED <<published, stored>>

---------------------------------------------------------------------------
(* generate_supplemental_rows.                                             *)

BothExist == torch_file.exists /\ cupy_file.exists

(* Mutant: the files are reused whenever both are there. *)
Mut_Reusable == BothExist /\ DOMAIN torch_file.rows # {}

Reusable == BothExist /\ ~force /\ DOMAIN torch_file.rows # {}

UseCached ==
  /\ pc = "measure" /\ Reusable
  /\ torch_rows' = torch_file.rows /\ cupy_rows' = cupy_file.rows
  /\ pc' = "validate" /\ UNCHANGED <<published, force, launches, stored, verdict>>

(* The GPU's result of the run's operands against the CPU's and the RTL's: *)
(* compare_bits refuses arrays of different lengths, torch a missing GPU,  *)
(* and either exception is the row's status.                               *)
torch_row(k, gpu) ==
  LET ok == gpu /\ published[k].elements = Elements
  IN  [version |-> published[k].version, den |-> IF ok THEN Elements ELSE 0,
       status |-> IF ok THEN "ok" ELSE "unavailable"]

(* A timing of an earlier invocation is kept, unless it was forced away.   *)
cupy_row(k, gpu) ==
  IF BothExist /\ ~force /\ k \in DOMAIN cupy_file.rows THEN cupy_file.rows[k]
  ELSE [version |-> published[k].version, status |-> IF gpu THEN "ok" ELSE "unavailable"]

Measure ==
  /\ pc = "measure" /\ ~Reusable
  /\ \E gpu \in BOOLEAN :
       /\ torch_rows' = [k \in Functional |-> torch_row(k, gpu)]
       /\ cupy_rows' = [k \in Functional |-> cupy_row(k, gpu)]
  /\ pc' = "write torch" /\ UNCHANGED <<published, force, launches, stored, verdict>>

(* A run whose operands or results cannot be loaded, before either of them *)
(* is tried, ends the invocation.                                          *)
LoadFails ==
  /\ pc = "measure" /\ ~Reusable /\ Functional # {} /\ pc' = "idle"
  /\ UNCHANGED <<published, force, launches, memory, stored, verdict>>

(* Each file is opened, which empties it, filled and closed.               *)
OpenTorch ==
  /\ pc = "write torch" /\ torch_file' = Opened
  /\ pc' = "torch" /\ UNCHANGED <<published, force, launches, memory, cupy_file, verdict>>
CloseTorch ==
  /\ pc = "torch" /\ torch_file' = Left(torch_file, torch_rows, TRUE)
  /\ pc' = "write cupy" /\ UNCHANGED <<published, force, launches, memory, cupy_file, verdict>>
OpenCupy ==
  /\ pc = "write cupy" /\ cupy_file' = Opened
  /\ pc' = "cupy" /\ UNCHANGED <<published, force, launches, memory, torch_file, verdict>>
CloseCupy ==
  /\ pc = "cupy" /\ cupy_file' = Left(cupy_file, cupy_rows, TRUE)
  /\ pc' = "validate" /\ UNCHANGED <<published, force, launches, memory, torch_file, verdict>>

(* An interruption; of a file being filled a prefix of its rows remains,   *)
(* and perhaps the next row up to some column: before the result it says   *)
(* as much as "unavailable", within its numbers it cannot be converted.    *)
Prefixed(rows, n) ==
  [k \in DOMAIN rows \intersect {RunOrder[i] : i \in 1 .. n} |-> rows[k]]
CutInRow(rows, n, as) == [Prefixed(rows, n) EXCEPT ![RunOrder[n]].status = as]
Remains(rows) ==
  LET last == {n \in 1 .. Len(RunOrder) : RunOrder[n] \in DOMAIN rows}
  IN  {Prefixed(rows, n) : n \in 0 .. Len(RunOrder)}
        \union {CutInRow(rows, n, "unavailable") : n \in last}
        \union {CutInRow(rows, n, "cut") : n \in last}

Kill ==
  /\ pc \notin {"idle", "done"} /\ pc' = "idle"
  /\ torch_rows' = Nothing /\ cupy_rows' = Nothing
  /\ \/ UNCHANGED stored
     \/ /\ pc = "torch" /\ UNCHANGED cupy_file
        /\ \E left \in Remains(torch_rows) : torch_file' = Left(torch_file, left, FALSE)
     \/ /\ pc = "cupy" /\ UNCHANGED torch_file
        /\ \E left \in Remains(cupy_rows) : cupy_file' = Left(cupy_file, left, FALSE)
  /\ UNCHANGED <<published, force, launches, verdict>>

---------------------------------------------------------------------------
(* Aggregates per case and the coverage they must have.                    *)

RowsOfCase(rows, c) == {k \in DOMAIN rows : CaseOf[k] = c}
CasesOf(rows) == {CaseOf[k] : k \in DOMAIN rows}

(* aggregate_torch_rows and aggregate_cupy_rows: a row without a result    *)
(* makes its case one that is missing; one cut within its numbers raises.  *)
CanAggregate(rows) == \A k \in DOMAIN rows : rows[k].status # "cut"

status(rows, c) ==
  IF \A k \in RowsOfCase(rows, c) : rows[k].status = "ok" THEN "ok" ELSE "missing"

(* validate_coverage of the four tables, of which the first two are made   *)
(* of the published rows.                                                  *)
validate_coverage ==
  LET functional == {CaseOf[k] : k \in Functional}
  IN  /\ functional = Expected
      /\ CasesOf(torch_rows) = Expected /\ CasesOf(cupy_rows) = Expected
      /\ \A k \in Functional : published[k].result = "PASS"
      /\ \A c \in Expected : status(torch_rows, c) = "ok" /\ status(cupy_rows, c) = "ok"

(* The report says FAIL and nothing is drawn, or the figures are; without  *)
(* aggregates there is no report either.                                   *)
Validate ==
  /\ pc = "validate"
  /\ IF CanAggregate(torch_rows) /\ CanAggregate(cupy_rows)
     THEN pc' = "done" /\ verdict' = IF validate_coverage THEN "PASS" ELSE "FAIL"
     ELSE pc' = "idle" /\ UNCHANGED verdict
  /\ UNCHANGED <<published, force, launches, memory, stored>>

Next == \/ Publish \/ Launch \/ UseCached \/ Measure \/ LoadFails
        \/ OpenTorch \/ CloseTorch \/ OpenCupy \/ CloseCupy \/ Validate \/ Kill

Spec == Init /\ [][Next]_vars

---------------------------------------------------------------------------

(* Figures are drawn of tables in which no row lacks its result, measured  *)
(* in this or an earlier invocation, and of every run that was published   *)
(* when a table was written, if it was written to its end: one that an     *)
(* interruption cut between two chunks of a projection is taken as well.   *)
(* With --force they are of the tables as they are: every published run,   *)
(* and its latest results.                                                 *)
PassIsMeasured ==
  verdict = "PASS" =>
    /\ \A k \in DOMAIN torch_rows : torch_rows[k].den = Elements
    /\ \A k \in DOMAIN cupy_rows : cupy_rows[k].status = "ok"
    /\ torch_file.whole => DOMAIN torch_rows = torch_file.of
    /\ cupy_file.whole => DOMAIN cupy_rows = cupy_file.of
    /\ pc = "done" /\ force =>
         /\ DOMAIN torch_rows = Functional /\ DOMAIN cupy_rows = Functional
         /\ \A k \in Functional : /\ torch_rows[k].version = published[k].version
                                  /\ cupy_rows[k].version = published[k].version
=============================================================================
