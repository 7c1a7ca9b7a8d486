----------------------------- MODULE MCFigures -----------------------------
(***************************************************************************)
(* generate_summer26_llm_figures.py for TLC: its supplemental measurements *)
(* and its element tables in ULP.  In these models they share no state, so *)
(* a behaviour follows one of them, the other rests where it began: part   *)
(* says which.                                                             *)
(***************************************************************************)
EXTENDS Bf16Ulp

CONSTANTS RunOrder, CaseOf, Expected, Elements, MaxVersion, MaxLaunches, Q1, K1, K2, Q, K

VARIABLES part, published, pc, force, launches, torch_rows, cupy_rows, torch_file, cupy_file, verdict

Figures == INSTANCE FigureCoverage

ASSUME Assumption == Figures!FigureAssumption

(* One projection in one piece, the other in two chunks.                   *)
MCRunOrder == <<Q1, K1, K2>>
MCCaseOf == [k \in {Q1, K1, K2} |-> IF k = Q1 THEN Q ELSE K]

(* Four bits: around both zeros, the largest finite number, infinity, NaN. *)
MCResults == {0, 1, 2, 5, 6, 7, 8, 9, 13}
MCReferences == {0, 1, 3, 11, 14, 17, 19, 31}

figures == <<published, pc, force, launches, torch_rows, cupy_rows, torch_file, cupy_file, verdict>>

FiguresInit ==
  /\ part \in {"measurements", "tables"} /\ Figures!Init /\ Init
  /\ part = "measurements" => stage = "pre_activation"

FiguresNext ==
  \/ part = "measurements" /\ Figures!Next /\ UNCHANGED <<part, vars>>
  \/ part = "tables" /\ Next /\ UNCHANGED <<part, figures>>

FiguresSpec == FiguresInit /\ [][FiguresNext]_<<part, figures, vars>>

(* Figures are drawn of measured rows, of all that were published if the   *)
(* report is whole, and with --force of current ones (stated in            *)
(* FigureCoverage; the others are Bf16Ulp's own).                          *)
PassIsMeasured == Figures!PassIsMeasured
=============================================================================
