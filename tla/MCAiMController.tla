--------------------------- MODULE MCAiMController ---------------------------
(* Two banks of two rows for plain requests, and the AiM commands that      *)
(* exercise the gate, the register mode and the barrier.                   *)
EXTENDS AiMController

RW(type, final, bank, row) ==
  [type |-> type, final |-> final, bank |-> bank, row |-> row, ewmul_bg |-> 0, reg |-> FALSE,
   reader |-> (type = "Read"), eoc |-> FALSE]

AiM(final, row, reg, reader, eoc) ==
  [type |-> "AIM", final |-> final, bank |-> -1, row |-> row, ewmul_bg |-> 0, reg |-> reg,
   reader |-> reader, eoc |-> eoc]

MCAiM == {AiM("MAC16", 0, FALSE, FALSE, FALSE), AiM("RDMAC16", -1, TRUE, TRUE, FALSE), AiM("EOC", -1, FALSE, FALSE, TRUE)}

MCShapes == MCAiM \union {RW("Read", "RD", 0, 0), RW("Write", "WR", 0, 0), RW("Write", "WR", 0, 1),
                           RW("Write", "WR", 1, 0)}

MCRefresh == [type |-> "Refresh", final |-> "REFab", bank |-> -1, row |-> -1, ewmul_bg |-> 0, reg |-> FALSE,
              reader |-> FALSE, eoc |-> FALSE]

(* A row stays open longer than it takes to reach its columns (nRCD < nRAS), *)
(* rows of two banks open one after the other, and a read waits for the      *)
(* turnaround after a write (nWTR).                                          *)
MCTiming(cmd, class, same) ==
  CASE class = "reg" -> IF cmd \in {"ACT", "PRE", "ACT16", "PREA"} THEN 0 ELSE 1
    [] cmd \in {"ACT", "ACT16"} ->
         IF ~same THEN (IF class = "row" THEN 1 ELSE 0) ELSE IF class = "row" THEN 3 ELSE 2
    [] cmd \in {"RD", "WR", "MAC16"} ->
         IF class = "row" THEN (IF same THEN 2 ELSE 0)
         ELSE IF cmd = "WR" /\ class = "rd" THEN 4 ELSE 1
    [] cmd = "REFab" -> 2
    [] OTHER -> 1

MCLatency(cmd) == IF cmd \in {"RD", "RDMAC16"} THEN 2 ELSE 3
=============================================================================
