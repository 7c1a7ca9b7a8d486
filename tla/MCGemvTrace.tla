---------------------------- MODULE MCGemvTrace ----------------------------
(* Two channels of two banks: a row group is four output rows, so the      *)
(* outputs below fill a group, leave a channel without a second group, and *)
(* leave a bank of the last channel without an output.                     *)
EXTENDS GemvTrace

Job(kind, stage, r, tiles, tokens, dense, cut) ==
  [kind |-> kind, output_stage |-> stage, r |-> r, tiles_q |-> tiles,
   token_count |-> tokens, dense_rows |-> dense, cut |-> cut]

Stages == {"pre_activation", "post_activation"}

(* tiles_q = 3 is more than the two GPRs and the two tiles of a short row. *)
MCJobs ==
  {Job("row_sharded", s, r, t, 1, FALSE, "whole") : s \in Stages, r \in {1, 4, 5, 7}, t \in {1, 3}}
    \union {Job("batch", s, r, t, n, FALSE, "whole") : s \in Stages, r \in {1, 5, 7}, t \in {1, 3}, n \in {1, 2}}
    \union {Job("broadcast", s, r, t, 1, d, "whole") : s \in Stages, r \in {2, 9}, t \in {1, 3}, d \in BOOLEAN}
    \union {Job("matmul", "post_activation", 2, t, 1, FALSE, "whole") : t \in {1, 3}}
    \union {Job("matmul", "pre_activation", 2, 1, 1, FALSE, "whole"),
            Job("row_sharded", "pre_activation", 17, 1, 1, TRUE, "whole"),
            Job("row_sharded", "pre_activation", 5, 1, 1, TRUE, "whole"),
            Job("batch", "pre_activation", 7, 1, 3, FALSE, "whole")}
    \union {Job("row_sharded", "pre_activation", 5, 1, 1, FALSE, c) : c \in {"banks", "gprs"}}
=============================================================================
