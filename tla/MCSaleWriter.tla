----------------------------- MODULE MCSaleWriter -----------------------------
(* More rows than fit in a batch, so that a full batch, a part of one and   *)
(* rows still in the channel can be there together.                         *)
EXTENDS SaleWriter

CONSTANTS r1, r2, r3

MCRows      == {r1, r2, r3}
MCBatchSize == 2

=============================================================================
