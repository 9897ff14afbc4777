--------------------------- MODULE MCRepeatedBytes ----------------------------
(* Every packet of at most eight bytes over three byte values.                 *)
EXTENDS RepeatedBytesScan

Bytes == {0, 1, 255}
UpToEight == UNION {[1..n -> Bytes] : n \in 0..8}
=============================================================================
