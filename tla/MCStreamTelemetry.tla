--------------------------- MODULE MCStreamTelemetry ---------------------------
(***************************************************************************)
(* Bounds: more batches than receipts that may be pending and than the ring   *)
(* retains, so that both limits are met; the ring holds the pending batches   *)
(* and the idle observations that can fall between them.                      *)
(***************************************************************************)
EXTENDS StreamTelemetry
================================================================================
