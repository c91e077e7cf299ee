-------------------------- MODULE MCBatchPublication --------------------------
(* Two full runs and a run that publishes one part, one capture, one API read. *)
EXTENDS BatchPublication

WriterSet == {"full1", "full2", "alsOnly"}
CaptureSet == {"capture"}
ProcSet == WriterSet \cup CaptureSet
Own == [p \in ProcSet |-> p]
TaskMap == [w \in WriterSet |-> IF w = "alsOnly" THEN {"als"} ELSE {"als", "graph"}]
WarmSet == {"full1", "alsOnly"}

(* The two full runs alone, without a reader. *)
FullRuns == {"full1", "full2"}
OwnFull == [p \in FullRuns |-> p]
TaskFull == [w \in FullRuns |-> {"als", "graph"}]
WarmFull == {"full1"}
================================================================================
