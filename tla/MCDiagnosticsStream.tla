------------------------- MODULE MCDiagnosticsStream -------------------------
(* DiagnosticsStream with short rings and queues for TLC.                    *)
EXTENDS DiagnosticsStream
=============================================================================
