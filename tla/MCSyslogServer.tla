--------------------------- MODULE MCSyslogServer ---------------------------
(* Model checking of SyslogServer. *)
EXTENDS SyslogServer
=============================================================================
