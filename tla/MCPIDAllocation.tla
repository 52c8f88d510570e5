-------------------------- MODULE MCPIDAllocation --------------------------
(* Small instances of PIDAllocation for TLC. *)
EXTENDS PIDAllocation

CONSTANTS p1, p2, p3

\* The whole PID space, and a format that leaves one PID out.
MCFormats == {PIDs, PIDs \ {p3}}
=============================================================================
