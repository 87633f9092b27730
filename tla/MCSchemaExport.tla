--------------------------- MODULE MCSchemaExport ---------------------------
(***************************************************************************)
(* Two exporters, two schemas, and two versions with schemas of one and    *)
(* two bytes, so that a short text may leave the end of a long one.        *)
(***************************************************************************)
EXTENDS SchemaExport

CONSTANTS p1, p2, short, long

MCLength == [v \in {short, long} |-> IF v = short THEN 1 ELSE 2]
=============================================================================
