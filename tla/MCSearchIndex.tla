---------------------------- MODULE MCSearchIndex ----------------------------
(***************************************************************************)
(* An instance of SearchIndex: source a has its table in the second of its *)
(* two schemas, source b has none.                                         *)
(***************************************************************************)
EXTENDS SearchIndex, TLC

CONSTANTS a, b, x, y, t1

MCSourceOf == t1 :> a
MCSchemaOf == t1 :> y

=============================================================================
