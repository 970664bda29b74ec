---------------------------- MODULE MCVectorSync ----------------------------
(***************************************************************************)
(* Small instances of VectorSync for TLC: the configurations of the store, *)
(* and what may go wrong.                                                  *)
(***************************************************************************)
EXTENDS VectorSync

CONSTANTS m1, d1, c1, c2, t1

PgOrDual == {"pgvector", "dual"}
PgOnly == {"pgvector"}
ExternalOnly == {"external"}
DropAndRollback == {"drop", "rollback"}
WriterOnly == {"writer"}
AnyMishap == {"api", "writer", "cycle", "deadline", "purge", "drop", "rollback"}
=============================================================================
