-------------------------------- MODULE Orm --------------------------------
(* What a SQLAlchemy session writes when it flushes an object it loaded in    *)
(* an earlier statement (READ COMMITTED, no version column): only the columns *)
(* whose assigned value differs from the loaded one. The others keep what the *)
(* table holds by then.                                                       *)

\* Mutant: the whole row is written back.
ColumnOfWholeRow(current, read, assigned) == assigned

Column(current, read, assigned) == IF assigned = read THEN current ELSE assigned

=============================================================================
