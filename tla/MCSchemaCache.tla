--------------------------- MODULE MCSchemaCache ---------------------------
(* Three threads, two tables; db.py reads both with one statement,         *)
(* sqlalchemy_db.py one after the other.                                   *)
EXTENDS SchemaCache, TLC

CONSTANTS t1, t2, t3, customers, orders

MCThreads  == {t1, t2, t3}
MCTables   == {customers, orders}
OneQuery   == {MCTables}
PerTable   == {{customers}, {orders}}
Symmetry   == Permutations(MCThreads) \cup Permutations(MCTables)
=============================================================================
