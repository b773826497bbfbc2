------------------------- MODULE MCSchemaMigrations -------------------------
(***************************************************************************)
(* Constants for model checking the migrations: the shipped number of      *)
(* migrations, the first one shortened; an index statement that could run  *)
(* twice in a place that does not open a migration.                        *)
(***************************************************************************)
EXTENDS SchemaMigrations

MCSizes      == <<2, 1, 1, 1>>
MCRepeatable == {<<1, 2>>}

=============================================================================
