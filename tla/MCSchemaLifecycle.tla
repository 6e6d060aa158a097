-------------------------- MODULE MCSchemaLifecycle --------------------------
(* Two containers race on every engine, from columns or from a SELECT,     *)
(* against a creator outside the adapter and one drop.  _retrying is cut   *)
(* from five attempts to two: one drop gives a container two lost races.   *)
EXTENDS SchemaLifecycle

CONSTANTS a, b

MCContainer == {a, b}
=============================================================================
