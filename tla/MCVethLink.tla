------------------------------ MODULE MCVethLink ------------------------------
(***************************************************************************)
(* Instances of VethLink for TLC: the failures its runs inject.            *)
(***************************************************************************)
EXTENDS VethLink

\* Transient failures of the calls that come before the move.
EarlyTransient == {<<"before", "transient">>}
=============================================================================
