---------------------------- MODULE MCSyncEngineSteady ----------------------------
(* An instance of SyncEngine that meets the conditions of its theorems. *)
EXTENDS MCSyncEngine

ASSUME SteadyAssumption == Steady

===================================================================================
