--------------------------- MODULE MCCommandQueue ---------------------------
(***************************************************************************)
(* Instances of CommandQueue for TLC.  Commands are numbers, because the   *)
(* queue is ordered by created_at; handlers and patchers are model values  *)
(* and interchangeable, so the safety runs use symmetry.                   *)
(***************************************************************************)
EXTENDS CommandQueue, TLC

TwoCommands == {1, 2}
ThreeCommands == {1, 2, 3}
SecondIsFaulty == {2}
FirstIsDual == {1}
BothAreDual == {1, 2}
ThreeStatuses == {"pending", "dispatched", "completed"}
ToPending == {"pending"}
NoCommands == {}

Symmetry == Permutations(Handlers) \cup Permutations(Patchers)

=============================================================================
