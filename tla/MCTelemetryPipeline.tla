------------------------- MODULE MCTelemetryPipeline -------------------------
(***************************************************************************)
(* The instance of TelemetryPipeline for TLC: two devices, each of which a *)
(* POST /cpes may give the other one's id as serial number.                *)
(***************************************************************************)
EXTENDS TelemetryPipeline

CONSTANTS c1, c2, i1

\* The first message is a command echo; the others are of one device.
ThreeUpdates == 1 .. 3
FirstIgnored == {1}
OneInform == {i1}
InformElsewhere == [u \in Updates |-> IF u = i1 THEN c2 ELSE c1]
CrossedBodies == {<<c1, c2>>, <<c2, c1>>}

=============================================================================
