----------------------------- MODULE MCSpatial ------------------------------
(* Instances of Spatial for TLC, with the code's world and margin.         *)
EXTENDS Spatial

CONSTANTS c1, c2

\* Beyond the world, on its edge, within and at the margin, on the axes.
Places == {<<-1020, 0>>, <<-50, 300>>, <<-49, 1000>>, <<0, 0>>, <<0, -30>>,
           <<49, 49>>, <<300, 300>>, <<50, -1000>>}
=============================================================================
