--------------------------- MODULE MCFlowController ---------------------------
(* A branch that feeds two outputs through an inner tee, beside a branch of *)
(* its own: an outer valve before two inner ones, and one more.             *)
EXTENDS FlowController

CONSTANTS o1, o2, o3

NestedValves == <<<<o1, o2>>, <<o1>>, <<o2>>, <<o3>>>>
=============================================================================
