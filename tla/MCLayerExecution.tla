-------------------------- MODULE MCLayerExecution ---------------------------
(* Instances of LayerExecution for TLC: check layers inside the model, and   *)
(* one past its last layer.                                                  *)
EXTENDS LayerExecution

InsideAndPast == {1, Layers}
==============================================================================
