---------------------------- MODULE MCThreadPool ----------------------------
(* Instances of ThreadPool for TLC: the workers are the model values the    *)
(* configurations name.                                                     *)
EXTENDS ThreadPool

CONSTANTS w1, w2
=============================================================================
