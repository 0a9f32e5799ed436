---------------------------- MODULE MCSandboxPool ----------------------------
(* Instances of SandboxPool: the workers are interchangeable.              *)
EXTENDS SandboxPool

CONSTANTS w1, w2, w3, w4

AnyKind == {"local", "subprocess", "e2b"}
Isolated == {"subprocess", "e2b"}
=============================================================================
