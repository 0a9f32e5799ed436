---------------------------- MODULE MCWorkerLoop ----------------------------
(***************************************************************************)
(* An instance of WorkerTools: two workers that may write, answer, read    *)
(* mail, browse and run commands, and the sites of a usual slug and of one *)
(* of the control plane's, with one visitor.                               *)
(***************************************************************************)
EXTENDS WorkerTools

CONSTANTS w1, w2, v1
EveryTool == [w \in Workers |-> {[tool |-> t, args |-> 1] : t \in IF w = w1 THEN Tools \ {"deploy_site"} ELSE {"navigate"}}]
FaultsOf == [slug \in Slugs |-> IF slug = "acme" THEN 1 ELSE 0]
Pages == {<<"index">>, <<"index", "bad">>, <<"other">>}
=============================================================================
