--------------------------- MODULE MCRunExecution ---------------------------
(***************************************************************************)
(* The instances of run execution TLC checks.                              *)
(***************************************************************************)
EXTENDS RunExecutionProps, TLC

CONSTANTS w1, w2, a1, a2, s1, s2, s3, s4

MCActions  == <<"action", "pure", "action">>
MCPauses   == <<"wait", "action", "approval", "action">>
MCApproval == <<"action", "approval", "action">>
MCNone3    == <<0, 0, 0>>
MCRevise4  == <<0, 0, 2, 0>>   \* step 3 may send the run back to step 2
\* A worker process with two of its five slots, and the API process.
MCOneWorker  == s1 :> w1 @@ s2 :> w1 @@ s3 :> a1
\* Two worker processes and the API process.
MCTwoWorkers == s1 :> w1 @@ s2 :> w2 @@ s3 :> a1
\* A worker process and both API machines, the one that does not create the run
\* with two resumptions.
MCTwoApis    == s1 :> w1 @@ s2 :> a1 @@ s3 :> a2 @@ s4 :> a2
\* Two worker processes and both API machines.
MCFleet      == s1 :> w1 @@ s2 :> w2 @@ s3 :> a1 @@ s4 :> a2
=============================================================================
