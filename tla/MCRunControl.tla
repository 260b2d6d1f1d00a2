---------------------------- MODULE MCRunControl ----------------------------
(***************************************************************************)
(* The instance of run control TLC checks.                                 *)
(***************************************************************************)
EXTENDS RunControlProps, TLC

CONSTANTS w1, w2, a1, a2, a3, s1, s2, s3, c1, c2

\* An action, a wait for a webhook, an action.
MCTemplate == <<"action", "hook", "action">>
MCNone == <<0, 0, 0>>
\* Two workers, and the API process that creates the run.
MCSlots == s1 :> w1 @@ s2 :> w2 @@ s3 :> a1
\* Each call is served by an API process of its own, which does not create the run.
MCCallProc == c1 :> a2 @@ c2 :> a3
=============================================================================
