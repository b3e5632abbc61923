-------------------------- MODULE MCQuestionPanel --------------------------
(***************************************************************************)
(* An instance of QuestionPanel. The bounds are explained in the README.   *)
(***************************************************************************)
EXTENDS QuestionPanel
=============================================================================
