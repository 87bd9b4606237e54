------------------------ MODULE MCInterviewWorkflow ------------------------
(* Symmetry sets for the model-checking runs of InterviewWorkflow.         *)
EXTENDS InterviewWorkflow, TLC

WorkerSymmetry == Permutations(Workers)
RequestSymmetry ==
  Permutations(Workers) \cup Permutations(SubmitRequests) \cup Permutations(Drafts)
=============================================================================
