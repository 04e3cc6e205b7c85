------------------------ MODULE MCWorkflowLifecycle ------------------------
\* Instances of WorkflowLifecycle for TLC.
EXTENDS WorkflowLifecycle, TLC

HandlerSymmetry == Permutations(Handlers)
=============================================================================
