------------------------- MODULE MCWorkflowExecution -------------------------
\* Instances of WorkflowExecution for TLC.
EXTENDS WorkflowExecution

ThreeKeys == 1 .. 3
==============================================================================
