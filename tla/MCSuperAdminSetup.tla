-------------------------- MODULE MCSuperAdminSetup --------------------------
\* Instances of SuperAdminSetup for TLC.
EXTENDS SuperAdminSetup
==============================================================================
