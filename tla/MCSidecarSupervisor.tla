------------------------ MODULE MCSidecarSupervisor ------------------------
\* The instance of SidecarSupervisor for TLC; sessions are model values.
EXTENDS SidecarSupervisor
=============================================================================
