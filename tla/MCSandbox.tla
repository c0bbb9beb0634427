------------------------------- MODULE MCSandbox -------------------------------
EXTENDS Sandbox
=============================================================================
