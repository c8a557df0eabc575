------------------------------- MODULE MCPtz -------------------------------
EXTENDS Ptz
=============================================================================
