---------------------------- MODULE MCWebSession ----------------------------
EXTENDS WebSession
=============================================================================
