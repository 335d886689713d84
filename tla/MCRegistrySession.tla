------------------------- MODULE MCRegistrySession -------------------------
EXTENDS RegistrySession
=============================================================================
