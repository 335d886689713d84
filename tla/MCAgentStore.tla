----------------------------- MODULE MCAgentStore -----------------------------
\* AgentStore for TLC.
EXTENDS AgentStore
================================================================================
