---------------------------- MODULE MCAgentSandbox ----------------------------
EXTENDS AgentSandbox

\* One provider with an API key, one without.
MCSupported == <<"openai", "local">>
MCKeyEnv == [v \in {"openai", "local"} |-> IF v = "openai" THEN "OPENAI_API_KEY" ELSE "none"]
===============================================================================
