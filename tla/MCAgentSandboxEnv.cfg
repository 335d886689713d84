\* The environment that reaches an agent in a container.
SPECIFICATION Spec
CONSTANTS
    p1 = p1
    p2 = p2
    Procs = {p1, p2}
    Names = {"OPENAI_API_KEY", "REGION"}
    SecretLike = {"OPENAI_API_KEY"}
    Supported <- MCSupported
    KeyEnv <- MCKeyEnv
    MaxCommands = 3
    MaxFaults = 2
INVARIANT EnvReachesAgent
CHECK_DEADLOCK FALSE
