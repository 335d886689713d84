\* Two commands side by side: a first open races, runs share the dependency volume.
SPECIFICATION Spec
CONSTANTS
    p1 = p1
    p2 = p2
    Procs = {p1, p2}
    Names = {"OPENAI_API_KEY", "REGION"}
    SecretLike = {"OPENAI_API_KEY"}
    Supported <- MCSupported
    KeyEnv <- MCKeyEnv
    MaxCommands = 3
    MaxFaults = 2
INVARIANTS VaultReadable DepsComplete EnvFileRemoved
CHECK_DEADLOCK FALSE
