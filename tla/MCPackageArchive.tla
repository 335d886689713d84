--------------------------- MODULE MCPackageArchive ---------------------------
EXTENDS PackageArchive

MCPaths == {"agent.yaml", "main.py", "sub/agent.yaml", ".env", "._x", "big", "bad/agent.yaml"}
MCKind == [p \in MCPaths |->
    CASE p = "agent.yaml" -> "manifest" [] p = "sub/agent.yaml" -> "nested"
      [] p = "bad/agent.yaml" -> "bad"
      [] p = ".env" -> "ignored" [] p = "._x" -> "double" [] OTHER -> "plain"]
MCSize == [p \in MCPaths |-> IF p = "big" THEN 2 ELSE 1]
MCProjects == {{"agent.yaml", "main.py", ".env"},
               {"agent.yaml", "sub/agent.yaml", "._x"}}
F(p) == FileEntry(p)
MCOther == {<<[F("main.py") EXCEPT !.type = "Directory", !.size = 0], F("agent.yaml")>>,
            <<F("agent.yaml"), [F("main.py") EXCEPT !.type = "Link", !.size = 0], F("main.py")>>,
            <<F("agent.yaml"), F("big"), F("main.py")>>,
            <<F("main.py"), F("main.py"), F("agent.yaml"), F("._x")>>,
            <<F("agent.yaml"), [F("main.py") EXCEPT !.safe = "unsafe"], F("main.py")>>,
            <<F("bad/agent.yaml"), F("agent.yaml"), F("main.py"), F("._x")>>,
            <<[F("main.py") EXCEPT !.type = "Directory", !.size = 0]>>,
            <<F("agent.yaml"), [F("main.py") EXCEPT !.size = 3]>>}
===============================================================================
