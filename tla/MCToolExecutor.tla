---------------------------- MODULE MCToolExecutor ----------------------------
(* A small instance of ToolExecutor, with a request of every kind. *)
EXTENDS ToolExecutor

Request(valid, command, profile, cwd) ==
  [valid |-> valid, command |-> command, profile |-> profile, cwd |-> cwd]

SomeRequests == {Request(TRUE, "git", "generic", "/workspace"),
                 Request(FALSE, "git", "generic", "/workspace"),
                 Request(TRUE, "git", "node", "/workspace"),
                 Request(TRUE, "git", "generic", "/tests")}

GitOnly == [p \in {"generic", "node"} |-> IF p = "generic" THEN {"git"} ELSE {}]
=============================================================================
