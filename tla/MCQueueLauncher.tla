-------------------------- MODULE MCQueueLauncher --------------------------
(* TLC instances of QueueLauncher.                                         *)
EXTENDS QueueLauncher

\* Tasks a and b share a workspace; all share one trio.
SharedWs == [w \in Work |-> "ws"]
OneTrio == [w \in Work |-> "kimi"]
\* Every task has a workspace of its own.
OwnWs == [w \in Work |-> w]
============================================================================
