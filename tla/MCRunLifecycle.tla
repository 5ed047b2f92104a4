--------------------------- MODULE MCRunLifecycle ---------------------------
(* Instances of RunLifecycle: which process each thread belongs to.        *)
EXTENDS RunLifecycle

\* Threads of one API process, and an API process per thread.
OneProcess == [a \in Actor |-> "P"]
OwnProcess == [a \in Actor |-> a]
============================================================================
