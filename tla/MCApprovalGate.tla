-------------------------- MODULE MCApprovalGate --------------------------
EXTENDS ApprovalGate, TLC

\* One browser sends an Idempotency-Key, the other does not.
OneKey == ("o1" :> "k1") @@ ("o2" :> "")
=============================================================================
