-------------------------- MODULE FingerprintEngine --------------------------
(***************************************************************************)
(* What the models of the fingerprint engine share: FingerprintSession     *)
(* follows its operations, FingerprintLockout the lockout they lead to.    *)
(***************************************************************************)

VARIABLES
    mCb,        \* is the engine's session callback set
    aborted     \* a CHECK has failed: the service is gone
=============================================================================
