---------------------------- MODULE MCMergeIdentity ----------------------------
EXTENDS MergeIdentityProps
=============================================================================
