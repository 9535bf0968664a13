------------------------ MODULE MCIncidentLifecycle ------------------------
EXTENDS IncidentLifecycle, TLC
\* Webhook requests are interchangeable.
HookSymmetry == Permutations(Hooks)
=============================================================================
