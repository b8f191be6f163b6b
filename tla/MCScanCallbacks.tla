-------------------------- MODULE MCScanCallbacks --------------------------
(* Bounds and symmetry for the runs of ScanCallbacks.                      *)
EXTENDS ScanCallbacksInvariant, TLC

\* Sources are interchangeable in ScanCallbacks.
SourceSymmetry == Permutations(Sources)
=============================================================================
