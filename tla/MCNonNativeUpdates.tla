--------------------------- MODULE MCNonNativeUpdates ---------------------------
(* Instances of NonNativeUpdates for TLC: the kinds of file applications have. *)
EXTENDS NonNativeUpdates

OneKind == <<"resource">>
TwoKinds == <<"resource", "localisable">>
================================================================================
