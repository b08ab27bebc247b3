------------------------------- MODULE MCAppList -------------------------------
(* Three registration files on three drives.  In the first instance one      *)
(* application is on a removable drive and another on two fixed ones; in the *)
(* second the removable drive and a fixed one both register one application. *)
EXTENDS AppList

CONSTANTS a, b, fE, fD, fC, english, finnish

MCFiles == {fE, fD, fC}
MCUidOf == fE :> b @@ fD :> a @@ fC :> a
MCShadowUidOf == fE :> a @@ fD :> b @@ fC :> a
MCDirs == <<{fE}, {fD}, {fC}>>
MCRemovable == {fE}

(* No definition tells one language from the other.                          *)
MCLanguages == Permutations({english, finnish})
=============================================================================
