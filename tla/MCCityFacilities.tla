-------------------------- MODULE MCCityFacilities --------------------------
(***************************************************************************)
(* Two facilities of two levels each.  The resources last for three of the *)
(* four levels, or for less and a general.  An int32 is two bits wide; of  *)
(* the two ids one has a positive low half.                                *)
(***************************************************************************)
EXTENDS CityFacilities, TLC

CONSTANTS f1, f2

MCTotal == f1 :> (0 :> 0 @@ 1 :> 1 @@ 2 :> 3) @@ f2 :> (0 :> 0 @@ 1 :> 2 @@ 2 :> 3)
=============================================================================
