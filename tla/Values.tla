------------------------------- MODULE Values -------------------------------
(***************************************************************************)
(* A program that uses both ways GAA has of storing a value of any type:   *)
(* Any and Variant.  They share no state.                                  *)
(***************************************************************************)
EXTENDS Any, Variant

valueVars == <<anyVars, variantVars>>

ValuesInit == AnyInit /\ VariantInit

ValuesNext ==
  \/ AnyNext /\ UNCHANGED variantVars
  \/ VariantNext /\ UNCHANGED anyVars

ValuesSpec == ValuesInit /\ [][ValuesNext]_valueVars

=============================================================================
