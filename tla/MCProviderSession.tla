------------------------- MODULE MCProviderSession -------------------------
(***************************************************************************)
(* Five characters, the second and the fourth of them of two bytes.        *)
(***************************************************************************)
EXTENDS ProviderSession

MCOutput == <<1, 2, 2, 3, 4, 4, 5>>
=============================================================================
