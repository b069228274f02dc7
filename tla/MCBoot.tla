------------------------------- MODULE MCBoot --------------------------------
(* Boot for TLC: an image that ends in the second page with a short packet and
   is too long for RAM, and one of exactly a page, which fits.                 *)
EXTENDS Boot, TLC

CONSTANTS long, page

MCImages == {long, page}
MCLength == (long :> 7) @@ (page :> 4)
=============================================================================
