--------------------------- MODULE MCUrlSchemeJob ---------------------------
(***************************************************************************)
(* UrlSchemeJob for TLC: no range, one that is the start of the device,    *)
(* one that reaches past it, one that starts past it, and a suffix.        *)
(***************************************************************************)
EXTENDS UrlSchemeJob

MCRanges == {<<>>, <<0, 0>>, <<1, 5>>, <<3, 4>>, <<1>>}
=============================================================================
