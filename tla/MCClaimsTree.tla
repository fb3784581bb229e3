---------------------------- MODULE MCClaimsTree ----------------------------
(* Three claims, enough to add one, delete it and update it over another.    *)
EXTENDS ClaimsTree
=============================================================================
