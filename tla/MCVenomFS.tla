----------------------------- MODULE MCVenomFS -----------------------------
EXTENDS VenomFS, TLC
CONSTANTS empty, one, two
MCLength == empty :> 0 @@ one :> 1 @@ two :> 2
Interchangeable == Permutations(Names)
=============================================================================
