--------------------------- MODULE MCVenomFSBoot ---------------------------
EXTENDS VenomFSBoot, TLC
CONSTANTS one, two
MCLength == one :> 1 @@ two :> 2
=============================================================================
