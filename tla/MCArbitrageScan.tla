--------------------------- MODULE MCArbitrageScan ---------------------------
(* A small bus, two profiles and the code's ratio of the two delays.        *)
EXTENDS ArbitrageScan

MCCapacity  == 2
MCProfiles  == 2
MCDebounce  == 1
MCFrequency == 4

=============================================================================
