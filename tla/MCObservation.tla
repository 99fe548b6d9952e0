--------------------------- MODULE MCObservation ---------------------------
(* Small instance of Observation for TLC.                                  *)
EXTENDS ObservationProperties

Streams == <<"a", "b", "c">>
=============================================================================
