--------------------------- MODULE MCGeocodingJobs ---------------------------
(* Model-checking instances of GeocodingJobs: one job of several batches,   *)
(* and two jobs that compete for a permit.                                  *)
EXTENDS GeocodingJobs, TLC
=============================================================================
