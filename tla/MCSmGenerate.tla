---------------------------- MODULE MCSmGenerate ----------------------------
(***************************************************************************)
(* SmGenerate for devices/p3l-nexa2012.json, at TicksPerUs / SampleUs      *)
(* million samples per second.                                             *)
(***************************************************************************)
EXTENDS SmGenerate, NexaDevice
=============================================================================
