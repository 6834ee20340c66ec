---------------------------- MODULE MCFetchBridge ----------------------------
(* Two calls on one bridge.  Chunks of up to three units against parts of   *)
(* two make a chunk that needs two parts; a body of five passes both caps.  *)
EXTENDS FetchBridge
===============================================================================
