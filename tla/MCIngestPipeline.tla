-------------------------- MODULE MCIngestPipeline --------------------------
(* A small instance of IngestPipeline for TLC.                              *)
EXTENDS IngestPipeline

(* A unit too long for one turn of the job, one it leaves to the main thread   *)
(* half way, and one with a line that is too long for it.                  *)
MCUnits == {<<"plain", "sgr", "plain">>, <<"sgr", "effect", "plain">>, <<"long", "sgr">>}

(* One setting beside the one under which nothing is parsed ahead.         *)
MCConfigs == {"dark", MXP}
=============================================================================
