----------------------------- MODULE MCPipeline -----------------------------
(* Values of Pipeline's constants for TLC. *)
EXTENDS Pipeline

MCStored ==
  [key \in S3Key |->
     CASE key = "yield-10-year" -> {"bad", "full"}
       [] key = "yield-2-year"  -> {"absent", "full"}
       [] OTHER                 -> {"absent", "bad", "full"}]

\* No gap, two (so that FRED series are as long as the inflation series), ten
\* (as long as the VIX downsampled).
MCGaps == {{}, {1, 4}, 2 .. 11}
=============================================================================
