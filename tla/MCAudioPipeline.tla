-------------------------- MODULE MCAudioPipeline --------------------------
(* Instances of AudioPipeline for TLC: the sample phrases. *)
EXTENDS AudioPipeline

TwoPhrases == <<2, 3>>
=============================================================================
