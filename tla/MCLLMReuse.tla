----------------------------- MODULE MCLLMReuse -----------------------------
(* Instances of LLMReuse for TLC. *)
EXTENDS LLMReuse

CONSTANTS r1, r2, f, v      \* callers that share, call afresh, send an image

Mixed == [c \in Callers |-> IF c = f THEN "fresh" ELSE IF c = v THEN "vision" ELSE "reuse"]
=============================================================================
