--------------------------- MODULE MCSessionChains ---------------------------
\* Starting points and request bounds for model checking the session chains.
EXTENDS SessionChains

AllStarts == {"problem", "screened", "evidence"}
Requests  == [s \in Starts |-> 2]
Asked     == [s \in Starts |->
                 CASE s = "problem"  -> {"cycle", "discovery", "transition"}
                   [] s = "screened" -> {"triage", "analysis", "transition"}
                   [] s = "evidence" -> {"card", "ideation", "compile", "transition"}]
=============================================================================
