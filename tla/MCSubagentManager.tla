-------------------------- MODULE MCSubagentManager --------------------------
\* Model-checking instance of SubagentManager: the agents are interchangeable.
EXTENDS SubagentManager

Symmetry == Permutations(Agents)
=============================================================================
