--------------------------- MODULE MCAgentRuntime ---------------------------
(***************************************************************************)
(* Small instances of AgentRuntime for TLC.                                *)
(***************************************************************************)
EXTENDS AgentRuntime

CONSTANTS w1, w2

Symmetry == Permutations(Workers)

\* The playbook gathers evidence, proposes a link, concludes.
LongScript == <<"tool", "link", "conclude">>

=============================================================================
