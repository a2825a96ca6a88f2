------------------------------ MODULE Memory -------------------------------
(***************************************************************************)
(* What the summary middleware promises an agent (internal/summary/doc.go):*)
(* everything the agent has said or been told stays in its conversation,   *)
(* in full or condensed into the summary. What is condensed was in full    *)
(* before, and does not come back.                                         *)
(***************************************************************************)
VARIABLES
    full,       \* messages of the conversation that are there in full
    condensed   \* messages whose content is in the summary

vars == <<full, condensed>>

Init == full = {} /\ condensed = {}

\* The agent learns something new.
Learn ==
    /\ full \subseteq full'
    /\ full' \cap condensed = {}
    /\ UNCHANGED condensed

\* Some of what is there in full is condensed.
Condense ==
    /\ full' \subseteq full
    /\ condensed' = condensed \cup (full \ full')

Next == Learn \/ Condense
Spec == Init /\ [][Next]_vars
=============================================================================
