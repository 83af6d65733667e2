----------------------------- MODULE RagVerdict -----------------------------
(****************************************************************************)
(* What the RAG service promises the knowledge service about one version of *)
(* an item: it reaches one verdict and never takes it back, and what the    *)
(* knowledge service shows follows it: pending, then processing, then the   *)
(* verdict, never backwards.  RagJob implements it.                         *)
(****************************************************************************)
VARIABLES
    verdict,    \* what became of the version, "open" until it is decided
    shown       \* what the knowledge service shows for it

Verdicts == {"ready", "metadata_only", "failed"}

Init ==
    /\ verdict = "open"
    /\ shown = "pending"

Decide ==
    /\ verdict = "open"
    /\ verdict' \in Verdicts
    /\ UNCHANGED shown

Begin ==
    /\ shown = "pending"
    /\ shown' = "processing"
    /\ UNCHANGED verdict

Show ==
    /\ verdict \in Verdicts
    /\ shown \in {"pending", "processing"}
    /\ shown' = verdict
    /\ UNCHANGED verdict

Next == Decide \/ Begin \/ Show

Spec == Init /\ [][Next]_<<verdict, shown>>
=============================================================================
