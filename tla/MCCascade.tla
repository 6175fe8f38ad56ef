------------------------------ MODULE MCCascade ------------------------------
(***************************************************************************)
(* Every configuration of up to four models whose thresholds are none (0), *)
(* the default score or more than any tag gives, with a budget of          *)
(* escalations that is unlimited (0 or less), binding, equal to what the   *)
(* models allow, or larger, and either scorer.                             *)
(***************************************************************************)
EXTENDS Cascade, SequencesExt

AllConfigs == [thresholds : BoundedSeq({0, 1, 3}, 4), maxEscalations : {-1, 0, 1, 2, 3, 5},
               scorer : {"default", "custom"}]

\* Below, at and above each threshold.
AllScores == {0, 1, 2, 3}

Text(t) == [text |-> TRUE, tag |-> t]
ToolUse(t) == [text |-> FALSE, tag |-> t]

\* No block, no tag, tags below the default, at 1 and above it, in blocks of text
\* and of another type, first or second.
SomeContents == {<<>>, <<Text(NoTag)>>, <<Text(0)>>, <<Text(3)>>, <<ToolUse(3)>>,
                 <<ToolUse(0), Text(3)>>, <<ToolUse(3), Text(NoTag)>>, <<Text(NoTag), Text(0)>>,
                 <<Text(0), Text(3)>>, <<Text(2), Text(0)>>}
=============================================================================
