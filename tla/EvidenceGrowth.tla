---------------------------- MODULE EvidenceGrowth ----------------------------
(***************************************************************************)
(* What more evidence does to a verdict.  A review with a larger top_k,    *)
(* with more steps or run after another upload judges the same question on *)
(* more sentences: graph facts are appended to the retrieved texts         *)
(* (app/policy/service.py), and one more hit appends one more text.        *)
(***************************************************************************)
EXTENDS PolicyEngine

CONSTANTS
    Texts,          \* the texts that can be retrieved, sequences of Unit
    MaxTexts        \* bound on the texts gathered

\* The second conjunct follows from the first; the provers know nothing of
\* SelectSeq, so it is assumed, and evaluated by TLC for each instance.
ASSUME GrowthAssumption ==
    /\ Texts \subseteq Seq(Unit)
    /\ \A text \in Texts : LogicalUnits(text) \in Seq(Unit)
    /\ MaxTexts \in Nat

VARIABLES
    question,   \* the keywords of the question
    units,      \* the sentences of the texts gathered
    gathered    \* how many texts that is

vars == <<question, units, gathered>>

Init ==
    /\ question \in Question
    /\ units = <<>>
    /\ gathered = 0

Gather(text) ==
    /\ gathered < MaxTexts
    /\ gathered' = gathered + 1
    /\ units' = units \o LogicalUnits(text)
    /\ UNCHANGED question

Next == \E text \in Texts : Gather(text)

Spec == Init /\ [][Next]_vars

----------------------------------------------------------------------------
Judged == Verdict(question, units)
Graded == Severity(question, units)

\* More evidence can settle an open question and can turn a verdict into a
\* conflict; it never turns PASS into FAIL, FAIL into PASS, or a conflict
\* back into either (contradictions are "surfaced rather than silently
\* resolved one way", engine.py:26-29).
Sharpens(old, new) == old = new \/ old = "UNKNOWN" \/ new = "CONFLICT"

VerdictOnlySharpens == [][Sharpens(Judged, Judged')]_vars

SeverityRank(severity) == CASE severity = "low" -> 0 [] severity = "medium" -> 1
                            [] severity = "high" -> 2

\* A word of grave consequence may be torn in two by the end of a sentence.
Torn(sentences) ==
    \E i, j \in DOMAIN sentences : i # j /\ sentences[i].opens /\ sentences[j].closes

\* More evidence never lowers the severity, except that a gap which is grave
\* only by a torn word, read across two sentences, is less so as a conflict.
SeverityNeverDrops ==
    [][\/ SeverityRank(Graded) <= SeverityRank(Graded')
       \/ Torn(units) /\ Judged = "FAIL" /\ Judged' = "CONFLICT"]_vars

\* The order in which the sentences were found does not matter: neither the
\* verdict nor the confidence depends on it, and the severity only if a word
\* is torn.
OrderIsIrrelevant ==
    LET reversed == Reverse(units)
    IN  /\ Verdict(question, units) = Verdict(question, reversed)
        /\ ~ Torn(units) => Severity(question, units) = Severity(question, reversed)
        /\ Confidence(question, units) = Confidence(question, reversed)
===============================================================================
