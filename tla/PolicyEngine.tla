----------------------------- MODULE PolicyEngine -----------------------------
(***************************************************************************)
(* The verdict on a question, as a function of the evidence gathered for   *)
(* it: which sentences bear on the question, what they affirm or deny, and *)
(* the verdict, severity and confidence that follow.                       *)
(*                                                                         *)
(* Sources: app/policy/engine.py, app/policy/markers.py.                   *)
(*                                                                         *)
(* A sentence (a "logical unit") is abstracted to the keywords it shares   *)
(* with any question, whether it introduces a list, which markers the      *)
(* patterns of markers.py find in it, and whether it ends or begins with   *)
(* half of the one word of grave consequence that is two ("personally      *)
(* identifiable").                                                         *)
(*                                                                         *)
(* An operator X_Y is X with the seeded fault its comment names.           *)
(***************************************************************************)
EXTENDS Naturals, Sequences, FiniteSets, FiniteSetsExt, SequencesExt

CONSTANTS
    Keywords,     \* words of four letters or more that are no stop words
    MinOverlap    \* policy_min_relevance_overlap, in percent

Unit == [words : SUBSET Keywords, header : BOOLEAN,
         negated : BOOLEAN, affirmed : BOOLEAN, grave : BOOLEAN,
         opens : BOOLEAN, closes : BOOLEAN]

Question == SUBSET Keywords

ASSUME EngineAssumption == MinOverlap \in Nat /\ IsFiniteSet(Keywords)

MinOverlapCount == 2

\* Splitting keeps a text's sentences in order and drops those that end in
\* a colon.
LogicalUnits(text) == SelectSeq(text, LAMBDA u : ~u.header)

Shared(question, unit) == Cardinality(question \cap unit.words)

\* At least two shared words, if the question has two, and at least the
\* minimum fraction of the question; a question without keywords shares 0.
IsRelevant(question, unit) ==
    /\ Cardinality(question) >= MinOverlapCount => Shared(question, unit) >= MinOverlapCount
    /\ IF question = {} THEN MinOverlap = 0
       ELSE 100 * Shared(question, unit) >= MinOverlap * Cardinality(question)

\* The sentences are a sequence; or, where none of them opens what another one
\* closes, they may stand at places without an order.
Relevant(question, units) == {i \in DOMAIN units : IsRelevant(question, units[i])}

Denying(question, units) == {i \in Relevant(question, units) : units[i].negated}

Affirming(question, units) == {i \in Relevant(question, units) : units[i].affirmed}

\* Fault: the majority decides.
Verdict_ByMajority(question, units) ==
    LET no == Cardinality(Denying(question, units))
        yes == Cardinality(Affirming(question, units))
    IN  IF no = 0 /\ yes = 0 THEN "UNKNOWN"
        ELSE IF no = yes THEN "CONFLICT" ELSE IF no > yes THEN "FAIL" ELSE "PASS"

Verdict(question, units) ==
    IF Denying(question, units) = {}
    THEN IF Affirming(question, units) = {} THEN "UNKNOWN" ELSE "PASS"
    ELSE IF Affirming(question, units) = {} THEN "FAIL" ELSE "CONFLICT"

\* Fault: only the first denying sentence is looked at.
Severity_OfFirst(question, units) ==
    IF Denying(question, units) = {} THEN "low"
    ELSE IF units[Min(Denying(question, units))].grave THEN "high" ELSE "medium"

\* Fault: a conflict is given the default severity.
Severity_ConflictIsMedium(question, units) ==
    IF Denying(question, units) = {} THEN "low"
    ELSE IF /\ Affirming(question, units) = {}
            /\ \E i \in Denying(question, units) : units[i].grave
         THEN "high" ELSE "medium"

\* A gap is judged on the denying sentences joined by blanks, where one may
\* open what the next one closes; a conflict on each of them by itself.
Grave(question, units) ==
    LET denying == Denying(question, units)
    IN  \/ \E i \in denying : units[i].grave
        \/ /\ Affirming(question, units) = {}
           /\ \E i, j \in denying :
                 /\ units[i].opens /\ units[j].closes
                 /\ i < j /\ ~ \E k \in denying : i < k /\ k < j

\* "low" when nothing is denied.
Severity(question, units) ==
    IF Denying(question, units) = {} THEN "low"
    ELSE IF Grave(question, units) THEN "high" ELSE "medium"

(***************************************************************************)
(* Confidence, in hundredths.                                              *)
(***************************************************************************)

\* round(n / d, 2): a half goes to the even hundredth.
Percent(n, d) ==
    LET whole == (100 * n) \div d
        rest == (100 * n) % d
    IN  IF 2 * rest > d \/ (2 * rest = d /\ whole % 2 = 1) THEN whole + 1 ELSE whole

Relevance(question, unit) ==
    IF question = {} THEN 0 ELSE Percent(Shared(question, unit), Cardinality(question))

\* Every word of the question in every relevant sentence that has it: as many
\* as the sentences' shared words, summed.
Overlaps(question, units) ==
    {p \in Relevant(question, units) \X question : p[2] \in units[p[1]].words}

Corroborated(n) == IF 50 + 15 * n > 100 THEN 100 ELSE 50 + 15 * n

Confidence(question, units) ==
    LET relevant == Relevant(question, units)
    IN  CASE units = <<>> -> 100
          [] units # <<>> /\ relevant = {} ->
                100 - Max({Relevance(question, units[i]) : i \in DOMAIN units})
          [] relevant # {} /\ Verdict(question, units) = "UNKNOWN" ->
                IF question = {} THEN 0
                ELSE Percent(Cardinality(Overlaps(question, units)),
                             Cardinality(relevant) * Cardinality(question))
          [] Verdict(question, units) = "CONFLICT" -> 50
          [] Verdict(question, units) = "FAIL" ->
                Corroborated(Cardinality(Denying(question, units)))
          [] Verdict(question, units) = "PASS" ->
                Corroborated(Cardinality(Affirming(question, units)))
===============================================================================
