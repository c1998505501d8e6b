--------------------------- MODULE MCEvidenceGrowth ---------------------------
(* A small instance of EvidenceGrowth: three keywords and eight texts. *)
EXTENDS EvidenceGrowth

CONSTANTS kRate, kLimit, kCheckout

MCKeywords == {kRate, kLimit, kCheckout}

Sentence(words, negated, affirmed, grave) ==
    [words |-> words, header |-> FALSE, negated |-> negated, affirmed |-> affirmed,
     grave |-> grave, opens |-> FALSE, closes |-> FALSE]

Heading(words) == [Sentence(words, TRUE, TRUE, TRUE) EXCEPT !.header = TRUE]

\* A gap, a grave gap, a control in place, both markers in one sentence, a
\* sentence that shares one word, a list whose heading has both markers, and
\* the two halves of a torn word.
MCTexts ==
    {<<Sentence({kRate, kLimit}, TRUE, FALSE, FALSE)>>,
     <<Sentence({kCheckout}, FALSE, TRUE, FALSE),
       Sentence({kLimit, kCheckout}, TRUE, FALSE, TRUE)>>,
     <<Sentence({kRate, kLimit, kCheckout}, FALSE, TRUE, FALSE)>>,
     <<Sentence({kRate, kCheckout}, TRUE, TRUE, TRUE)>>,
     <<Sentence({kRate}, TRUE, TRUE, TRUE)>>,
     <<Heading({kRate, kLimit}), Sentence({kRate, kLimit}, FALSE, FALSE, FALSE)>>,
     <<[Sentence({kRate, kLimit}, TRUE, FALSE, FALSE) EXCEPT !.opens = TRUE]>>,
     <<[Sentence({kRate, kLimit}, TRUE, FALSE, FALSE) EXCEPT !.closes = TRUE]>>}
===============================================================================
