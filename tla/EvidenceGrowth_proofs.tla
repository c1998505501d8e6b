------------------------- MODULE EvidenceGrowth_proofs -------------------------
(***************************************************************************)
(* More evidence sharpens a verdict and, a torn word aside, never lowers   *)
(* its severity, for any question, any texts and any number of them.  The  *)
(* argument: a sentence that denies (or affirms) keeps its place when      *)
(* sentences are appended, so the sets of denying and affirming sentences  *)
(* only grow, and two denying neighbours remain neighbours.                *)
(*                                                                         *)
(* The order of the evidence is irrelevant, because reversing it is a      *)
(* bijection of the sentences' places: each set the engine computes is     *)
(* mapped onto its own image, and has as many members.                     *)
(***************************************************************************)
EXTENDS EvidenceGrowth, FiniteSetTheorems, TLAPS

TypeInv ==
    /\ question \in Question
    /\ units \in Seq(Unit)

\* Appended sentences leave the relevant ones where they are.
LEMMA RelevantGrows ==
    ASSUME NEW q, NEW s \in Seq(Unit), NEW t \in Seq(Unit)
    PROVE  /\ Denying(q, s) \subseteq Denying(q, s \o t)
           /\ Affirming(q, s) \subseteq Affirming(q, s \o t)
           /\ \A i \in Denying(q, s) : i \in DOMAIN s /\ (s \o t)[i] = s[i]
           /\ \A k \in Denying(q, s \o t) : k \in DOMAIN s => k \in Denying(q, s)
<1>1. \A i \in DOMAIN s : i \in DOMAIN (s \o t) /\ (s \o t)[i] = s[i]
  OBVIOUS
<1>2. Relevant(q, s) \subseteq Relevant(q, s \o t)
  BY <1>1 DEF Relevant
<1>3. Relevant(q, s) \subseteq DOMAIN s
  BY DEF Relevant
<1>4. \A k \in Relevant(q, s \o t) : k \in DOMAIN s => k \in Relevant(q, s)
  BY <1>1 DEF Relevant
<1>. QED
  BY <1>1, <1>2, <1>3, <1>4 DEF Denying, Affirming

\* Engine.py's verdict on more sentences is the same, settled or a conflict.
LEMMA VerdictSharpens ==
    ASSUME NEW q, NEW s \in Seq(Unit), NEW t \in Seq(Unit)
    PROVE  Sharpens(Verdict(q, s), Verdict(q, s \o t))
  BY RelevantGrows DEF Verdict, Sharpens

\* A grave sentence stays grave, and so do two neighbours with a torn word,
\* unless something affirms.
LEMMA GraveStays ==
    ASSUME NEW q, NEW s \in Seq(Unit), NEW t \in Seq(Unit), Grave(q, s)
    PROVE  Grave(q, s \o t) \/ (Torn(s) /\ Affirming(q, s) = {} /\ Affirming(q, s \o t) # {})
<1>1. ASSUME NEW i \in Denying(q, s), s[i].grave
      PROVE  Grave(q, s \o t)
  <2>1. i \in Denying(q, s \o t) /\ (s \o t)[i] = s[i]
    BY RelevantGrows
  <2>2. (s \o t)[i].grave
    BY <1>1, <2>1, Zenon
  <2>. QED
    BY <2>1, <2>2 DEF Grave
<1>2. ASSUME Affirming(q, s) = {},
             NEW i \in Denying(q, s), NEW j \in Denying(q, s),
             s[i].opens, s[j].closes,
             i < j, \A k \in Denying(q, s) : ~ (i < k /\ k < j)
      PROVE  Grave(q, s \o t) \/ (Torn(s) /\ Affirming(q, s) = {} /\ Affirming(q, s \o t) # {})
  <2>1. /\ i \in DOMAIN s /\ j \in DOMAIN s
        /\ i \in Denying(q, s \o t) /\ j \in Denying(q, s \o t)
        /\ (s \o t)[i] = s[i] /\ (s \o t)[j] = s[j]
    BY RelevantGrows
  <2>2. Torn(s)
    <3>1. i # j
      BY <1>2, <2>1
    <3>. QED
      BY <1>2, <2>1, <3>1, Zenon DEF Torn
  <2>3. ASSUME Affirming(q, s \o t) = {}
        PROVE  Grave(q, s \o t)
    <3>1. (s \o t)[i].opens /\ (s \o t)[j].closes
      BY <1>2, <2>1, Zenon
    <3>2. ASSUME NEW k \in Denying(q, s \o t)
          PROVE  ~ (i < k /\ k < j)
      <4>1. k \in DOMAIN (s \o t)
        BY DEF Denying, Relevant
      <4>2. i < k /\ k < j => k \in DOMAIN s
        BY <2>1, <4>1
      <4>. QED
        BY <1>2, <4>2, RelevantGrows
    <3>3. ~ \E k \in Denying(q, s \o t) : i < k /\ k < j
      BY <3>2
    <3>. QED
      BY <1>2, <2>1, <2>3, <3>1, <3>3, Zenon DEF Grave
  <2>. QED
    BY <1>2, <2>2, <2>3
<1>3. \/ \E i \in Denying(q, s) : s[i].grave
      \/ /\ Affirming(q, s) = {}
         /\ \E i, j \in Denying(q, s) :
               /\ s[i].opens /\ s[j].closes
               /\ i < j /\ \A k \in Denying(q, s) : ~ (i < k /\ k < j)
  BY Zenon DEF Grave
<1>. QED
  BY <1>1, <1>2, <1>3, Zenon

\* More sentences, no lower severity, a torn word aside.
Worsens(q, s, more) ==
    \/ SeverityRank(Severity(q, s)) <= SeverityRank(Severity(q, more))
    \/ Torn(s) /\ Verdict(q, s) = "FAIL" /\ Verdict(q, more) = "CONFLICT"

LEMMA SeverityGrows ==
    ASSUME NEW q, NEW s \in Seq(Unit), NEW t \in Seq(Unit)
    PROVE  Worsens(q, s, s \o t)
<1>1. CASE Denying(q, s) = {}
  <2>1. Severity(q, s) = "low"
    BY <1>1 DEF Severity
  <2>2. Severity(q, s \o t) \in {"low", "medium", "high"}
    BY DEF Severity
  <2>. QED
    BY <2>1, <2>2 DEF SeverityRank, Worsens
<1>2. CASE Denying(q, s) # {}
  <2>1. Denying(q, s \o t) # {}
    BY <1>2, RelevantGrows
  <2>2. /\ Severity(q, s) \in {"medium", "high"}
        /\ Severity(q, s \o t) \in {"medium", "high"}
    BY <1>2, <2>1 DEF Severity
  <2>3. CASE ~ Grave(q, s) \/ Grave(q, s \o t)
    <3>1. Severity(q, s) = "medium" \/ Severity(q, s \o t) = "high"
      BY <1>2, <2>1, <2>3 DEF Severity
    <3>. QED
      BY <2>2, <3>1 DEF SeverityRank, Worsens
  <2>4. CASE Grave(q, s) /\ ~ Grave(q, s \o t)
    <3>1. Torn(s) /\ Affirming(q, s) = {} /\ Affirming(q, s \o t) # {}
      BY <2>4, GraveStays
    <3>. QED
      BY <1>2, <2>1, <3>1 DEF Verdict, Worsens
  <2>. QED
    BY <2>3, <2>4
<1>. QED
  BY <1>1, <1>2

LEMMA Typing == Spec => []TypeInv
<1>1. Init => TypeInv
  BY DEF Init, TypeInv
<1>2. TypeInv /\ [Next]_vars => TypeInv'
  <2>1. ASSUME TypeInv, NEW text \in Texts, Gather(text)
        PROVE  TypeInv'
    BY <2>1, GrowthAssumption DEF TypeInv, Gather
  <2>2. CASE UNCHANGED vars
    BY <2>2 DEF TypeInv, vars
  <2>. QED
    BY <2>1, <2>2 DEF Next
<1>. QED
  BY <1>1, <1>2, PTL DEF Spec

\* What every step does to the verdict and to the severity.
LEMMA StepGrows ==
    ASSUME TypeInv, [Next]_vars
    PROVE  /\ Sharpens(Judged, Judged')
           /\ \/ SeverityRank(Graded) <= SeverityRank(Graded')
              \/ Torn(units) /\ Judged = "FAIL" /\ Judged' = "CONFLICT"
<1>1. CASE UNCHANGED vars
  <2>1. Judged' = Judged /\ Graded' = Graded
    BY <1>1 DEF Judged, Graded, vars, Verdict, Severity, Grave, Denying, Affirming,
                  Relevant
  <2>2. Graded \in {"low", "medium", "high"}
    BY DEF Graded, Severity
  <2>. QED
    BY <2>1, <2>2 DEF Sharpens, SeverityRank
<1>2. ASSUME NEW text \in Texts, Gather(text)
      PROVE  /\ Sharpens(Judged, Judged')
             /\ \/ SeverityRank(Graded) <= SeverityRank(Graded')
                \/ Torn(units) /\ Judged = "FAIL" /\ Judged' = "CONFLICT"
  <2>1. LogicalUnits(text) \in Seq(Unit)
    BY GrowthAssumption
  <2>2. /\ Judged' = Verdict(question, units \o LogicalUnits(text))
        /\ Graded' = Severity(question, units \o LogicalUnits(text))
    BY <1>2 DEF Judged, Graded, Gather
  <2>3. /\ Sharpens(Verdict(question, units), Verdict(question, units \o LogicalUnits(text)))
        /\ Worsens(question, units, units \o LogicalUnits(text))
    BY <2>1, VerdictSharpens, SeverityGrows DEF TypeInv
  <2>. QED
    BY <2>2, <2>3 DEF Judged, Graded, Worsens
<1>. QED
  BY <1>1, <1>2 DEF Next

\* A review on more evidence never takes back a PASS for a FAIL, a FAIL for
\* a PASS, or a conflict for either (engine.py, evaluate).
THEOREM Sharpening == Spec => VerdictOnlySharpens
<1>1. TypeInv /\ [Next]_vars => [Sharpens(Judged, Judged')]_vars
  BY StepGrows
<1>. QED
  BY <1>1, Typing, PTL DEF Spec, VerdictOnlySharpens

\* ... and never lowers the severity, unless a gap that is grave only by a
\* word torn over two sentences becomes a conflict.
THEOREM SeverityIsMonotone == Spec => SeverityNeverDrops
<1>1. TypeInv /\ [Next]_vars
        => [\/ SeverityRank(Graded) <= SeverityRank(Graded')
            \/ Torn(units) /\ Judged = "FAIL" /\ Judged' = "CONFLICT"]_vars
  BY StepGrows
<1>. QED
  BY <1>1, Typing, PTL DEF Spec, SeverityNeverDrops

(***************************************************************************)
(* Reversing the evidence.                                                 *)
(***************************************************************************)

\* The place of the sentence at place i of n, read backwards.
Mirror(n, i) == n + 1 - i

LEMMA ReverseMirrors ==
    ASSUME NEW s \in Seq(Unit)
    PROVE  /\ Reverse(s) \in Seq(Unit)
           /\ Len(Reverse(s)) = Len(s)
           /\ \A i \in DOMAIN s : /\ Mirror(Len(s), i) \in DOMAIN s
                                  /\ Mirror(Len(s), Mirror(Len(s), i)) = i
                                  /\ Reverse(s)[i] = s[Mirror(Len(s), i)]
                                  /\ Reverse(s)[Mirror(Len(s), i)] = s[i]
<1>1. Len(s) \in Nat /\ DOMAIN s = 1 .. Len(s)
  OBVIOUS
<1>2. \A i \in 1 .. Len(s) : /\ Mirror(Len(s), i) \in 1 .. Len(s)
                             /\ Mirror(Len(s), Mirror(Len(s), i)) = i
                             /\ Mirror(Len(s), i) = (Len(s) - i) + 1
  BY <1>1 DEF Mirror
<1>3. Reverse(s) = [i \in 1 .. Len(s) |-> s[Mirror(Len(s), i)]]
  BY <1>2 DEF Reverse
<1>4. \A i \in 1 .. Len(s) : s[Mirror(Len(s), i)] \in Unit
  BY <1>1, <1>2
<1>5. Reverse(s) \in [1 .. Len(s) -> Unit]
  BY <1>3, <1>4
<1>6. Reverse(s) \in Seq(Unit) /\ Len(Reverse(s)) = Len(s)
  BY <1>1, <1>5
<1>. QED
  BY <1>1, <1>2, <1>3, <1>6

\* What bears on the question, denies or affirms does so wherever it stands.
LEMMA MirroredSets ==
    ASSUME NEW q, NEW s \in Seq(Unit), NEW i \in DOMAIN s
    PROVE  /\ i \in Relevant(q, Reverse(s)) <=> Mirror(Len(s), i) \in Relevant(q, s)
           /\ i \in Denying(q, Reverse(s)) <=> Mirror(Len(s), i) \in Denying(q, s)
           /\ i \in Affirming(q, Reverse(s)) <=> Mirror(Len(s), i) \in Affirming(q, s)
<1>1. DOMAIN Reverse(s) = DOMAIN s
  BY ReverseMirrors
<1>2. /\ Mirror(Len(s), i) \in DOMAIN s
      /\ Reverse(s)[i] = s[Mirror(Len(s), i)]
  BY ReverseMirrors
<1>3. i \in Relevant(q, Reverse(s)) <=> Mirror(Len(s), i) \in Relevant(q, s)
  BY <1>1, <1>2 DEF Relevant
<1>. QED
  BY <1>2, <1>3 DEF Denying, Affirming

\* A set of places and the set of the mirrored ones have as many members.
LEMMA MirrorKeepsCardinality ==
    ASSUME NEW n \in Nat, NEW S \in SUBSET (1 .. n), NEW T \in SUBSET (1 .. n),
           \A i \in 1 .. n : i \in T <=> Mirror(n, i) \in S
    PROVE  IsFiniteSet(S) /\ Cardinality(T) = Cardinality(S)
<1>. DEFINE f == [i \in S |-> Mirror(n, i)]
<1>1. IsFiniteSet(S)
  <2>1. IsFiniteSet(1 .. n)
    BY 1 \in Int, n \in Int, FS_Interval
  <2>. QED
    BY <2>1, FS_Subset
<1>2. \A i \in 1 .. n : Mirror(n, i) \in 1 .. n /\ Mirror(n, Mirror(n, i)) = i
  BY DEF Mirror
<1>3. \A i \in S : Mirror(n, i) \in T
  BY <1>2
<1>4. \A j \in T : \E i \in S : f[i] = j
  <2>1. SUFFICES ASSUME NEW j \in T PROVE \E i \in S : f[i] = j
    OBVIOUS
  <2>2. Mirror(n, j) \in S /\ Mirror(n, Mirror(n, j)) = j
    BY <1>2
  <2>. QED
    BY <2>2
<1>5. \A i, j \in S : f[i] = f[j] => i = j
  BY <1>2
<1>6. f \in Bijection(S, T)
  BY <1>3, <1>4, <1>5 DEF Bijection, Injection, Surjection, IsInjective
<1>7. ExistsBijection(S, T)
  BY <1>6 DEF ExistsBijection
<1>. QED
  BY <1>1, <1>7, FS_Bijection

\* The overlaps of the reversed evidence are as many.
LEMMA OverlapsKeepCardinality ==
    ASSUME NEW q \in Question, NEW s \in Seq(Unit)
    PROVE  Cardinality(Overlaps(q, Reverse(s))) = Cardinality(Overlaps(q, s))
<1>. DEFINE n == Len(s)
            S == Overlaps(q, s)
            T == Overlaps(q, Reverse(s))
            f == [p \in S |-> <<Mirror(n, p[1]), p[2]>>]
<1>1. IsFiniteSet(S)
  <2>1. n \in Nat /\ DOMAIN s = 1 .. n
    OBVIOUS
  <2>2. IsFiniteSet(Relevant(q, s))
    <3>1. IsFiniteSet(1 .. n)
      BY <2>1, 1 \in Int, n \in Int, FS_Interval
    <3>2. Relevant(q, s) \in SUBSET (1 .. n)
      BY <2>1 DEF Relevant
    <3>. QED
      BY <3>1, <3>2, FS_Subset
  <2>3. IsFiniteSet(q)
    BY EngineAssumption, FS_Subset DEF Question
  <2>4. IsFiniteSet(Relevant(q, s) \X q)
    BY <2>2, <2>3, FS_Product
  <2>. QED
    BY <2>4, FS_Subset DEF Overlaps
<1>2. \A i, w : <<i, w>> \in S <=> i \in Relevant(q, s) /\ w \in q /\ w \in s[i].words
  BY DEF Overlaps
<1>3. \A i, w : <<i, w>> \in T
                <=> i \in Relevant(q, Reverse(s)) /\ w \in q /\ w \in Reverse(s)[i].words
  BY DEF Overlaps
<1>4. /\ Relevant(q, s) \subseteq DOMAIN s
      /\ Relevant(q, Reverse(s)) \subseteq DOMAIN s
  BY ReverseMirrors DEF Relevant
<1>5. \A i \in DOMAIN s : \A w :
          /\ <<i, w>> \in S => <<Mirror(n, i), w>> \in T
          /\ <<i, w>> \in T => <<Mirror(n, i), w>> \in S
  <2>1. SUFFICES ASSUME NEW i \in DOMAIN s, NEW w
                 PROVE  /\ <<i, w>> \in S => <<Mirror(n, i), w>> \in T
                        /\ <<i, w>> \in T => <<Mirror(n, i), w>> \in S
    OBVIOUS
  <2>2. /\ Mirror(n, i) \in DOMAIN s
        /\ Mirror(n, Mirror(n, i)) = i
        /\ Reverse(s)[i] = s[Mirror(n, i)]
        /\ Reverse(s)[Mirror(n, i)] = s[i]
    BY ReverseMirrors
  <2>3. i \in Relevant(q, Reverse(s)) <=> Mirror(n, i) \in Relevant(q, s)
    BY MirroredSets
  <2>4. Mirror(n, i) \in Relevant(q, Reverse(s)) <=> i \in Relevant(q, s)
    BY <2>2, MirroredSets
  <2>. HIDE DEF S, T, n
  <2>5. <<i, w>> \in S => <<Mirror(n, i), w>> \in T
    BY <1>2, <1>3, <2>2, <2>4, Zenon
  <2>6. <<i, w>> \in T => <<Mirror(n, i), w>> \in S
    BY <1>2, <1>3, <2>2, <2>3, Zenon
  <2>. QED
    BY <2>5, <2>6
<1>6. /\ \A p \in S : p = <<p[1], p[2]>> /\ p[1] \in DOMAIN s
      /\ \A p \in T : p = <<p[1], p[2]>> /\ p[1] \in DOMAIN s
  BY <1>4 DEF Overlaps
<1>7. \A i \in DOMAIN s : Mirror(n, i) \in DOMAIN s /\ Mirror(n, Mirror(n, i)) = i
  BY ReverseMirrors
<1>. HIDE DEF S, T, n
<1>8. \A p \in S : f[p] \in T
  BY <1>5, <1>6
<1>9. \A r \in T : \E p \in S : f[p] = r
  <2>1. SUFFICES ASSUME NEW r \in T PROVE \E p \in S : f[p] = r
    OBVIOUS
  <2>2. r = <<r[1], r[2]>> /\ r[1] \in DOMAIN s
    BY <1>6
  <2>3. <<Mirror(n, r[1]), r[2]>> \in S
    BY <1>5, <2>2
  <2>4. f[<<Mirror(n, r[1]), r[2]>>] = <<Mirror(n, Mirror(n, r[1])), r[2]>>
    BY <2>3
  <2>5. f[<<Mirror(n, r[1]), r[2]>>] = r
    BY <2>2, <2>4, <1>7
  <2>. QED
    BY <2>3, <2>5
<1>10. \A p, r \in S : f[p] = f[r] => p = r
  <2>1. SUFFICES ASSUME NEW p \in S, NEW r \in S, f[p] = f[r] PROVE p = r
    OBVIOUS
  <2>2. Mirror(n, p[1]) = Mirror(n, r[1]) /\ p[2] = r[2]
    BY <2>1
  <2>3. p[1] = r[1]
    BY <1>6, <1>7, <2>2
  <2>. QED
    BY <1>6, <2>2, <2>3
<1>11. f \in Bijection(S, T)
  BY <1>8, <1>9, <1>10 DEF Bijection, Injection, Surjection, IsInjective
<1>12. ExistsBijection(S, T)
  BY <1>11 DEF ExistsBijection
<1>. QED
  BY <1>1, <1>12, FS_Bijection DEF S, T

LEMMA ReverseKeepsTheCounts ==
    ASSUME NEW q, NEW s \in Seq(Unit)
    PROVE  /\ Cardinality(Relevant(q, Reverse(s))) = Cardinality(Relevant(q, s))
           /\ Cardinality(Denying(q, Reverse(s))) = Cardinality(Denying(q, s))
           /\ Cardinality(Affirming(q, Reverse(s))) = Cardinality(Affirming(q, s))
           /\ Relevant(q, Reverse(s)) = {} <=> Relevant(q, s) = {}
           /\ Denying(q, Reverse(s)) = {} <=> Denying(q, s) = {}
           /\ Affirming(q, Reverse(s)) = {} <=> Affirming(q, s) = {}
<1>1. Len(s) \in Nat /\ DOMAIN s = 1 .. Len(s) /\ DOMAIN Reverse(s) = 1 .. Len(s)
  BY ReverseMirrors
<1>2. /\ Relevant(q, s) \in SUBSET (1 .. Len(s))
      /\ Relevant(q, Reverse(s)) \in SUBSET (1 .. Len(s))
  BY <1>1 DEF Relevant
<1>3. /\ Denying(q, s) \in SUBSET (1 .. Len(s))
      /\ Denying(q, Reverse(s)) \in SUBSET (1 .. Len(s))
      /\ Affirming(q, s) \in SUBSET (1 .. Len(s))
      /\ Affirming(q, Reverse(s)) \in SUBSET (1 .. Len(s))
  BY <1>2 DEF Denying, Affirming
<1>4. \A i \in 1 .. Len(s) :
          /\ i \in Relevant(q, Reverse(s)) <=> Mirror(Len(s), i) \in Relevant(q, s)
          /\ i \in Denying(q, Reverse(s)) <=> Mirror(Len(s), i) \in Denying(q, s)
          /\ i \in Affirming(q, Reverse(s)) <=> Mirror(Len(s), i) \in Affirming(q, s)
  BY <1>1, MirroredSets
<1>5. /\ Cardinality(Relevant(q, Reverse(s))) = Cardinality(Relevant(q, s))
      /\ Cardinality(Denying(q, Reverse(s))) = Cardinality(Denying(q, s))
      /\ Cardinality(Affirming(q, Reverse(s))) = Cardinality(Affirming(q, s))
  BY <1>1, <1>2, <1>3, <1>4, MirrorKeepsCardinality
<1>6. \A i \in 1 .. Len(s) : /\ Mirror(Len(s), i) \in 1 .. Len(s)
                             /\ Mirror(Len(s), Mirror(Len(s), i)) = i
  BY <1>1 DEF Mirror
<1>7. /\ Relevant(q, Reverse(s)) = {} <=> Relevant(q, s) = {}
      /\ Denying(q, Reverse(s)) = {} <=> Denying(q, s) = {}
      /\ Affirming(q, Reverse(s)) = {} <=> Affirming(q, s) = {}
  BY <1>2, <1>3, <1>4, <1>6, Zenon
<1>. QED
  BY <1>5, <1>7

LEMMA ReverseKeepsVerdict ==
    ASSUME NEW q, NEW s \in Seq(Unit)
    PROVE  Verdict(q, Reverse(s)) = Verdict(q, s)
  BY ReverseKeepsTheCounts DEF Verdict

LEMMA ReverseKeepsSeverity ==
    ASSUME NEW q, NEW s \in Seq(Unit), ~ Torn(s)
    PROVE  Severity(q, Reverse(s)) = Severity(q, s)
<1>1. Denying(q, s) \subseteq DOMAIN s /\ Denying(q, Reverse(s)) \subseteq DOMAIN s
  BY ReverseMirrors DEF Denying, Relevant
<1>2. (\E i \in Denying(q, s) : s[i].grave)
      <=> \E i \in Denying(q, Reverse(s)) : Reverse(s)[i].grave
  <2>1. ASSUME NEW i \in Denying(q, s), s[i].grave
        PROVE  \E j \in Denying(q, Reverse(s)) : Reverse(s)[j].grave
    <3>1. /\ Mirror(Len(s), i) \in DOMAIN s
          /\ Mirror(Len(s), Mirror(Len(s), i)) = i
          /\ Reverse(s)[Mirror(Len(s), i)] = s[i]
      BY <1>1, ReverseMirrors
    <3>2. Mirror(Len(s), i) \in Denying(q, Reverse(s))
      BY <3>1, MirroredSets
    <3>3. Reverse(s)[Mirror(Len(s), i)].grave
      BY <2>1, <3>1, Zenon
    <3>. QED
      BY <3>2, <3>3
  <2>2. ASSUME NEW i \in Denying(q, Reverse(s)), Reverse(s)[i].grave
        PROVE  \E j \in Denying(q, s) : s[j].grave
    <3>1. i \in DOMAIN s /\ Reverse(s)[i] = s[Mirror(Len(s), i)]
      BY <1>1, ReverseMirrors
    <3>2. Mirror(Len(s), i) \in Denying(q, s)
      BY <3>1, MirroredSets
    <3>3. s[Mirror(Len(s), i)].grave
      BY <2>2, <3>1, Zenon
    <3>. QED
      BY <3>2, <3>3
  <2>. QED
    BY <2>1, <2>2, Zenon
<1>3. Grave(q, s) <=> \E i \in Denying(q, s) : s[i].grave
  <2>1. ASSUME NEW i \in Denying(q, s), NEW j \in Denying(q, s),
               s[i].opens, s[j].closes, i < j
        PROVE  FALSE
    <3>1. i \in DOMAIN s /\ j \in DOMAIN s /\ i # j
      BY <1>1, <2>1
    <3>. QED
      BY <2>1, <3>1, Zenon DEF Torn
  <2>. QED
    BY <2>1, Zenon DEF Grave
<1>4. Grave(q, Reverse(s)) <=> \E i \in Denying(q, Reverse(s)) : Reverse(s)[i].grave
  <2>1. ASSUME NEW i \in Denying(q, Reverse(s)), NEW j \in Denying(q, Reverse(s)),
               Reverse(s)[i].opens, Reverse(s)[j].closes, i < j
        PROVE  FALSE
    <3>1. i \in DOMAIN s /\ j \in DOMAIN s /\ i # j
      BY <1>1, <2>1, ReverseMirrors
    <3>2. /\ Mirror(Len(s), i) \in DOMAIN s /\ Mirror(Len(s), j) \in DOMAIN s
          /\ Mirror(Len(s), i) # Mirror(Len(s), j)
          /\ Reverse(s)[i] = s[Mirror(Len(s), i)]
          /\ Reverse(s)[j] = s[Mirror(Len(s), j)]
      BY <3>1, ReverseMirrors
    <3>3. s[Mirror(Len(s), i)].opens /\ s[Mirror(Len(s), j)].closes
      BY <2>1, <3>2, Zenon
    <3>. QED
      BY <3>2, <3>3, Zenon DEF Torn
  <2>. QED
    BY <2>1, Zenon DEF Grave
<1>. QED
  BY <1>2, <1>3, <1>4, ReverseKeepsTheCounts DEF Severity

LEMMA ReverseKeepsConfidence ==
    ASSUME NEW q \in Question, NEW s \in Seq(Unit)
    PROVE  Confidence(q, Reverse(s)) = Confidence(q, s)
<1>. DEFINE Relevances(t) == {Relevance(q, t[i]) : i \in DOMAIN t}
<1>1. Relevances(Reverse(s)) = Relevances(s)
  <2>1. DOMAIN Reverse(s) = DOMAIN s
    BY ReverseMirrors
  <2>2. \A i \in DOMAIN s : /\ Mirror(Len(s), i) \in DOMAIN s
                            /\ Reverse(s)[i] = s[Mirror(Len(s), i)]
                            /\ Reverse(s)[Mirror(Len(s), i)] = s[i]
    BY ReverseMirrors
  <2>. QED
    BY <2>1, <2>2
<1>2. Reverse(s) = <<>> <=> s = <<>>
  BY ReverseMirrors
<1>3. Cardinality(Overlaps(q, Reverse(s))) = Cardinality(Overlaps(q, s))
  BY OverlapsKeepCardinality
<1>4. Max(Relevances(Reverse(s))) = Max(Relevances(s))
  BY <1>1
<1>. QED
  BY <1>2, <1>3, <1>4, ReverseKeepsTheCounts, ReverseKeepsVerdict DEF Confidence

\* Ties in the ranking and the order of hits change neither the verdict nor
\* the confidence, nor the severity unless a word is torn over two sentences
\* (engine.py, evaluate).
THEOREM OrderNeverMatters == Spec => []OrderIsIrrelevant
<1>1. TypeInv => OrderIsIrrelevant
  BY ReverseKeepsVerdict, ReverseKeepsSeverity, ReverseKeepsConfidence
     DEF TypeInv, OrderIsIrrelevant
<1>. QED
  BY <1>1, Typing, PTL
===============================================================================
