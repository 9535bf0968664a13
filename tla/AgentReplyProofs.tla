-------------------------- MODULE AgentReplyProofs --------------------------
(***************************************************************************)
(* For texts of any length: the types of the agent call, and that the two  *)
(* readers of an answer agree on every error-free response with a text.    *)
(***************************************************************************)
EXTENDS AgentReply, TLAPS, SequenceTheorems, WellFoundedInduction

LEMMA VerdictIs == \A text : Verdict(text) \in {"diagnosis", "unknown", "fallback", "retry"}
BY DEF Verdict, ParseTriageReport

LEMMA OutcomeIs ==
    /\ \A b : PlainOutcome(b) \in Outcomes
    /\ \A data : StreamOutcome(data) \in Outcomes
BY VerdictIs DEF PlainOutcome, StreamOutcome, Outcomes

-----------------------------------------------------------------------------
(* The parts of a response.                                                   *)

AllTexts == Texts \cup FewTexts

\* The responses the activity may have read last.
Responses == Bodies \cup {Artifact(t) : t \in Texts}

\* A part is missing or one text.
LEMMA MaybeIsSeq == ASSUME NEW p \in Maybe(AllTexts) PROVE p \in Seq(AllTexts)
<1>1. CASE p = <<>>
  BY <1>1
<1>2. CASE \E x \in AllTexts : p = <<x>>
  BY <1>2
<1>3. QED BY <1>1, <1>2 DEF Maybe

LEMMA PartsAreTexts ==
    ASSUME NEW b \in Responses, b.result # <<>>
    PROVE  /\ b.result[1].artifact \in Seq(AllTexts)
           /\ b.result[1].message \in Seq(AllTexts)
           /\ b.result[1].status \in Seq(AllTexts)
<1>1. ASSUME NEW r \in Result
      PROVE  /\ r.artifact \in Maybe(AllTexts) /\ r.message \in Maybe(AllTexts)
             /\ r.status \in Maybe(AllTexts)
  BY DEF Result, Maybe, AllTexts
<1>2. CASE b \in Envelope
  <2>1. b.result \in Maybe(Result)
    BY <1>2 DEF Envelope
  <2>2. PICK r \in Result : b.result = <<r>>
    BY <2>1 DEF Maybe
  <2>3. b.result[1] = r
    BY <2>2
  <2>4. QED BY <1>1, <2>3, MaybeIsSeq
<1>3. CASE \E t : b = Bare(t)
  BY <1>3 DEF Bare
<1>4. CASE \E t \in Texts : b = Artifact(t)
  <2>1. PICK t \in Texts : b = Artifact(t)
    BY <1>4
  <2>2. b.result[1] = [artifact |-> <<t>>, message |-> <<>>, status |-> <<>>]
    BY <2>1 DEF Artifact
  <2>3. <<t>> \in Maybe(AllTexts) /\ <<>> \in Maybe(AllTexts)
    BY <2>1 DEF Maybe, AllTexts
  <2>4. QED BY <2>2, <2>3, MaybeIsSeq
<1>5. QED BY <1>2, <1>3, <1>4 DEF Responses, Bodies

LEMMA BareIsText == ASSUME NEW b \in Responses PROVE b.bare \in Seq(AllTexts)
<1>1. CASE b \in Envelope
  <2>1. b.bare = <<>> /\ <<>> \in Maybe(AllTexts)
    BY <1>1 DEF Envelope, Maybe
  <2>2. QED BY <2>1, MaybeIsSeq
<1>2. CASE \E t \in FewTexts : b = Bare(t)
  <2>1. PICK t \in FewTexts : b.bare = <<t>>
    BY <1>2 DEF Bare
  <2>2. b.bare \in Maybe(AllTexts)
    BY <2>1 DEF Maybe, AllTexts
  <2>3. QED BY <2>2, MaybeIsSeq
<1>3. CASE \E t \in Texts : b = Artifact(t)
  BY <1>3 DEF Artifact
<1>4. QED BY <1>1, <1>2, <1>3 DEF Responses, Bodies

LEMMA FirstOfBoth ==
    ASSUME NEW S, NEW s \in Seq(S), NEW t \in Seq(S), s # <<>>
    PROVE  s \o t # <<>> /\ (s \o t)[1] = s[1]
<1>1. Len(s) >= 1
  OBVIOUS
<1>2. Len(s \o t) = Len(s) + Len(t)
  OBVIOUS
<1>3. QED BY <1>1, <1>2

\* Where artifact or message hold a text, the status message, which only the plain reader
\* tries, and the raw data, which only the stream reader falls back to, make no difference.
LEMMA SameText ==
    ASSUME NEW b \in Responses, Parts(b, {}) # <<>>, b.error = "none"
    PROVE  /\ Parts(b, {})[1] \in AllTexts
           /\ PlainOutcome(b) = Verdict(Parts(b, {})[1])
           /\ StreamOutcome(<<b>>) = Verdict(Parts(b, {})[1])
<1>1. b.result # <<>>
  BY DEF Parts
<1> DEFINE r    == b.result[1]
           text == r.artifact \o r.message
<1>2. r.artifact \in Seq(AllTexts) /\ r.message \in Seq(AllTexts) /\ r.status \in Seq(AllTexts)
  BY <1>1, PartsAreTexts
<1> HIDE DEF r
<1>3. text \in Seq(AllTexts)
  BY <1>2
<1>4. Parts(b, {"status"}) = text \o r.status
  BY <1>1 DEF Parts, r
<1>5. Parts(b, {}) = text
  <2>1. Parts(b, {}) = text \o <<>>
    <3>1. "status" \notin {}
      OBVIOUS
    <3>2. QED BY <3>1, <1>1 DEF Parts, r
  <2>2. ASSUME NEW x \in Seq(AllTexts) PROVE x \o <<>> = x
    <3>1. <<>> \in Seq(AllTexts)
      OBVIOUS
    <3>2. QED BY <3>1, <2>2
  <2>3. QED BY <2>1, <2>2, <1>3
<1> HIDE DEF text
<1>6. text # <<>>
  BY <1>5
<1>7. PlainOutcome(b) = Verdict(text[1])
  <2>1. Parts(b, {"status"}) # <<>> /\ Parts(b, {"status"})[1] = text[1]
    BY <1>2, <1>3, <1>4, <1>6, FirstOfBoth
  <2>2. QED BY <2>1 DEF PlainOutcome
<1>8. StreamOutcome(<<b>>) = Verdict(text[1])
  <2>1. <<b>> \notin {<<>>, <<Bare(<<>>)>>}
    BY <1>1 DEF Bare
  <2>2. text \o b.bare \in Seq(AllTexts) /\ text \o b.bare # <<>>
        /\ (text \o b.bare)[1] = text[1]
    BY <1>3, <1>6, BareIsText, FirstOfBoth
  <2>3. (text \o b.bare \o <<<<"envelope">>>>)[1] = text[1]
    <3> DEFINE T == AllTexts \cup {<<"envelope">>}
               u == text \o b.bare
    <3>1. u \in Seq(T) /\ <<<<"envelope">>>> \in Seq(T)
      BY <2>2
    <3> HIDE DEF T, u
    <3>2. (u \o <<<<"envelope">>>>)[1] = u[1]
      BY <3>1, <2>2, FirstOfBoth DEF u
    <3>3. QED BY <3>2, <2>2 DEF u
  <2>4. QED BY <2>1, <2>3, <1>5 DEF StreamOutcome
<1>9. text[1] \in AllTexts
  BY <1>3, <1>6
<1>10. QED BY <1>5, <1>7, <1>8, <1>9

-----------------------------------------------------------------------------
(* The least and the greatest of a set of positions.                          *)

LEMMA Least == ASSUME NEW S \in SUBSET Nat, S # {} PROVE \E m \in S : \A k \in S : m <= k
<1> DEFINE R == OpToRel(<, Nat)
<1>1. \A x, y \in Nat : <<y, x>> \in R <=> y < x
  BY DEF OpToRel
<1>2. IsWellFoundedOn(R, Nat)
  BY NatLessThanWellFounded
<1> HIDE DEF R
<1>3. \E x \in S : \A y \in S : ~(<<y, x>> \in R)
  BY <1>2, WFMin
<1>4. PICK x \in S : \A y \in S : ~(<<y, x>> \in R)
  BY <1>3
<1>5. \A y \in S : ~(y < x)
  BY <1>1, <1>4
<1>6. QED BY <1>5

LEMMA MinIs ==
    ASSUME NEW S \in SUBSET Nat, S # {}
    PROVE  Min(S) \in S /\ \A k \in S : Min(S) <= k
<1>1. \E x \in S : \A y \in S : x <= y
  BY Least
<1>2. QED BY <1>1, Zenon DEF Min

LEMMA MaxIs ==
    ASSUME NEW n \in Nat, NEW S \in SUBSET 1..n, S # {}
    PROVE  Max(S) \in S /\ \A k \in S : Max(S) >= k
<1> DEFINE T == {n - x : x \in S}
<1>1. \A x \in S : n - x \in Nat
  OBVIOUS
<1>1a. T \in SUBSET Nat
  BY <1>1
<1>1b. T # {}
  OBVIOUS
<1>2. PICK m \in T : \A k \in T : m <= k
  BY <1>1a, <1>1b, Least
<1>3. PICK x \in S : m = n - x
  BY <1>2
<1>4. ASSUME NEW y \in S PROVE x >= y
  <2>1. n - y \in T
    OBVIOUS
  <2>2. m <= n - y
    BY <1>2, <2>1
  <2>3. QED BY <1>3, <2>2
<1>5. \E z \in S : \A y \in S : z >= y
  BY <1>4
<1>6. QED BY <1>5, Zenon DEF Max

-----------------------------------------------------------------------------
(* A text with one report and no other brace.                                 *)

\* Where its report stands.
IsAt(t, i) ==
    /\ i \in 1..Len(t) /\ t[i] \in {"report", "mixed"}
    /\ \A k \in 1..Len(t) : t[k] \in Opens \cup Closes => k = i

LEMMA Braces == 
    /\ {"report", "mixed"} \subseteq Opens \cap Closes
    /\ "newline" \notin Opens \cup Closes /\ "fence" \notin Opens \cup Closes
BY DEF Opens, Closes, Objects

LEMMA PartOf ==
    ASSUME NEW S, NEW t \in Seq(S), NEW a \in 1..Len(t), NEW b \in 0..Len(t), b >= a - 1
    PROVE  /\ SubSeq(t, a, b) \in Seq(S)
           /\ Len(SubSeq(t, a, b)) = b - a + 1
           /\ \A k \in 1..(b - a + 1) : SubSeq(t, a, b)[k] = t[a + k - 1]
  OBVIOUS

\* Line breaks around the text go, and nothing else.
LEMMA TrimIs ==
    ASSUME NEW S, NEW t \in Seq(S), NEW j \in 1..Len(t), t[j] # "newline"
    PROVE  \E a, b \in 1..Len(t) :
              /\ a <= j /\ j <= b /\ TrimSpace(t) = SubSeq(t, a, b)
              /\ t[a] # "newline" /\ t[b] # "newline"
              /\ \A k \in 1..Len(t) : k < a \/ k > b => t[k] = "newline"
<1> DEFINE kept == {i \in DOMAIN t : t[i] # "newline"}
<1>1. kept \in SUBSET 1..Len(t) /\ kept \in SUBSET Nat /\ j \in kept
  OBVIOUS
<1>2. TrimSpace(t) = SubSeq(t, Min(kept), Max(kept))
  BY <1>1 DEF TrimSpace
<1>3. Min(kept) \in kept /\ \A k \in kept : Min(kept) <= k
  BY <1>1, MinIs
<1>4. Max(kept) \in kept /\ \A k \in kept : Max(kept) >= k
  <2>1. Len(t) \in Nat
    OBVIOUS
  <2> HIDE DEF kept
  <2>2. QED BY <1>1, <2>1, MaxIs
<1>7. Min(kept) \in 1..Len(t) /\ Max(kept) \in 1..Len(t)
  BY <1>1, <1>3, <1>4
<1> HIDE DEF kept
<1>5. \A k \in 1..Len(t) : k < Min(kept) \/ k > Max(kept) => t[k] = "newline"
  <2> SUFFICES ASSUME NEW k \in 1..Len(t), k < Min(kept) \/ k > Max(kept), t[k] # "newline"
               PROVE  FALSE
    OBVIOUS
  <2>1. k \in kept
    BY DEF kept
  <2>2. Min(kept) <= k /\ Max(kept) >= k
    BY <1>3, <1>4, <2>1
  <2>3. QED BY <1>7, <2>2
<1>6. t[Min(kept)] # "newline" /\ t[Max(kept)] # "newline"
  BY <1>3, <1>4 DEF kept
<1>8. QED BY <1>1, <1>2, <1>3, <1>4, <1>5, <1>6, <1>7

\* ... so that the trimmed text has its report too.
LEMMA TrimKeepsReport ==
    ASSUME NEW S, NEW t \in Seq(S), NEW i, IsAt(t, i)
    PROVE  \E a, b \in 1..Len(t) :
              /\ a <= i /\ i <= b /\ TrimSpace(t) = SubSeq(t, a, b)
              /\ t[a] # "newline" /\ t[b] # "newline"
              /\ TrimSpace(t) \in Seq(S) /\ Len(TrimSpace(t)) = b - a + 1
              /\ \A k \in 1..(b - a + 1) : TrimSpace(t)[k] = t[a + k - 1]
              /\ IsAt(TrimSpace(t), i - a + 1)
<1>1. i \in 1..Len(t) /\ t[i] # "newline"
  BY DEF IsAt
<1>2. PICK a, b \in 1..Len(t) :
              /\ a <= i /\ i <= b /\ TrimSpace(t) = SubSeq(t, a, b)
              /\ t[a] # "newline" /\ t[b] # "newline"
              /\ \A k \in 1..Len(t) : k < a \/ k > b => t[k] = "newline"
  BY <1>1, TrimIs
<1>3. /\ SubSeq(t, a, b) \in Seq(S)
      /\ Len(SubSeq(t, a, b)) = b - a + 1
      /\ \A k \in 1..(b - a + 1) : SubSeq(t, a, b)[k] = t[a + k - 1]
  BY <1>2, PartOf
<1> DEFINE u == TrimSpace(t)
<1>4. u \in Seq(S) /\ Len(u) = b - a + 1 /\ \A k \in 1..(b - a + 1) : u[k] = t[a + k - 1]
  BY <1>2, <1>3
<1> HIDE DEF u
<1>5. i - a + 1 \in 1..Len(u) /\ u[i - a + 1] = t[i]
  BY <1>1, <1>2, <1>4
<1>6. \A k \in 1..Len(u) : u[k] \in Opens \cup Closes => k = i - a + 1
  <2> TAKE k \in 1..Len(u)
  <2>1. a + k - 1 \in 1..Len(t) /\ u[k] = t[a + k - 1]
    BY <1>2, <1>4
  <2>2. QED BY <1>1, <2>1 DEF IsAt
<1>7. IsAt(u, i - a + 1)
  BY <1>5, <1>6 DEF IsAt
<1>8. QED BY <1>2, <1>4, <1>7 DEF u

LEMMA OneToken == ASSUME NEW S, NEW v \in Seq(S), Len(v) = 1 PROVE v = <<v[1]>>
<1> DEFINE w == <<v[1]>>
<1>1. w \in Seq(S) /\ Len(w) = 1 /\ w[1] = v[1]
  OBVIOUS
<1> HIDE DEF w
<1>2. \A k \in 1..Len(v) : v[k] = w[k]
  BY <1>1
<1>3. v = w
  BY <1>1, <1>2, SeqEqual
<1>4. QED BY <1>3 DEF w

\* From the first brace to the last is the report alone.
LEMMA EmbeddedIsReport ==
    ASSUME NEW S, NEW u \in Seq(S), NEW i, IsAt(u, i)
    PROVE  Embedded(u) = <<u[i]>>
<1>1. i \in 1..Len(u) /\ u[i] \in Opens /\ u[i] \in Closes
  BY Braces DEF IsAt
<1>2. Where(u, Opens) = {i} /\ Where(u, Closes) = {i}
  BY <1>1 DEF Where, IsAt
<1>3. Min({i}) = i /\ Max({i}) = i
  BY <1>1 DEF Min, Max
<1>4. SubSeq(u, i, i) = <<u[i]>>
  <2>1. Len(SubSeq(u, i, i)) = 1 /\ SubSeq(u, i, i) \in Seq(S) /\ SubSeq(u, i, i)[1] = u[i]
    BY <1>1, PartOf
  <2>2. QED BY <2>1, OneToken
<1>5. QED BY <1>2, <1>3, <1>4 DEF Embedded

\* What a text with a report in it must look like for the report to be found.
Findable(t) ==
    \/ After(t) \subseteq {"newline"}
    \/ /\ ~StartsObject(TrimSpace(t))
       /\ After(t) \subseteq {"newline", "fence"} \/ Where(t, {"fence"}) = {}

LEMMA AfterIs ==
    ASSUME NEW S, NEW t \in Seq(S), NEW i, IsAt(t, i)
    PROVE  After(t) = {t[k] : k \in i + 1..Len(t)}
<1>1. i \in Where(t, Objects)
  BY DEF IsAt, Where, Objects
<1>2. ASSUME NEW k \in Where(t, Objects) PROVE k = i
  <2>1. k \in DOMAIN t /\ t[k] \in Objects
    BY DEF Where
  <2>2. DOMAIN t = 1..Len(t)
    OBVIOUS
  <2>3. Objects \subseteq Opens \cup Closes
    BY DEF Opens
  <2>4. k \in 1..Len(t) /\ t[k] \in Opens \cup Closes
    BY <2>1, <2>2, <2>3, Zenon
  <2>5. QED BY <2>4 DEF IsAt
<1>3. Where(t, Objects) = {i}
  BY <1>1, <1>2
<1>4. Max({i}) = i
  BY DEF Max, IsAt
<1>5. QED BY <1>3, <1>4 DEF After

\* What the fence holds begins with a brace only if it is the report.
LEMMA FencedIsReport ==
    ASSUME NEW S, NEW u \in Seq(S), NEW i, IsAt(u, i), StartsObject(Fenced(u)),
           {u[k] : k \in i + 1..Len(u)} \subseteq {"newline", "fence"}
    PROVE  Fenced(u) = <<u[i]>>
<1> DEFINE fences == Where(u, {"fence"})
           open   == Min(fences)
           breaks == {k \in Where(u, {"newline"}) : k > open}
           start  == IF breaks = {} THEN open + 1 ELSE Min(breaks) + 1
           ends   == {k \in fences : k >= start}
           inner  == SubSeq(u, start, Min(ends) - 1)
<1>1. fences # {} /\ ends # {} /\ Fenced(u) = TrimSpace(inner)
  BY DEF Fenced, StartsObject
<1>2. fences \in SUBSET 1..Len(u) /\ \A k \in 1..Len(u) : k \in fences <=> u[k] = "fence"
  BY DEF Where
<1>3. breaks \in SUBSET 1..Len(u) /\ \A k \in breaks : k > open
  BY DEF Where
<1>4. ends \subseteq fences /\ \A k \in fences : k \in ends <=> k >= start
  OBVIOUS
<1>5. start = IF breaks = {} THEN open + 1 ELSE Min(breaks) + 1
  OBVIOUS
<1> HIDE DEF ends, start, breaks, open, fences
<1>6. ends \in SUBSET 1..Len(u)
  BY <1>2, <1>4
<1>7. open \in 1..Len(u)
  <2>1. fences \in SUBSET Nat
    BY <1>2
  <2>2. Min(fences) \in fences
    BY <1>1, <2>1, MinIs
  <2>3. QED BY <1>2, <2>2 DEF open
<1>8. start \in 2..(Len(u) + 1)
  <2>1. CASE breaks = {}
    BY <2>1, <1>5, <1>7
  <2>2. CASE breaks # {}
    <3>1. breaks \in SUBSET Nat
      BY <1>3
    <3>2. Min(breaks) \in breaks
      BY <2>2, <3>1, MinIs
    <3>3. Min(breaks) \in 1..Len(u) /\ start = Min(breaks) + 1
      BY <2>2, <3>2, <1>3, <1>5
    <3>4. QED BY <3>3
  <2>3. QED BY <2>1, <2>2
<1> DEFINE end == Min(ends)
<1>9. end \in ends /\ \A k \in ends : end <= k
  <2>1. ends \in SUBSET Nat
    BY <1>6
  <2>2. QED BY <1>1, <2>1, MinIs
<1>10. inner = SubSeq(u, start, end - 1)
  OBVIOUS
<1> HIDE DEF end, inner
<1>11. end \in 1..Len(u) /\ end >= start
  BY <1>2, <1>4, <1>6, <1>9
<1>12. \A k \in start..end - 1 : u[k] # "fence"
  <2> SUFFICES ASSUME NEW k \in start..end - 1, u[k] = "fence" PROVE FALSE
    OBVIOUS
  <2>1. k \in 1..Len(u) /\ k >= start /\ k < end
    BY <1>8, <1>11
  <2>2. k \in ends
    BY <2>1, <1>2, <1>4
  <2>3. QED BY <1>9, <1>11, <2>1, <2>2
<1>13. /\ inner \in Seq(S) /\ Len(inner) = end - start
       /\ \A k \in 1..(end - start) : inner[k] = u[start + k - 1]
  <2>1. start \in 1..Len(u) /\ end - 1 \in 0..Len(u) /\ end - 1 >= start - 1
    BY <1>8, <1>11
  <2>2. (end - 1) - start + 1 = end - start
    BY <1>8, <1>11
  <2>3. QED BY <2>1, <2>2, <1>10, PartOf
<1>14. PICK j \in 1..Len(inner) : inner[j] # "newline"
  <2>1. TrimSpace(inner) # <<>>
    BY <1>1 DEF StartsObject
  <2>2. {k \in DOMAIN inner : inner[k] # "newline"} # {}
    BY <2>1 DEF TrimSpace
  <2>3. QED BY <2>2, <1>13
<1>15. PICK a, b \in 1..Len(inner) :
              /\ a <= j /\ j <= b /\ TrimSpace(inner) = SubSeq(inner, a, b)
              /\ inner[a] # "newline" /\ inner[b] # "newline"
  BY <1>13, <1>14, TrimIs
<1> DEFINE v == TrimSpace(inner)
<1>16. v \in Seq(S) /\ Len(v) = b - a + 1 /\ v[1] = inner[a]
  BY <1>13, <1>15, PartOf
<1>17. v[1] \in Opens
  BY <1>1 DEF StartsObject
<1> HIDE DEF v
<1>18. start + a - 1 \in 1..Len(u) /\ inner[a] = u[start + a - 1]
  BY <1>8, <1>11, <1>13
<1>19. start + a - 1 = i
  BY <1>16, <1>17, <1>18 DEF IsAt
<1>20. b = a
  <2> SUFFICES ASSUME b > a PROVE FALSE
    BY <1>15
  <2>1. start + b - 1 \in i + 1..Len(u) /\ start + b - 1 \in start..end - 1 /\ inner[b] = u[start + b - 1]
    BY <1>8, <1>11, <1>13, <1>19
  <2>2. u[start + b - 1] \in {"newline", "fence"}
    BY <2>1
  <2>3. QED BY <1>12, <1>15, <2>1, <2>2
<1>21. Len(v) = 1 /\ v[1] = u[i]
  BY <1>16, <1>18, <1>19, <1>20
<1>22. QED BY <1>1, <1>16, <1>21, OneToken DEF v

\* Without a fence nothing is found in one.
LEMMA NoFence == ASSUME NEW u, Where(u, {"fence"}) = {} PROVE ~StartsObject(Fenced(u))
BY DEF Fenced, StartsObject

\* A text that holds one report and is findable is stripped down to it.
LEMMA StripFindsReport ==
    ASSUME NEW S, NEW t \in Seq(S), NEW i, IsAt(t, i),
           \/ After(t) \subseteq {"newline"}
           \/ /\ ~StartsObject(TrimSpace(t))
              /\ After(t) \subseteq {"newline", "fence"} \/ Where(t, {"fence"}) = {}
    PROVE  StripMarkdownJSON(t) = <<t[i]>>
<1> DEFINE u == TrimSpace(t)
<1>1. PICK a, b \in 1..Len(t) :
              /\ a <= i /\ i <= b /\ TrimSpace(t) = SubSeq(t, a, b)
              /\ t[a] # "newline" /\ t[b] # "newline"
              /\ TrimSpace(t) \in Seq(S) /\ Len(TrimSpace(t)) = b - a + 1
              /\ \A k \in 1..(b - a + 1) : TrimSpace(t)[k] = t[a + k - 1]
              /\ IsAt(TrimSpace(t), i - a + 1)
  BY TrimKeepsReport
<1> DEFINE n == i - a + 1
<1>2. i \in 1..Len(t) /\ n \in 1..Len(u) /\ u \in Seq(S) /\ Len(u) = b - a + 1
      /\ IsAt(u, n) /\ a <= i /\ i <= b
  BY <1>1 DEF IsAt
<1>2a. \A k \in 1..Len(u) : u[k] = t[a + k - 1]
  BY <1>1
<1>2b. u[n] = t[i]
  BY <1>2, <1>2a
<1>3. After(t) = {t[k] : k \in i + 1..Len(t)}
  BY AfterIs
<1> HIDE DEF u
<1>4. {u[k] : k \in n + 1..Len(u)} \subseteq After(t)
  <2> SUFFICES ASSUME NEW k \in n + 1..Len(u) PROVE u[k] \in After(t)
    OBVIOUS
  <2>1. k \in 1..Len(u) /\ a + k - 1 \in i + 1..Len(t)
    BY <1>2
  <2>2. QED BY <2>1, <1>2a, <1>3
<1>5. Embedded(u) = <<t[i]>>
  BY <1>2, <1>2b, EmbeddedIsReport
\* A text that starts with its report and ends with it is the report.
<1>6. ASSUME StartsObject(u) PROVE u = <<t[i]>>
  <2>1. After(t) \subseteq {"newline"}
    BY <1>6 DEF u
  <2>2. u[1] \in Opens /\ 1 \in 1..Len(u)
    BY <1>2, <1>6 DEF StartsObject
  <2>3. n = 1
    BY <2>2, <1>2 DEF IsAt
  <2>4. b = i
    <3> SUFFICES ASSUME b # i PROVE FALSE
      OBVIOUS
    <3>1. b \in i + 1..Len(t)
      BY <1>2
    <3>2. t[b] \in After(t)
      BY <3>1, <1>3
    <3>3. QED BY <3>2, <2>1, <1>1
  <2>5. Len(u) = 1 /\ u[1] = t[i]
    BY <1>2, <1>2b, <2>3, <2>4
  <2>6. QED BY <1>2, <2>5, OneToken
<1>7. ASSUME StartsObject(Fenced(u)) PROVE Fenced(u) = <<t[i]>>
  <2>1. CASE After(t) \subseteq {"newline", "fence"}
    BY <2>1, <1>2, <1>2b, <1>4, <1>7, FencedIsReport
  <2>2. CASE Where(t, {"fence"}) = {}
    <3>1. ASSUME NEW k \in 1..Len(u) PROVE u[k] # "fence"
      <4>1. a + k - 1 \in 1..Len(t) /\ u[k] = t[a + k - 1]
        BY <1>2, <1>2a
      <4>2. QED BY <4>1, <2>2 DEF Where
    <3>2. Where(u, {"fence"}) = {}
      BY <3>1, <1>2 DEF Where
    <3>3. QED BY <3>2, <1>7, NoFence
  <2>3. QED BY <2>1, <2>2
<1>8. <<t[i]>> # <<>>
  OBVIOUS
<1>9. QED BY <1>5, <1>6, <1>7, <1>8 DEF StripMarkdownJSON, u

LEMMA VerdictOfReport ==
    ASSUME NEW text, NEW x, x \in {"report", "mixed"}, StripMarkdownJSON(text) = <<x>>
    PROVE  Verdict(text) = "diagnosis"
<1>1. ParseTriageReport(<<x>>) = "diagnosis"
  <2>1. <<x>> = <<"report">> \/ <<x>> = <<"mixed">>
    OBVIOUS
  <2>2. <<x>> # <<"unclassified">> /\ <<x>> # <<"envelope">> /\ ~IsEmptyObject(<<x>>)
    BY DEF IsEmptyObject
  <2>3. QED BY <2>1, <2>2, Zenon DEF ParseTriageReport
<1>2. QED BY <1>1 DEF Verdict

LEMMA TextsAreSequences == \A t \in AllTexts : t \in Seq(Tokens)
<1>1. \A t \in FewTexts : t \in Seq(Tokens)
  <2>1. "hm" \in Tokens /\ "prose" \in Tokens /\ "report" \in Tokens
        /\ "newline" \in Tokens /\ "mixed" \in Tokens
    BY DEF Tokens, Objects
  <2> HIDE DEF Tokens
  <2>2. /\ <<>> \in Seq(Tokens) /\ <<"hm">> \in Seq(Tokens) /\ <<"prose">> \in Seq(Tokens)
        /\ <<"report">> \in Seq(Tokens) /\ <<"newline", "mixed">> \in Seq(Tokens)
    BY <2>1
  <2>3. QED BY <2>2 DEF FewTexts
<1>2. ASSUME NEW n \in 0..MaxText, NEW t \in [1..n -> Tokens] PROVE t \in Seq(Tokens)
  OBVIOUS
<1>3. QED BY <1>1, <1>2 DEF AllTexts, Texts

-----------------------------------------------------------------------------
\* Once the activity has returned after a response, one of the two readers gave its outcome.
Answered ==
    pc = "returned" /\ last # <<>>
        => outcome = PlainOutcome(last[1]) \/ outcome = StreamOutcome(last)

\* Nothing is read before the server has answered.
NothingRead == pc = "requested" => last = <<>>

LastIsResponse == last = <<>> \/ \E b \in Responses : last = <<b>>

IInv == TypeOK /\ Answered /\ NothingRead /\ LastIsResponse

LEMMA ReplyStep == ASSUME IInv, [Next]_vars PROVE IInv'
<1>1. CASE Answer
  <2>1. UNCHANGED last /\ pc = "requested"
    BY <1>1 DEF Answer
  <2>2. last' = <<>>
    BY <2>1 DEF IInv, NothingRead
  <2>3. \/ pc' = "returned" /\ outcome' \in {"retry", "final"}
        \/ pc' \in {"plain", "stream"} /\ outcome' = outcome
    BY <1>1 DEF Answer, Return
  <2>4. TypeOK'
    BY <2>1, <2>3 DEF IInv, TypeOK, Outcomes
  <2>5. QED BY <2>2, <2>3, <2>4 DEF IInv, Answered, NothingRead, LastIsResponse
<1>2. CASE ReadJSONRPCResponse
  <2>1. PICK b \in Responses : last' = <<b>> /\ pc' = "returned" /\ outcome' = PlainOutcome(b)
    BY <1>2 DEF ReadJSONRPCResponse, Return, Responses
  <2>2. Len(last') = 1 /\ last'[1] = b
    BY <2>1
  <2>3. QED BY <2>1, <2>2, OutcomeIs DEF IInv, TypeOK, Answered, NothingRead, LastIsResponse, Outcomes
<1>3. CASE ReadEvent
  <2>1. PICK b \in Responses : last' = <<b>> /\ UNCHANGED <<pc, outcome>> /\ pc = "stream"
    BY <1>3 DEF ReadEvent, Responses
  <2>2. Len(last') = 1
    BY <2>1
  <2>3. QED BY <2>1, <2>2 DEF IInv, TypeOK, Answered, NothingRead, LastIsResponse
<1>4. CASE EndOfStream
  BY <1>4, OutcomeIs DEF EndOfStream, Return, IInv, TypeOK, Answered, NothingRead, LastIsResponse, Outcomes
<1>5. CASE StreamBreaks
  BY <1>5 DEF StreamBreaks, Return, IInv, TypeOK, Answered, NothingRead, LastIsResponse, Outcomes
<1>6. CASE UNCHANGED vars
  BY <1>6 DEF vars, IInv, TypeOK, Answered, NothingRead, LastIsResponse
<1>7. QED BY <1>1, <1>2, <1>3, <1>4, <1>5, <1>6 DEF Next

\* The inductive invariant holds of every reachable state.
THEOREM ReplyIInv == Spec => []IInv
<1>1. Init => IInv
  BY DEF Init, IInv, TypeOK, Answered, NothingRead, LastIsResponse, Outcomes
<1>2. IInv /\ [Next]_vars => IInv'
  BY ReplyStep
<1>3. QED BY <1>1, <1>2, PTL DEF Spec

\* The activity keeps to its states and outcomes, and has an outcome once it has returned.
THEOREM ReplyTypeOK == Spec => []TypeOK
<1>1. IInv => TypeOK
  BY DEF IInv
<1>2. QED BY <1>1, ReplyIInv, PTL

\* For texts of any length, an error-free response with a text in its artifact or message
\* has the same outcome whether it comes in a plain body or as the end of a stream.
THEOREM ReplyTransportsAgree == Spec => []TransportsAgree
<1>1. IInv => TransportsAgree
  <2> SUFFICES ASSUME IInv, AgentTexts # {} PROVE outcome = PlainOutcome(last[1]) /\ outcome = StreamOutcome(last)
    BY DEF TransportsAgree
  <2>1. /\ pc = "returned" /\ last # <<>> /\ last[1].error = "none"
        /\ Parts(last[1], {}) # <<>>
    BY DEF AgentTexts
  <2>2. PICK b \in Responses : last = <<b>>
    BY <2>1 DEF IInv, LastIsResponse
  <2>3. last[1] = b
    BY <2>2
  <2>4. PlainOutcome(last[1]) = StreamOutcome(last)
    BY <2>1, <2>2, <2>3, SameText
  <2>5. QED BY <2>1, <2>4 DEF IInv, Answered
<1>2. QED BY <1>1, ReplyIInv, PTL

\* For texts of any length, the report in an answer becomes the diagnosis behind whatever
\* prose, line breaks and stray fences; behind prose also in a fence, and before more prose.
THEOREM ReplyReportFound == Spec => []ReportFound
<1>1. IInv => ReportFound
  <2> SUFFICES ASSUME IInv, NEW t \in AgentTexts, HoldsReport(t),
                      \/ After(t) \subseteq {"newline"}
                      \/ /\ ~StartsObject(TrimSpace(t))
                         /\ After(t) \subseteq {"newline", "fence"} \/ Where(t, {"fence"}) = {}
               PROVE  outcome = "diagnosis"
    BY DEF ReportFound
  <2>1. /\ pc = "returned" /\ last # <<>> /\ last[1].error = "none"
        /\ Parts(last[1], {}) # <<>> /\ t = Parts(last[1], {})[1]
    BY DEF AgentTexts
  <2>2. PICK b \in Responses : last = <<b>>
    BY <2>1 DEF IInv, LastIsResponse
  <2>3. last[1] = b
    BY <2>2
  <2>4. t \in AllTexts /\ outcome = Verdict(t)
    BY <2>1, <2>2, <2>3, SameText DEF IInv, Answered
  <2>5. t \in Seq(Tokens)
    BY <2>4, TextsAreSequences
  <2>6. PICK i \in Where(t, {"report", "mixed"}) : Where(t, Opens \cup Closes) = {i}
    BY DEF HoldsReport
  <2>7. i \in 1..Len(t) /\ t[i] \in {"report", "mixed"}
    BY <2>5 DEF Where
  <2>8. \A k \in 1..Len(t) : t[k] \in Opens \cup Closes => k = i
    BY <2>5, <2>6 DEF Where
  <2>9. IsAt(t, i)
    BY <2>7, <2>8 DEF IsAt
  <2>10. StripMarkdownJSON(t) = <<t[i]>>
    BY <2>5, <2>9, StripFindsReport
  <2>11. QED BY <2>4, <2>7, <2>10, VerdictOfReport
<1>2. QED BY <1>1, ReplyIInv, PTL
=============================================================================
