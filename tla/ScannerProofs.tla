--------------------------- MODULE ScannerProofs ---------------------------
(***************************************************************************)
(* Proofs about Scanner, for texts, rules and articles of any size.        *)
(*                                                                         *)
(* FindsAll speaks of the end of a scan.  Its strengthening says the same  *)
(* of every field the scan has passed, and of the one it is in up to       *)
(* searchFrom: that is the invariant of the loop in containsHits.          *)
(***************************************************************************)
EXTENDS Scanner, TLAPS

Past(i, j) == i < ri \/ (i = ri /\ j < si)
Here == pc \in {"contains", "panic"}

(* Inside containsHits the field, the rule and its keyword are sound. *)
InSearch ==
  Here => /\ ri \in 1..Len(rules) /\ si \in 1..Len(rules[ri].scopes)
          /\ rules[ri].kind = "contains" /\ rules[ri].name.trim # <<>>
          /\ articleFieldValue(rules[ri].scopes[si]).trim # <<>>

HitsBehind ==
  \A h \in hits : Past(h.rule, h.scope) \/ (Here /\ h.rule = ri /\ h.scope = si)

FieldOf(i, j) == articleFieldValue(rules[i].scopes[j])
Occ(i, j) == Occurrences(FieldOf(i, j).low, rules[i].name.trimLow)
NeedleLen(i) == Len(rules[i].name.trim)

PassedFields ==
  \A i \in DOMAIN rules : \A j \in DOMAIN rules[i].scopes :
    Past(i, j) /\ Searched(i, j) =>
      Greedy(Starts(i, j), Occ(i, j), NeedleLen(i), Len(FieldOf(i, j).raw))

ThisField ==
  pc = "contains" /\ Searched(ri, si) =>
    /\ Greedy(Starts(ri, si), Occ(ri, si), NeedleLen(ri), from)
    /\ from <= Len(FieldOf(ri, si).low)
    /\ \A p \in Starts(ri, si) : p + NeedleLen(ri) <= from

AtTheEnd == pc = "done" => ri > Len(rules)

IInv == TypeOK /\ InSearch /\ HitsBehind /\ AtTheEnd /\ PassedFields /\ ThisField
        /\ SnippetShowsHit /\ PanicOnlyOnWidth

-----------------------------------------------------------------------------
(* An occurrence lies inside the text. *)
LEMMA OccurrenceInText ==
  ASSUME NEW s, NEW sub, Len(s) \in Nat, Len(sub) \in Nat,
         NEW i \in Occurrences(s, sub)
  PROVE  i \in Nat /\ i + Len(sub) <= Len(s)
  BY DEF Occurrences

(* The parts of a rule at its place in the list. *)
LEMMA RuleParts ==
  ASSUME TypeOK, NEW i \in 1..Len(rules)
  PROVE  /\ rules[i] \in Rule /\ rules[i].name \in Texts
         /\ rules[i].scopes \in Seq(STRING)
         /\ Len(rules[i].scopes) \in Nat
         /\ DOMAIN rules[i].scopes = 1..Len(rules[i].scopes)
         /\ DOMAIN rules = 1..Len(rules) /\ Len(rules) \in Nat
<1>1. rules \in Seq(Rule)
  BY ScannerAssumption DEF TypeOK
<1>2. rules[i] \in Rule
  BY <1>1
<1> QED
  BY <1>1, <1>2 DEF Rule

(* The parts of a text. *)
LEMMA TextParts ==
  ASSUME NEW t \in Texts
  PROVE  /\ t.raw \in Seq(Bytes) /\ t.low \in Seq(Bytes)
         /\ t.trim \in Seq(Bytes) /\ t.trimLow \in Seq(Bytes)
         /\ Len(t.raw) \in Nat /\ Len(t.low) \in Nat
         /\ Len(t.trim) \in Nat /\ Len(t.trimLow) \in Nat
         /\ Len(t.trim) <= Len(t.raw)
         /\ (t.trim # <<>> => Len(t.trim) > 0)
<1>1. t \in Text
  BY ScannerAssumption
<1>2. /\ t.raw \in Seq(Bytes) /\ t.low \in Seq(Bytes)
      /\ t.trim \in Seq(Bytes) /\ t.trimLow \in Seq(Bytes)
  BY <1>1 DEF Text
<1>3. Len(t.trim) <= Len(t.raw)
  BY ScannerAssumption
<1> QED
  BY <1>2, <1>3

(* A field that is not blank is a field of the article. *)
LEMMA FieldParts ==
  ASSUME TypeOK, NEW scope, articleFieldValue(scope).trim # <<>>
  PROVE  scope \in Fields /\ articleFieldValue(scope) \in Texts
  BY DEF TypeOK, articleFieldValue, NoText

LEMMA SliceType ==
  ASSUME NEW s \in Seq(Bytes), NEW i \in Nat, NEW j \in Nat, i <= j, j <= Len(s)
  PROVE  Slice(s, i, j) \in Seq(Bytes)
  BY DEF Slice

(* A hit whose bounds lie in the text is well formed and is shown. *)
LEMMA HitOK ==
  ASSUME NEW i \in Nat, NEW j \in Nat, NEW t \in Texts,
         NEW start \in Nat, NEW end \in Nat, start <= end, end <= Len(t.raw),
         NEW matched \in Seq(Bytes)
  PROVE  LET h == buildHit(i, j, t, matched, start, end) IN
         /\ h \in Hit
         /\ h.rule = i /\ h.scope = j /\ h.start = start
         /\ h.left <= h.start /\ h.start <= h.end /\ h.end <= h.right
         /\ h.right <= Len(t.raw)
<1>1. Len(t.raw) \in Nat
  BY TextParts
<1>2. SnippetContext \in Nat
  BY ScannerAssumption
<1> QED
  BY <1>1, <1>2 DEF buildHit, buildSnippet, Hit

(* Taking the next occurrence keeps the choice greedy. *)
LEMMA GreedyStep ==
  ASSUME NEW O \in SUBSET Nat, NEW S \in SUBSET O, NEW n \in Nat \ {0},
         NEW f \in Nat, Greedy(S, O, n, f), \A p \in S : p + n <= f,
         NEW start \in O, start >= f, \A x \in O : x >= f => start <= x
  PROVE  /\ Greedy(S \cup {start}, O, n, start + n)
         /\ \A p \in S \cup {start} : p + n <= start + n
<1>1. \A p \in S : p + n <= start
  OBVIOUS
<1>2. \A p, q \in S \cup {start} : p < q => p + n <= q
  BY <1>1 DEF Greedy
<1>3. ASSUME NEW p \in O, p < start + n
      PROVE  p \in S \cup {start} \/ \E q \in S \cup {start} : q < p /\ p < q + n
  <2>1. CASE p < f
    BY <2>1 DEF Greedy
  <2>2. CASE p >= f
    BY <1>3, <2>2
  <2> QED
    BY <2>1, <2>2
<1>4. \A p \in S \cup {start} : p + n <= start + n
  BY <1>1
<1> QED
  BY <1>2, <1>3, <1>4 DEF Greedy

-----------------------------------------------------------------------------
LEMMA InitOK == Init => IInv
<1> SUFFICES ASSUME Init PROVE IInv
  OBVIOUS
<1>1. rules \in Seq(Rule)
  BY ScannerAssumption DEF Init
<1>2. TypeOK
  <2>1. ri <= Len(rules) => si <= Len(rules[ri].scopes) + 1
    BY <1>1 DEF Init, Rule
  <2>2. ri \in 1..(Len(rules) + 1)
    BY <1>1 DEF Init
  <2> QED
    BY <2>1, <2>2 DEF Init, TypeOK
<1>3. PassedFields
  <2> SUFFICES ASSUME NEW i \in DOMAIN rules, NEW j \in DOMAIN rules[i].scopes,
                      Past(i, j)
               PROVE  FALSE
    BY DEF PassedFields
  <2>1. i \in 1..Len(rules)
    BY <1>1
  <2>2. j \in 1..Len(rules[i].scopes)
    BY <1>2, <2>1, RuleParts
  <2> QED
    BY <2>1, <2>2, <1>1 DEF Past, Init
<1> QED
  BY <1>2, <1>3 DEF IInv, Init, InSearch, Here, HitsBehind, ThisField,
     SnippetShowsHit, PanicOnlyOnWidth, AtTheEnd

(* A field that is not searched is passed; hits in it are kept. *)
LEMMA PassField ==
  ASSUME IInv, AtField, UNCHANGED <<article, rules, pc, ri, from>>, si' = si + 1,
         ~Searched(ri, si), NEW H, hits' = hits \cup H,
         \A h \in H : /\ h \in Hit /\ h.rule = ri /\ h.scope = si
                     /\ h.left <= h.start /\ h.start <= h.end /\ h.end <= h.right
                     /\ h.right <= Len(FieldOf(ri, si).raw)
  PROVE  IInv'
<1> USE DEF IInv
<1>1. /\ ri \in 1..Len(rules) /\ Len(rules) \in Nat
      /\ si \in 1..Len(rules[ri].scopes) /\ Len(rules[ri].scopes) \in Nat
  <2>1. rules \in Seq(Rule)
    BY ScannerAssumption DEF TypeOK
  <2>2. ri \in 1..Len(rules) /\ Len(rules) \in Nat
    BY <2>1 DEF TypeOK, AtField
  <2>3. Len(rules[ri].scopes) \in Nat
    BY <2>2, RuleParts
  <2> QED
    BY <2>2, <2>3 DEF TypeOK, AtField
<1>2. TypeOK'
  BY <1>1 DEF TypeOK
<1>3. ~Here' /\ ~Here /\ pc' # "panic" /\ pc' # "contains"
  BY DEF Here, AtField
<1>4. HitsBehind'
  BY <1>1, <1>3 DEF HitsBehind, Past, TypeOK, Hit
<1>5. PassedFields'
  <2> SUFFICES ASSUME NEW i \in DOMAIN rules, NEW j \in DOMAIN rules[i].scopes,
                      Past(i, j)', Searched(i, j)
               PROVE  Greedy(Starts(i, j)', Occ(i, j), NeedleLen(i),
                             Len(FieldOf(i, j).raw))
    BY DEF PassedFields, Searched, Occ, NeedleLen, FieldOf, articleFieldValue
  <2>1. i \in 1..Len(rules)
    BY <1>1, RuleParts
  <2>2. j \in 1..Len(rules[i].scopes) /\ Len(rules[i].scopes) \in Nat
    BY <2>1, RuleParts
  <2>3. ~(i = ri /\ j = si)
    OBVIOUS
  <2>4. Past(i, j)
    BY <1>1, <2>1, <2>2, <2>3 DEF Past
  <2>5. Starts(i, j)' = Starts(i, j)
    BY <2>3 DEF Starts
  <2> QED
    BY <2>4, <2>5 DEF PassedFields
<1>6. SnippetShowsHit'
  BY DEF SnippetShowsHit, FieldOf, articleFieldValue
<1> QED
  BY <1>2, <1>3, <1>4, <1>5, <1>6 DEF InSearch, ThisField, PanicOnlyOnWidth,
     AtTheEnd, AtField, NextRule

LEMMA SkipStep == IInv /\ SkipField => IInv'
<1> SUFFICES ASSUME IInv, SkipField PROVE IInv'
  OBVIOUS
<1>1. ~Searched(ri, si)
  BY DEF SkipField, Searched, Blank, Value, TheRule, EmptyNeedle
<1>2. hits' = hits \cup {}
  BY DEF SkipField
<1> QED
  BY <1>1, <1>2, PassField DEF SkipField

(* Where the scan is, in AtField and in containsHits. *)
LEMMA AtFieldParts ==
  ASSUME TypeOK, AtField
  PROVE  ri \in 1..Len(rules) /\ ri \in Nat /\ si \in Nat
<1>1. rules \in Seq(Rule)
  BY ScannerAssumption DEF TypeOK
<1> QED
  BY <1>1 DEF TypeOK, AtField

LEMMA ExactStep == IInv /\ ExactField => IInv'
<1> SUFFICES ASSUME IInv, ExactField PROVE IInv'
  OBVIOUS
<1> DEFINE H == exactHits(ri, si, Value, TheRule.name)
<1>1. ~Searched(ri, si)
  BY DEF ExactField, Searched, TheRule
<1>2. Value \in Texts /\ Value = FieldOf(ri, si)
  BY FieldParts DEF IInv, ExactField, Blank, Value, TheRule, FieldOf
<1>3. ri \in Nat /\ si \in Nat
  BY AtFieldParts DEF IInv, ExactField
<1>4. Value.trim \in Seq(Bytes) /\ Len(Value.trim) \in Nat
      /\ Len(Value.trim) <= Len(Value.raw)
  BY <1>2, TextParts
<1>5. ASSUME NEW h \in H
      PROVE  /\ h \in Hit /\ h.rule = ri /\ h.scope = si
             /\ h.left <= h.start /\ h.start <= h.end /\ h.end <= h.right
             /\ h.right <= Len(FieldOf(ri, si).raw)
  <2>1. h = buildHit(ri, si, Value, Value.trim, 0, Len(Value.trim))
    BY <1>5 DEF exactHits
  <2>2. 0 \in Nat /\ 0 <= Len(Value.trim)
    BY <1>4
  <2> QED
    BY <2>1, <2>2, <1>2, <1>3, <1>4, HitOK
<1> QED
  BY <1>1, <1>5, PassField DEF ExactField

LEMMA RegexStep == IInv /\ RegexField => IInv'
<1> SUFFICES ASSUME IInv, RegexField PROVE IInv'
  OBVIOUS
<1>a. AtField /\ si' = si + 1 /\ UNCHANGED <<article, rules, pc, ri, from>>
  BY DEF RegexField
<1>1. ~Searched(ri, si)
  BY DEF RegexField, Searched, TheRule
<1>2. Value \in Texts /\ Value = FieldOf(ri, si)
  BY FieldParts DEF IInv, RegexField, Blank, Value, TheRule, FieldOf
<1>3. ri \in Nat /\ si \in Nat
  BY AtFieldParts DEF IInv, RegexField
<1>4. CASE UNCHANGED hits
  <2>1. hits' = hits \cup {}
    BY <1>4
  <2> QED
    BY <1>a, <1>1, <2>1, PassField, SMTT(30)
<1>5. CASE ~UNCHANGED hits
  <2>1. PICK L \in RegexLocs(Value) :
          hits' = hits \cup {buildHit(ri, si, Value,
                    Slice(Value.raw, p[1], p[2]), p[1], p[2]) : p \in L}
    BY <1>5 DEF RegexField
  <2> DEFINE H == {buildHit(ri, si, Value, Slice(Value.raw, p[1], p[2]), p[1], p[2])
                     : p \in L}
  <2>2. ASSUME NEW h \in H
        PROVE  /\ h \in Hit /\ h.rule = ri /\ h.scope = si
               /\ h.left <= h.start /\ h.start <= h.end /\ h.end <= h.right
               /\ h.right <= Len(FieldOf(ri, si).raw)
    <3>1. PICK p \in L : h = buildHit(ri, si, Value,
                                Slice(Value.raw, p[1], p[2]), p[1], p[2])
      BY <2>2
    <3>2. Len(Value.raw) \in Nat /\ Value.raw \in Seq(Bytes)
      BY <1>2, TextParts
    <3>3. p[1] \in Nat /\ p[2] \in Nat /\ p[1] <= p[2] /\ p[2] <= Len(Value.raw)
      <4>1. p \in Spans(Value)
        BY DEF RegexLocs
      <4> QED
        BY <4>1, <3>2 DEF Spans
    <3>4. Slice(Value.raw, p[1], p[2]) \in Seq(Bytes)
      BY <3>2, <3>3, SliceType
    <3> DEFINE m == Slice(Value.raw, p[1], p[2])
               k == p[1]
               l == p[2]
    <3>5. /\ h = buildHit(ri, si, Value, m, k, l) /\ m \in Seq(Bytes)
          /\ k \in Nat /\ l \in Nat /\ k <= l /\ l <= Len(Value.raw)
      BY <3>1, <3>3, <3>4
    <3> HIDE DEF m, k, l
    <3> QED
      BY <3>5, <1>2, <1>3, HitOK
  <2> HIDE DEF H
  <2>3. hits' = hits \cup H
    BY <2>1 DEF H
  <2> QED
    BY <1>a, <1>1, <2>2, <2>3, PassField
<1> QED
  BY <1>4, <1>5

LEMMA NextRuleStep == IInv /\ NextRule => IInv'
<1> SUFFICES ASSUME IInv, NextRule PROVE IInv'
  OBVIOUS
<1> USE DEF IInv
<1>1. rules \in Seq(Rule) /\ Len(rules) \in Nat /\ ri \in 1..Len(rules)
  <2>1. rules \in Seq(Rule)
    BY ScannerAssumption DEF TypeOK
  <2> QED
    BY <2>1 DEF TypeOK, NextRule
<1>2. TypeOK'
  <2>1. ri' <= Len(rules) => Len(rules[ri'].scopes) \in Nat
    <3>1. ri' <= Len(rules) => ri' \in 1..Len(rules)
      BY <1>1 DEF NextRule
    <3> QED
      BY <3>1, RuleParts
  <2> QED
    BY <1>1, <2>1 DEF TypeOK, NextRule
<1>3. ~Here' /\ ~Here /\ pc' # "panic" /\ pc' # "contains"
  BY DEF Here, NextRule
<1>4. HitsBehind'
  BY <1>1, <1>3 DEF HitsBehind, Past, TypeOK, Hit, NextRule
<1>5. PassedFields'
  <2> SUFFICES ASSUME NEW i \in DOMAIN rules, NEW j \in DOMAIN rules[i].scopes,
                      Past(i, j)', Searched(i, j)
               PROVE  Greedy(Starts(i, j), Occ(i, j), NeedleLen(i),
                             Len(FieldOf(i, j).raw))
    BY DEF PassedFields, Searched, Occ, NeedleLen, FieldOf, articleFieldValue,
       Starts, NextRule
  <2>1. i \in 1..Len(rules)
    BY <1>1
  <2>2. j \in 1..Len(rules[i].scopes) /\ Len(rules[i].scopes) \in Nat
    BY <2>1, RuleParts
  <2>3. Past(i, j)
    BY <1>1, <2>1, <2>2 DEF Past, NextRule, TypeOK
  <2> QED
    BY <2>3 DEF PassedFields
<1>6. SnippetShowsHit'
  BY DEF SnippetShowsHit, articleFieldValue, NextRule
<1> QED
  BY <1>2, <1>3, <1>4, <1>5, <1>6 DEF InSearch, ThisField, PanicOnlyOnWidth,
     AtTheEnd, AtField, NextRule

LEMMA FinishStep == IInv /\ Finish => IInv'
<1> SUFFICES ASSUME IInv, Finish PROVE IInv'
  OBVIOUS
<1> USE DEF IInv, Finish
<1>1. TypeOK'
  BY DEF TypeOK
<1>2. ~Here' /\ ~Here /\ pc' # "panic" /\ pc' # "contains"
  BY DEF Here
<1>3. HitsBehind'
  BY <1>2 DEF HitsBehind, Past
<1>4. PassedFields'
  BY DEF PassedFields, Past, Searched, Occ, NeedleLen, FieldOf,
     articleFieldValue, Starts
<1>5. SnippetShowsHit'
  BY DEF SnippetShowsHit, articleFieldValue
<1> QED
  BY <1>1, <1>2, <1>3, <1>4, <1>5 DEF InSearch, ThisField, PanicOnlyOnWidth,
     AtTheEnd, AtField, NextRule

LEMMA StartStep == IInv /\ StartContains => IInv'
<1> SUFFICES ASSUME IInv, StartContains PROVE IInv'
  OBVIOUS
<1> USE DEF IInv, StartContains
<1>1. ri \in 1..Len(rules) /\ ri \in Nat /\ si \in Nat
  BY AtFieldParts
<1>2. TypeOK'
  BY DEF TypeOK
<1>3. InSearch'
  <2>1. Len(rules[ri].scopes) \in Nat
    BY <1>1, RuleParts
  <2>2. si \in 1..Len(rules[ri].scopes)
    BY <2>1 DEF AtField, TypeOK
  <2> QED
    BY <1>1, <2>2 DEF InSearch, Blank, Value, TheRule, EmptyNeedle,
       articleFieldValue
<1>4. ~Here /\ Here' /\ pc' = "contains"
  BY DEF Here, AtField
<1>5. HitsBehind'
  BY <1>4 DEF HitsBehind, Past
<1>6. PassedFields'
  BY DEF PassedFields, Past, Searched, Occ, NeedleLen, FieldOf,
     articleFieldValue, Starts
<1>7. ThisField'
  <2>1. Starts(ri, si) = {}
    BY <1>1, <1>4 DEF HitsBehind, Past, Starts
  <2>2. FieldOf(ri, si) \in Texts /\ rules[ri].name \in Texts
    BY <1>1, FieldParts, RuleParts DEF Blank, Value, TheRule, FieldOf
  <2>3. /\ Len(FieldOf(ri, si).low) \in Nat
        /\ Len(rules[ri].name.trimLow) \in Nat
    BY <2>2, TextParts
  <2>4. \A p \in Occ(ri, si) : p \in Nat
    BY <2>3, OccurrenceInText DEF Occ
  <2>5. Greedy({}, Occ(ri, si), NeedleLen(ri), 0)
    BY <2>4 DEF Greedy
  <2>6. /\ Starts(ri, si)' = {} /\ Occ(ri, si)' = Occ(ri, si)
        /\ NeedleLen(ri)' = NeedleLen(ri) /\ FieldOf(ri, si)' = FieldOf(ri, si)
        /\ from' = 0
    BY <2>1 DEF Starts, Occ, FieldOf, NeedleLen, articleFieldValue
  <2>7. Greedy(Starts(ri, si), Occ(ri, si), NeedleLen(ri), from)'
    BY <2>5, <2>6 DEF Greedy
  <2> QED
    BY <2>3, <2>6, <2>7 DEF ThisField
<1>8. SnippetShowsHit'
  BY DEF SnippetShowsHit, articleFieldValue
<1> QED
  BY <1>2, <1>3, <1>4, <1>5, <1>6, <1>7, <1>8 DEF PanicOnlyOnWidth, AtTheEnd

(* Inside containsHits: the types, and where an occurrence ends. *)
LEMMA SearchParts ==
  ASSUME IInv, Here
  PROVE  /\ ri \in 1..Len(rules) /\ ri \in Nat /\ si \in Nat
         /\ si \in 1..Len(rules[ri].scopes) /\ Len(rules[ri].scopes) \in Nat
         /\ Value = FieldOf(ri, si) /\ Value \in Texts
         /\ TheRule.name \in Texts /\ Value.raw \in Seq(Bytes)
         /\ Len(Value.raw) \in Nat /\ Len(Value.low) \in Nat
         /\ Len(TheRule.name.trim) \in Nat \ {0}
         /\ Len(TheRule.name.trimLow) \in Nat
         /\ Occ(ri, si) = Occurrences(Value.low, TheRule.name.trimLow)
         /\ \A p \in Occ(ri, si) :
              p \in Nat /\ p + Len(TheRule.name.trimLow) <= Len(Value.low)
         /\ Searched(ri, si) <=> SameWidth(Value) /\ SameWidth(TheRule.name)
<1> USE DEF IInv
<1>1. /\ ri \in 1..Len(rules) /\ ri \in Nat /\ si \in Nat
      /\ si \in 1..Len(rules[ri].scopes) /\ Len(rules[ri].scopes) \in Nat
  BY RuleParts DEF InSearch, TypeOK
<1>2. Value = FieldOf(ri, si) /\ Value \in Texts /\ TheRule.name \in Texts
  BY <1>1, FieldParts, RuleParts DEF InSearch, Value, TheRule, FieldOf
<1>3. /\ Len(Value.raw) \in Nat /\ Len(Value.low) \in Nat
      /\ Value.raw \in Seq(Bytes)
      /\ Len(TheRule.name.trim) \in Nat \ {0}
      /\ Len(TheRule.name.trimLow) \in Nat
  BY <1>2, TextParts DEF InSearch, TheRule
<1>4. Occ(ri, si) = Occurrences(Value.low, TheRule.name.trimLow)
  BY <1>2 DEF Occ, TheRule
<1>5. \A p \in Occ(ri, si) :
        p \in Nat /\ p + Len(TheRule.name.trimLow) <= Len(Value.low)
  BY <1>3, <1>4, OccurrenceInText
<1>6. Searched(ri, si) <=> SameWidth(Value) /\ SameWidth(TheRule.name)
  BY <1>1, <1>2 DEF Searched, InSearch, Value, TheRule
<1> QED
  BY <1>1, <1>2, <1>3, <1>4, <1>5, <1>6

(* A panic leaves all as it is. *)
LEMMA PanicStep ==
  ASSUME IInv, pc = "contains", pc' = "panic", ~Searched(ri, si),
         UNCHANGED <<article, rules, ri, si, from, hits>>
  PROVE  IInv'
<1> USE DEF IInv
<1>1. Here /\ Here' /\ pc' # "contains"
  BY DEF Here
<1>2. TypeOK'
  BY DEF TypeOK
<1>3. InSearch' /\ HitsBehind'
  BY <1>1 DEF InSearch, HitsBehind, Past, articleFieldValue
<1>4. PassedFields'
  BY DEF PassedFields, Past, Searched, Occ, NeedleLen, FieldOf,
     articleFieldValue, Starts
<1>5. SnippetShowsHit'
  BY DEF SnippetShowsHit, articleFieldValue
<1>6. PanicOnlyOnWidth'
  <2>1. ~SameWidth(Value) \/ ~SameWidth(TheRule.name)
    BY <1>1, SearchParts
  <2>2. Value' = Value /\ TheRule' = TheRule
    BY DEF Value, TheRule, articleFieldValue
  <2> QED
    BY <2>1, <2>2 DEF PanicOnlyOnWidth, SameWidth
<1> QED
  BY <1>1, <1>2, <1>3, <1>4, <1>5, <1>6 DEF ThisField, AtTheEnd

LEMMA SearchPanicsStep == IInv /\ SearchPanics => IInv'
<1> SUFFICES ASSUME IInv, SearchPanics PROVE IInv'
  OBVIOUS
<1>1. Here /\ pc = "contains"
  BY DEF Here, SearchPanics
<1>2. ~Searched(ri, si)
  BY <1>1, SearchParts DEF SearchPanics, IInv, ThisField, TypeOK
<1> QED
  BY <1>1, <1>2, PanicStep DEF SearchPanics

LEMMA EndStep == IInv /\ EndContains => IInv'
<1> SUFFICES ASSUME IInv, EndContains PROVE IInv'
  OBVIOUS
<1> USE DEF IInv, EndContains
<1>1. Here /\ ~Here' /\ pc' # "contains" /\ pc' # "panic"
  BY DEF Here
<1>2. /\ ri \in 1..Len(rules) /\ si \in 1..Len(rules[ri].scopes)
      /\ ri \in Nat /\ si \in Nat /\ Len(rules[ri].scopes) \in Nat
  BY <1>1, SearchParts
<1>3. TypeOK'
  BY <1>2 DEF TypeOK
<1>4. HitsBehind'
  BY <1>1, <1>2 DEF HitsBehind, Past, TypeOK, Hit
<1>5. PassedFields'
  <2> SUFFICES ASSUME NEW i \in DOMAIN rules, NEW j \in DOMAIN rules[i].scopes,
                      Past(i, j)', Searched(i, j)
               PROVE  Greedy(Starts(i, j), Occ(i, j), NeedleLen(i),
                             Len(FieldOf(i, j).raw))
    BY DEF PassedFields, Searched, Occ, NeedleLen, FieldOf, articleFieldValue,
       Starts
  <2>1. i \in 1..Len(rules)
    BY <1>2, RuleParts
  <2>2. j \in 1..Len(rules[i].scopes) /\ Len(rules[i].scopes) \in Nat
    BY <2>1, RuleParts
  <2>3. CASE i = ri /\ j = si
    <3>1. Greedy(Starts(ri, si), Occ(ri, si), NeedleLen(ri), from)
      BY <2>3 DEF ThisField
    <3>2. \A p \in Occ(ri, si) : p < from
      BY <1>1, SearchParts
    <3> QED
      BY <2>3, <3>1, <3>2 DEF Greedy
  <2>4. CASE ~(i = ri /\ j = si)
    <3>1. Past(i, j)
      BY <1>2, <2>1, <2>2, <2>4 DEF Past
    <3> QED
      BY <3>1 DEF PassedFields
  <2> QED
    BY <2>3, <2>4
<1>6. SnippetShowsHit'
  BY DEF SnippetShowsHit, articleFieldValue
<1> QED
  BY <1>1, <1>3, <1>4, <1>5, <1>6 DEF InSearch, ThisField, PanicOnlyOnWidth,
     AtTheEnd, AtField, NextRule

LEMMA FindStep == IInv /\ FindNext => IInv'
<1> SUFFICES ASSUME IInv, FindNext PROVE IInv'
  OBVIOUS
<1> USE DEF IInv
<1>1. Here /\ pc = "contains" /\ UNCHANGED <<article, rules, ri, si>>
  BY DEF Here, FindNext
<1> DEFINE n == Len(TheRule.name.trim)
           O == Occurrences(Value.low, TheRule.name.trimLow)
<1>2. PICK start \in O :
        /\ IsIndex(Value.low, TheRule.name.trimLow, from, start)
        /\ IF start + n > Len(Value.raw)
             THEN pc' = "panic" /\ UNCHANGED <<hits, from>>
             ELSE /\ hits' = hits \cup {buildHit(ri, si, Value,
                                Slice(Value.raw, start, start + n), start, start + n)}
                  /\ from' = After(start, start + n) /\ UNCHANGED pc
  BY DEF FindNext
<1>3. /\ ri \in 1..Len(rules) /\ ri \in Nat /\ si \in Nat
      /\ Value = FieldOf(ri, si) /\ Value \in Texts /\ Value.raw \in Seq(Bytes)
      /\ Len(Value.raw) \in Nat /\ Len(Value.low) \in Nat
      /\ n \in Nat \ {0} /\ O = Occ(ri, si) /\ NeedleLen(ri) = n
      /\ Len(TheRule.name.trimLow) \in Nat
      /\ \A p \in O : p \in Nat /\ p + Len(TheRule.name.trimLow) <= Len(Value.low)
      /\ Searched(ri, si) <=> SameWidth(Value) /\ SameWidth(TheRule.name)
  BY <1>1, SearchParts DEF NeedleLen, TheRule
<1>4. CASE start + n > Len(Value.raw)
  <2>1. ~Searched(ri, si)
    BY <1>2, <1>3, <1>4 DEF SameWidth
  <2> QED
    BY <1>1, <1>2, <1>4, <2>1, PanicStep
<1>5. CASE ~(start + n > Len(Value.raw))
  <2> DEFINE h == buildHit(ri, si, Value, Slice(Value.raw, start, start + n),
                           start, start + n)
  <2>1. hits' = hits \cup {h} /\ from' = start + n /\ pc' = pc
    BY <1>2, <1>5 DEF After
  <2>2. start \in Nat /\ start + n \in Nat /\ start <= start + n
        /\ start + n <= Len(Value.raw)
    <3>1. start \in Nat /\ n \in Nat /\ Len(Value.raw) \in Nat
      BY <1>2, <1>3
    <3> QED BY <1>5, <3>1
  <2>3. Slice(Value.raw, start, start + n) \in Seq(Bytes)
    <3>1. Value.raw \in Seq(Bytes)
      BY <1>3
    <3> QED BY <2>2, <3>1, SliceType
  <2>4. /\ h \in Hit /\ h.rule = ri /\ h.scope = si /\ h.start = start
        /\ h.left <= h.start /\ h.start <= h.end /\ h.end <= h.right
        /\ h.right <= Len(Value.raw)
    <3> DEFINE end == start + n
    <3>1. end \in Nat /\ start <= end /\ end <= Len(Value.raw)
          /\ Slice(Value.raw, start, end) \in Seq(Bytes)
      BY <2>2, <2>3
    <3>3. ri \in Nat /\ si \in Nat /\ Value \in Texts /\ start \in Nat
      BY <1>3, <2>2
    <3> HIDE DEF end, n, O
    <3>2. LET x == buildHit(ri, si, Value, Slice(Value.raw, start, end), start, end)
          IN /\ x \in Hit /\ x.rule = ri /\ x.scope = si /\ x.start = start
             /\ x.left <= x.start /\ x.start <= x.end /\ x.end <= x.right
             /\ x.right <= Len(Value.raw)
      BY <3>1, <3>3, HitOK
    <3> QED
      BY <3>2 DEF end, n
  <2> HIDE DEF h
  <2>5. TypeOK'
    BY <1>1, <2>1, <2>2, <2>4 DEF TypeOK
  <2>6. InSearch' /\ HitsBehind'
    BY <1>1, <2>1, <2>4 DEF InSearch, HitsBehind, Past, Here, articleFieldValue
  <2>7. PassedFields'
    <3> SUFFICES ASSUME NEW i \in DOMAIN rules, NEW j \in DOMAIN rules[i].scopes,
                        Past(i, j), Searched(i, j)
                 PROVE  Greedy(Starts(i, j)', Occ(i, j), NeedleLen(i),
                               Len(FieldOf(i, j).raw))
      BY <1>1 DEF PassedFields, Searched, Occ, NeedleLen, FieldOf,
         articleFieldValue, Past
    <3>1. ~(i = ri /\ j = si)
      BY <1>3 DEF Past
    <3>2. Starts(i, j)' = Starts(i, j)
      BY <2>1, <2>4, <3>1 DEF Starts
    <3> QED
      BY <3>2 DEF PassedFields
  <2>8. ThisField'
    <3> SUFFICES ASSUME Searched(ri, si)
                 PROVE  /\ Greedy(Starts(ri, si)', O, n, start + n)
                        /\ start + n <= Len(Value.low)
                        /\ \A p \in Starts(ri, si)' : p + n <= start + n
      BY <1>1, <1>3, <2>1 DEF ThisField, Searched, Occ, NeedleLen, FieldOf,
         articleFieldValue
    <3>1. /\ Greedy(Starts(ri, si), O, n, from)
          /\ \A p \in Starts(ri, si) : p + n <= from
      BY <1>1, <1>3 DEF ThisField
    <3>2. Starts(ri, si)' = Starts(ri, si) \cup {start}
      BY <1>1, <2>1, <2>4 DEF Starts
    <3>3. start + n <= Len(Value.low)
      BY <1>3, <2>2 DEF SameWidth
    <3>4. O \in SUBSET Nat /\ Starts(ri, si) \in SUBSET O /\ from \in Nat
      BY <1>3, <3>1 DEF Greedy, TypeOK
    <3>5. start >= from /\ \A x \in O : x >= from => start <= x
      BY <1>2 DEF IsIndex
    <3>6. start \in O /\ n \in Nat \ {0}
      BY <1>2, <1>3
    <3> HIDE DEF n, O
    <3>7. /\ Greedy(Starts(ri, si) \cup {start}, O, n, start + n)
          /\ \A p \in Starts(ri, si) \cup {start} : p + n <= start + n
      BY <3>1, <3>4, <3>5, <3>6, GreedyStep
    <3> QED
      BY <3>2, <3>3, <3>7
  <2>9. SnippetShowsHit'
    BY <1>1, <1>3, <2>1, <2>4 DEF SnippetShowsHit, articleFieldValue, FieldOf
  <2> QED
    BY <1>1, <2>1, <2>5, <2>6, <2>7, <2>8, <2>9 DEF PanicOnlyOnWidth, AtTheEnd
<1> QED
  BY <1>4, <1>5

-----------------------------------------------------------------------------
(* The strengthened invariant holds in every state of every scan. *)
THEOREM Invariance == Spec => []IInv
<1>1. Init => IInv
  BY InitOK
<1>2. IInv /\ [Next]_vars => IInv'
  <2> SUFFICES ASSUME IInv, [Next]_vars PROVE IInv'
    OBVIOUS
  <2>1. CASE UNCHANGED vars
    <3> USE <2>1 DEF vars, IInv
    <3>1. TypeOK' /\ InSearch' /\ HitsBehind' /\ AtTheEnd'
      BY DEF TypeOK, InSearch, HitsBehind, AtTheEnd, Here, Past, articleFieldValue
    <3>2. PassedFields'
      BY DEF PassedFields, Past, Searched, Occ, NeedleLen, FieldOf,
         articleFieldValue, Starts
    <3>3. ThisField'
      BY DEF ThisField, Searched, Occ, NeedleLen, FieldOf, articleFieldValue, Starts
    <3>4. SnippetShowsHit' /\ PanicOnlyOnWidth'
      BY DEF SnippetShowsHit, PanicOnlyOnWidth, Value, TheRule, articleFieldValue
    <3> QED
      BY <3>1, <3>2, <3>3, <3>4
  <2>2. CASE Next
    BY <2>2, NextRuleStep, FinishStep, SkipStep, ExactStep, RegexStep, StartStep,
       SearchPanicsStep, EndStep, FindStep DEF Next
  <2> QED
    BY <2>1, <2>2
<1> QED
  BY <1>1, <1>2, PTL DEF Spec

(* Positions and texts of hits have their types in every scan. *)
THEOREM TypeCorrect == Spec => []TypeOK
<1>1. IInv => TypeOK
  BY DEF IInv
<1> QED
  BY <1>1, Invariance, PTL

(* containsHits finds the greedy occurrences, all of them and no others,    *)
(* for every text, keyword and list of rules.                               *)
THEOREM FindsAllHolds == Spec => []FindsAll
<1>1. IInv => FindsAll
  <2> SUFFICES ASSUME IInv, pc = "done",
                      NEW i \in DOMAIN rules, NEW j \in DOMAIN rules[i].scopes,
                      Searched(i, j)
               PROVE  Greedy(Starts(i, j), Occ(i, j), NeedleLen(i),
                             Len(FieldOf(i, j).raw))
    BY DEF FindsAll, Occ, NeedleLen, FieldOf
  <2>1. rules \in Seq(Rule)
    BY ScannerAssumption DEF IInv, TypeOK
  <2>2. i \in 1..Len(rules) /\ Len(rules) \in Nat
    BY <2>1
  <2>3. Past(i, j)
    BY <2>2 DEF Past, IInv, AtTheEnd, TypeOK
  <2> QED
    BY <2>3 DEF IInv, PassedFields
<1> QED
  BY <1>1, Invariance, PTL

(* A hit's snippet shows the hit; buildSnippet never leaves the field. *)
THEOREM SnippetShowsHitHolds == Spec => []SnippetShowsHit
<1>1. IInv => SnippetShowsHit
  BY DEF IInv
<1> QED
  BY <1>1, Invariance, PTL

(* Slices are in range unless lower case changes the length of a text. *)
THEOREM PanicOnlyOnWidthHolds == Spec => []PanicOnlyOnWidth
<1>1. IInv => PanicOnlyOnWidth
  BY DEF IInv
<1> QED
  BY <1>1, Invariance, PTL
=============================================================================
