------------------------------ MODULE Scanner ------------------------------
(***************************************************************************)
(* KeywordScanner (articleinspect/scan/scanner.go): the hits of a task's   *)
(* rules in one article.                                                   *)
(*                                                                         *)
(* Go strings are sequences of bytes, and every position is a byte offset. *)
(* contains searches the lower-cased text but cuts its hits out of the     *)
(* text itself; lower case may be shorter or longer than what it stands    *)
(* for, and a slice out of range panics.  strings.ToLower, TrimSpace and   *)
(* EqualFold are not modelled: a text comes with what they return for it.  *)
(***************************************************************************)
EXTENDS Integers, Sequences, FiniteSets

CONSTANTS
  Bytes,
  Texts,             \* texts and keyword names, as Text below
  Fields,            \* the fields of an article that a scope may name
  RuleLists,         \* what a task's rule snapshot may be
  SnippetContext,    \* 24 bytes to either side of a hit
  MaxRegexLength,    \* 128 bytes
  MaxLocs            \* bound on the matches of a regular expression

(* The text, its lower case, the text without surrounding white space,     *)
(* the lower case of that, and its class under EqualFold.                  *)
Text == [raw : Seq(Bytes), low : Seq(Bytes), trim : Seq(Bytes),
         trimLow : Seq(Bytes), fold : Seq(Bytes)]
NoText == [raw |-> <<>>, low |-> <<>>, trim |-> <<>>, trimLow |-> <<>>,
           fold |-> <<>>]
(* inline: the pattern has a "(?"; compiles: regexp.Compile accepts it. *)
Rule == [kind : {"contains", "exact", "regex", "other"}, name : Texts,
         inline : BOOLEAN, compiles : BOOLEAN, scopes : Seq(STRING)]

ASSUME ScannerAssumption ==
  /\ Texts \subseteq Text
  /\ \A t \in Texts : (t.low = <<>> => t.raw = <<>>)
                   /\ (t.trimLow = <<>> => t.trim = <<>>)
                   /\ Len(t.trim) <= Len(t.raw)
  /\ RuleLists \subseteq Seq(Rule)
  /\ SnippetContext \in Nat \ {0} /\ MaxRegexLength \in Nat \ {0}
  /\ MaxLocs \in Nat

VARIABLES
  article,      \* the text of each field
  rules,
  pc,           \* where ScanArticle is
  ri, si,       \* the rule and the scope it is at
  from,         \* searchFrom of containsHits
  hits

vars == <<article, rules, pc, ri, si, from, hits>>

-----------------------------------------------------------------------------
Hit == [rule : Nat, scope : Nat, start : Nat, end : Nat, matched : Seq(Bytes),
        left : Nat, right : Nat]

TypeOK ==
  /\ article \in [Fields -> Texts]
  /\ rules \in RuleLists
  /\ pc \in {"next", "contains", "done", "panic"}
  /\ ri \in 1..(Len(rules) + 1)
  /\ si \in Nat \ {0} /\ (ri <= Len(rules) => si <= Len(rules[ri].scopes) + 1)
  /\ from \in Nat
  /\ hits \subseteq Hit

Init ==
  /\ article \in [Fields -> Texts] /\ rules \in RuleLists
  /\ pc = "next" /\ ri = 1 /\ si = 1 /\ from = 0 /\ hits = {}

-----------------------------------------------------------------------------
articleFieldValue(scope) == IF scope \in Fields THEN article[scope] ELSE NoText

(* Where in s the text sub starts. *)
Occurrences(s, sub) ==
  {i \in 0..(Len(s) - Len(sub)) : \A j \in 1..Len(sub) : s[i + j] = sub[j]}
(* strings.Index(s[from:], sub), as an offset into s. *)
IsIndex(s, sub, f, i) ==
  /\ i \in Occurrences(s, sub) /\ i >= f
  /\ \A x \in Occurrences(s, sub) : x >= f => i <= x

(* The bytes of the text a snippet shows. *)
buildSnippet_NoFloor(text, start, end) ==
  [left |-> start - SnippetContext,
   right |-> IF end + SnippetContext > Len(text.raw) THEN Len(text.raw)
                                                    ELSE end + SnippetContext]
buildSnippet_FromStart(text, start, end) ==
  [left |-> IF start < SnippetContext THEN 0 ELSE start - SnippetContext,
   right |-> IF start + SnippetContext > Len(text.raw) THEN Len(text.raw)
                                                    ELSE start + SnippetContext]
buildSnippet(text, start, end) ==
  [left |-> IF start < SnippetContext THEN 0 ELSE start - SnippetContext,
   right |-> IF end + SnippetContext > Len(text.raw) THEN Len(text.raw)
                                                    ELSE end + SnippetContext]

buildHit(i, j, text, matched, start, end) ==
  [rule |-> i, scope |-> j, start |-> start, end |-> end, matched |-> matched,
   left |-> buildSnippet(text, start, end).left,
   right |-> buildSnippet(text, start, end).right]

(* Slice of a Go string. *)
Slice(s, start, end) == SubSeq(s, start + 1, end)

exactHits(i, j, text, name) ==
  IF name.trim = <<>> \/ text.trim = <<>> \/ text.fold # name.fold THEN {}
  ELSE {buildHit(i, j, text, text.trim, 0, Len(text.trim))}

isSafeRegexPattern(rule) ==
  Len(rule.name.trim) <= MaxRegexLength /\ ~rule.inline

(* What FindAllStringIndex may return: some spans of the text, in order. *)
Spans(text) == {p \in (0..Len(text.raw)) \X (0..Len(text.raw)) : p[1] <= p[2]}
RegexLocs(text) ==
  {L \in SUBSET Spans(text) :
     /\ Cardinality(L) <= MaxLocs
     /\ \A p, q \in L : p = q \/ p[2] <= q[1] \/ q[2] <= p[1]}

EmptyNeedle_Never(rule) == FALSE
EmptyNeedle(rule) == rule.name.trim = <<>>

(* searchFrom after a hit. *)
After_Start(start, end) == start + 1
After_End(start, end) == end + 1
After(start, end) == end

-----------------------------------------------------------------------------
AtField == pc = "next" /\ ri <= Len(rules) /\ si <= Len(rules[ri].scopes)
TheRule == rules[ri]
Value   == articleFieldValue(TheRule.scopes[si])
Blank   == Value.trim = <<>>

NextRule ==
  /\ pc = "next" /\ ri <= Len(rules) /\ si > Len(rules[ri].scopes)
  /\ ri' = ri + 1 /\ si' = 1
  /\ UNCHANGED <<article, rules, pc, from, hits>>

Finish ==
  /\ pc = "next" /\ ri > Len(rules) /\ pc' = "done"
  /\ UNCHANGED <<article, rules, ri, si, from, hits>>

(* A blank field, an unknown match type or an empty keyword. *)
SkipField ==
  /\ AtField
  /\ \/ Blank \/ TheRule.kind = "other"
     \/ TheRule.kind = "contains" /\ EmptyNeedle(TheRule)
  /\ si' = si + 1
  /\ UNCHANGED <<article, rules, pc, ri, from, hits>>

ExactField ==
  /\ AtField /\ ~Blank /\ TheRule.kind = "exact"
  /\ hits' = hits \cup exactHits(ri, si, Value, TheRule.name)
  /\ si' = si + 1
  /\ UNCHANGED <<article, rules, pc, ri, from>>

RegexField ==
  /\ AtField /\ ~Blank /\ TheRule.kind = "regex"
  /\ IF TheRule.name.trim = <<>> \/ ~isSafeRegexPattern(TheRule)
          \/ ~TheRule.compiles
     THEN UNCHANGED hits
     ELSE \E L \in RegexLocs(Value) :
            hits' = hits \cup {buildHit(ri, si, Value,
                                 Slice(Value.raw, p[1], p[2]), p[1], p[2]) : p \in L}
  /\ si' = si + 1
  /\ UNCHANGED <<article, rules, pc, ri, from>>

StartContains ==
  /\ AtField /\ ~Blank /\ TheRule.kind = "contains" /\ ~EmptyNeedle(TheRule)
  /\ pc' = "contains" /\ from' = 0
  /\ UNCHANGED <<article, rules, ri, si, hits>>

(* lowerValue[searchFrom:] is out of range. *)
SearchPanics ==
  /\ pc = "contains" /\ from > Len(Value.low) /\ pc' = "panic"
  /\ UNCHANGED <<article, rules, ri, si, from, hits>>

EndContains ==
  /\ pc = "contains" /\ from <= Len(Value.low)
  /\ \A i \in Occurrences(Value.low, TheRule.name.trimLow) : i < from
  /\ pc' = "next" /\ si' = si + 1
  /\ UNCHANGED <<article, rules, ri, from, hits>>

FindNext ==
  /\ pc = "contains" /\ from <= Len(Value.low)
  /\ \E start \in Occurrences(Value.low, TheRule.name.trimLow) :
       LET end == start + Len(TheRule.name.trim) IN
       /\ IsIndex(Value.low, TheRule.name.trimLow, from, start)
       /\ IF end > Len(Value.raw)            \* value[start:end] panics
            THEN pc' = "panic" /\ UNCHANGED <<hits, from>>
            ELSE /\ hits' = hits \cup {buildHit(ri, si, Value,
                                  Slice(Value.raw, start, end), start, end)}
                 /\ from' = After(start, end) /\ UNCHANGED pc
  /\ UNCHANGED <<article, rules, ri, si>>

Next == NextRule \/ Finish \/ SkipField \/ ExactField \/ RegexField
        \/ StartContains \/ SearchPanics \/ EndContains \/ FindNext

Spec == Init /\ [][Next]_vars
(* ScanArticle is a loop without calls that block. *)
FairSpec == Spec /\ WF_vars(Next)

-----------------------------------------------------------------------------
(* Properties. *)

(* Lower case keeps every byte in its place. *)
SameWidth(t) == Len(t.low) = Len(t.raw) /\ Len(t.trimLow) = Len(t.trim)

(* The starts of the hits of scope j of rule i. *)
Starts(i, j) == {h.start : h \in {x \in hits : x.rule = i /\ x.scope = j}}

(* S is the greedy choice among the occurrences Occ of a text of length n:  *)
(* every occurrence below the limit is taken, or overlaps one to its left   *)
(* that is, and those taken do not overlap.                                 *)
Greedy(S, Occ, n, limit) ==
  /\ S \subseteq Occ
  /\ \A p \in Occ : p < limit => p \in S \/ \E q \in S : q < p /\ p < q + n
  /\ \A p, q \in S : p < q => p + n <= q

Searched(i, j) ==
  /\ rules[i].kind = "contains" /\ rules[i].name.trim # <<>>
  /\ articleFieldValue(rules[i].scopes[j]).trim # <<>>
  /\ SameWidth(rules[i].name)
  /\ SameWidth(articleFieldValue(rules[i].scopes[j]))

(* When lower case keeps positions, containsHits finds exactly the          *)
(* occurrences a reader would mark going from left to right: none is missed *)
(* and none is counted twice, in whatever field and after whatever rules.   *)
FindsAll ==
  pc = "done" =>
    \A i \in DOMAIN rules : \A j \in DOMAIN rules[i].scopes : Searched(i, j) =>
      Greedy(Starts(i, j),
             Occurrences(articleFieldValue(rules[i].scopes[j]).low,
                         rules[i].name.trimLow),
             Len(rules[i].name.trim),
             Len(articleFieldValue(rules[i].scopes[j]).raw))

(* The snippet of a hit lies inside the field and shows all the bytes from  *)
(* the start to the end the hit reports.                                    *)
SnippetShowsHit ==
  \A h \in hits :
    /\ h.left <= h.start /\ h.start <= h.end /\ h.end <= h.right
    /\ h.right <= Len(articleFieldValue(rules[h.rule].scopes[h.scope]).raw)

(* A scan panics only over a character whose lower case has another length, *)
(* in the field or in the keyword.                                          *)
PanicOnlyOnWidth ==
  pc = "panic" => ~SameWidth(Value) \/ ~SameWidth(TheRule.name)

(* Every scan ends: the search always moves on. *)
ScanEnds == <>(pc \in {"done", "panic"})
=============================================================================
