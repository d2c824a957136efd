----------------------------- MODULE MCScanner -----------------------------
(* Constants of Scanner for model checking. *)
EXTENDS Scanner, SequencesExt

(* Characters and their bytes: letters, white space, the Kelvin sign (three *)
(* bytes, its lower case one) and a letter whose lower case is longer.      *)
Raw == [k |-> <<"k">>, K |-> <<"K">>, b |-> <<"b">>, s |-> <<" ">>,
        kelvin |-> <<"k1", "k2", "k3">>, wide |-> <<"w1", "w2">>]
Low == [Raw EXCEPT !.K = <<"k">>, !.kelvin = <<"k">>, !.wide = <<"v1", "v2", "v3">>]
MCBytes == {"k", "K", "b", " ", "k1", "k2", "k3", "w1", "w2", "v1", "v2", "v3"}

Encode(chars, code) == FlattenSeq([i \in DOMAIN chars |-> code[chars[i]]])
(* White space only leads or trails here. *)
TrimSpace(chars) == SelectSeq(chars, LAMBDA c : c # "s")
MakeText(chars) ==
  [raw |-> Encode(chars, Raw), low |-> Encode(chars, Low),
   trim |-> Encode(TrimSpace(chars), Raw),
   trimLow |-> Encode(TrimSpace(chars), Low),
   fold |-> Encode(TrimSpace(chars), Low)]

Words == UNION {[1..n -> {"k", "b"}] : n \in 0..3} \cup
  {<<"K">>, <<"k", "K", "k", "k">>, <<"kelvin">>, <<"k", "kelvin">>,
   <<"kelvin", "k">>, <<"wide">>, <<"wide", "k">>, <<"b", "wide", "k", "k">>,
   <<"s">>, <<"s", "k", "k">>}
MCTexts == {MakeText(w) : w \in Words}

MakeRule(kind, chars, scopes) ==
  [kind |-> kind, name |-> MakeText(chars), inline |-> FALSE,
   compiles |-> TRUE, scopes |-> scopes]
Both == <<"title", "body">>
MCRuleLists ==
  {<<>>, <<MakeRule("contains", <<"k", "k">>, Both)>>,
   <<MakeRule("contains", <<"K">>, Both), MakeRule("exact", <<"K">>, Both)>>,
   <<MakeRule("contains", <<"kelvin">>, <<"title">>)>>,
   <<MakeRule("contains", <<"wide">>, <<"title">>)>>,
   <<MakeRule("contains", <<"s">>, <<"body", "none">>),
     MakeRule("other", <<"k">>, Both),
     MakeRule("contains", <<"b", "k">>, <<"body">>)>>,
   <<MakeRule("regex", <<"k">>, <<"title">>),
     [MakeRule("regex", <<"k">>, <<"body">>) EXCEPT !.inline = TRUE]>>}
=============================================================================
