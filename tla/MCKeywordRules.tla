--------------------------- MODULE MCKeywordRules ---------------------------
(* Constants of KeywordRules for model checking. *)
EXTENDS KeywordRules, TLC

(* Category 1 and keyword 1 belong to "o1", category 2 to "o2". *)
MCCatSeed == 1 :> "o1" @@ 2 :> "o2" @@ 3 :> NoOrg
MCKwSeed  == 1 :> 1 @@ 2 :> NoId

In(kind, org, id) ==
  [kind |-> kind, org |-> org, bad |-> "none", id |-> id, ids |-> {},
   cat |-> 1, content |-> "x", enabled |-> TRUE, any |-> TRUE, page |-> 1]

(* Keyword 2 does not exist at first. *)
MCInputs ==
  {In("create", "o1", NoId), In("create", "o2", NoId),
   In("update", "o1", 1), [In("update", "o1", 1) EXCEPT !.content = "y"],
   In("delete", "o1", 1), In("delete", "o1", 2), In("delete", "o2", 1),
   [In("patch", "o1", 1) EXCEPT !.enabled = FALSE], In("get", "o2", 1),
   [In("list", "o1", NoId) EXCEPT !.cat = NoId, !.content = NoContent],
   [In("task", "o1", NoId) EXCEPT !.ids = {1}],
   In("catCreate", "o1", NoId), In("catDelete", "o1", 1),
   In("catDelete", "o2", 1), [In("catPatch", "o1", 1) EXCEPT !.enabled = FALSE],
   [In("catUpdate", "o2", 2) EXCEPT !.content = "y"],
   In("catList", "o1", NoId), In("get", NoOrg, 1)}
=============================================================================
