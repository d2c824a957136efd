---------------------------- MODULE KeywordRules ----------------------------
(***************************************************************************)
(* Inspection categories and keywords (articleinspect/rules) and the rules *)
(* a task takes from them (tasks/service.go, prepareTaskCreate).           *)
(*                                                                         *)
(* A keyword is a row in a category plus its scope rows.  Requests change  *)
(* both in one transaction, and read them with one statement each, outside *)
(* a transaction.  The locks are those of InnoDB: a statement that writes  *)
(* locks what it finds until its transaction ends, a DELETE that finds     *)
(* nothing keeps others from inserting there, and a plain SELECT sees what *)
(* is committed and waits for nothing.                                     *)
(***************************************************************************)
EXTENDS Integers, FiniteSets

CONSTANTS
  Requests,            \* connections, one request each at a time
  Orgs, CatIds, KwIds,
  Contents,            \* what else a row says: name, remark, operator, ...
  Inputs,              \* the requests that are made
  CatSeed, KwSeed,     \* rows there at the start: org of each category id,
                       \* category of each keyword id, or none
  PageSize,
  MaxSends, MaxFaults, MaxCrashes      \* bounds

NoOrg == "no org"        \* also: no session
NoId  == 0
NoContent == "any"       \* a list without a search text

KeywordKinds == {"create", "update", "delete", "patch", "get", "list"}
CategoryKinds == {"catCreate", "catUpdate", "catDelete", "catPatch",
                  "catGet", "catList"}
Kinds == KeywordKinds \cup CategoryKinds \cup {"task"}

(* bad: which part of the request fails its checks, a path or query        *)
(* parameter or the body; any: a list without the enabled filter.          *)
Input == [kind : Kinds, org : Orgs \cup {NoOrg}, bad : {"none", "param", "body"},
          id : CatIds \cup KwIds \cup {NoId}, ids : SUBSET KwIds,
          cat : CatIds \cup {NoId}, content : Contents \cup {NoContent},
          enabled : BOOLEAN, any : BOOLEAN, page : Int]

ASSUME RulesAssumption ==
  /\ CatIds \subseteq Nat \ {0} /\ KwIds \subseteq Nat \ {0}
  /\ IsFiniteSet(KwIds) /\ IsFiniteSet(CatIds)
  /\ NoOrg \notin Orgs /\ NoContent \notin Contents /\ Contents # {}
  /\ CatSeed \in [CatIds -> Orgs \cup {NoOrg}]
  /\ KwSeed \in [KwIds -> CatIds \cup {NoId}]
  /\ \A k \in KwIds : KwSeed[k] # NoId => CatSeed[KwSeed[k]] # NoOrg
  /\ Inputs \subseteq Input
  /\ \A i \in Inputs : i.bad = "none" =>
       /\ i.kind \in {"create", "update"} => i.cat \in CatIds
       /\ i.kind \in {"create", "update", "catCreate", "catUpdate"} =>
            i.content \in Contents
       /\ i.kind \in {"update", "delete", "patch", "get"} => i.id \in KwIds
       /\ i.kind \in {"catUpdate", "catDelete", "catPatch", "catGet"} =>
            i.id \in CatIds
  /\ PageSize \in Nat \ {0}
  /\ MaxSends \in Nat /\ MaxFaults \in Nat /\ MaxCrashes \in Nat

VARIABLES
  cats,         \* category rows
  kws, scopes,  \* keyword rows and their scope rows
  req,          \* control point and locals of each request
  (* history *)
  catOrg,       \* the organisation each category id was given to
  usedKws,      \* keyword ids that were given out
  sends, faults, crashes

tables == <<cats, kws, scopes, catOrg, usedKws>>
bounds == <<sends, faults, crashes>>
vars == <<cats, kws, scopes, req, catOrg, usedKws, sends, faults, crashes>>

-----------------------------------------------------------------------------
Category == [org : Orgs \cup {NoOrg}, content : Contents \cup {NoContent},
             enabled : BOOLEAN]
NoCategory == [org |-> NoOrg, content |-> NoContent, enabled |-> FALSE]

(* ver counts the writes of a rule as a whole; a scope row has that of the *)
(* write it comes from.                                                    *)
Keyword == [org : Orgs \cup {NoOrg}, cat : CatIds \cup {NoId},
            content : Contents \cup {NoContent}, enabled : BOOLEAN, ver : Nat]
NoKeyword == [org |-> NoOrg, cat |-> NoId, content |-> NoContent,
              enabled |-> FALSE, ver |-> 0]
ScopeRow == [org : Orgs, ver : Nat \ {0}]

(* id: the row it is about; locks: what it holds there; row, sc: what its  *)
(* transaction has written there; got, gotScopes, total: what it read;     *)
(* wrote: the version of the rule it committed, 0 for none.                *)
Steps == {"check", "insert", "row", "unscope", "scopes", "commit", "patch",
          "get", "count", "items", "getScopes",
          "catWrite", "catGet", "catCount", "catItems"}
Request ==
  [pc : Steps \cup {"idle", "done"}, in : Input, id : CatIds \cup KwIds \cup {NoId},
   locks : SUBSET {"row", "scopes", "gap"}, row : Keyword, sc : SUBSET ScopeRow,
   got : [KwIds -> Keyword], gotScopes : [KwIds -> SUBSET ScopeRow],
   total : Nat, wrote : Nat, status : {0, 200, 400, 401, 404, 500}]

NothingRead == [k \in KwIds |-> NoKeyword]
NoScopesRead == [k \in KwIds |-> {}]
NewRequest(pc, in, status) ==
  [pc |-> pc, in |-> in, id |-> in.id, locks |-> {}, row |-> NoKeyword,
   sc |-> {}, got |-> NothingRead, gotScopes |-> NoScopesRead, total |-> 0,
   wrote |-> 0, status |-> status]
NoInput == [kind |-> "list", org |-> NoOrg, bad |-> "param", id |-> NoId,
            ids |-> {}, cat |-> NoId, content |-> NoContent,
            enabled |-> FALSE, any |-> TRUE, page |-> 0]
NoRequest == NewRequest("idle", NoInput, 0)

TypeOK ==
  /\ cats \in [CatIds -> Category]
  /\ kws \in [KwIds -> Keyword]
  /\ scopes \in [KwIds -> SUBSET ScopeRow]
  /\ req \in [Requests -> Request]
  /\ catOrg \in [CatIds -> Orgs \cup {NoOrg}]
  /\ usedKws \subseteq KwIds
  /\ sends \in 0..MaxSends /\ faults \in 0..MaxFaults
  /\ crashes \in 0..MaxCrashes

Init ==
  /\ cats = [c \in CatIds |-> IF CatSeed[c] = NoOrg THEN NoCategory
               ELSE [org |-> CatSeed[c], content |-> CHOOSE x \in Contents : TRUE,
                     enabled |-> TRUE]]
  /\ kws = [k \in KwIds |-> IF KwSeed[k] = NoId THEN NoKeyword
               ELSE [org |-> CatSeed[KwSeed[k]], cat |-> KwSeed[k],
                     content |-> CHOOSE x \in Contents : TRUE,
                     enabled |-> TRUE, ver |-> 1]]
  /\ scopes = [k \in KwIds |-> IF KwSeed[k] = NoId THEN {}
               ELSE {[org |-> CatSeed[KwSeed[k]], ver |-> 1]}]
  /\ catOrg = CatSeed
  /\ usedKws = {k \in KwIds : KwSeed[k] # NoId}
  /\ req = [r \in Requests |-> NoRequest]
  /\ sends = 0 /\ faults = 0 /\ crashes = 0

-----------------------------------------------------------------------------
(* Requests. *)

Become(r, x) == req' = [req EXCEPT ![r] = x]
Goto(r, pc)  == Become(r, [req[r] EXCEPT !.pc = pc])

(* An answer; an open transaction is rolled back, its locks are gone. *)
Answered(q, status) ==
  [NewRequest("done", q.in, status) EXCEPT !.wrote = q.wrote]
Answer(r, status) == Become(r, Answered(req[r], status))

FirstStep(kind) ==
  CASE kind \in {"create", "update"} -> "check"
    [] kind = "delete"  -> "unscope"
    [] kind = "patch"   -> "patch"
    [] kind = "get"     -> "get"
    [] kind = "list"    -> "count"
    [] kind = "task"    -> "items"
    [] kind = "catGet"  -> "catGet"
    [] kind = "catList" -> "catCount"
    [] OTHER            -> "catWrite"

(* The handler: parameters, then the session's organisation (CurrentOrgID; *)
(* an orgid in the request is never used), then the rest of the input.     *)
Handle(r, in) ==
  /\ req[r].pc \in {"idle", "done"} /\ sends < MaxSends /\ sends' = sends + 1
  /\ Become(r, CASE in.bad = "param" -> NewRequest("done", in, 400)
                 [] in.bad # "param" /\ in.org = NoOrg ->
                      NewRequest("done", in, 401)
                 [] in.bad = "body" /\ in.org # NoOrg ->
                      NewRequest("done", in, 400)
                 [] OTHER -> NewRequest(FirstStep(in.kind), in, 0))
  /\ UNCHANGED <<tables, faults, crashes>>

(* Locks.  Scope rows are found through their organisation and keyword. *)
Holds(q, r, lock) == /\ q # r /\ lock \in req[q].locks
                     /\ req[q].id = req[r].id
RowFree(r) == \A q \in Requests : ~Holds(q, r, "row")
ScopeLocked(r, lock) ==
  \E q \in Requests : Holds(q, r, lock) /\ req[q].in.org = req[r].in.org

-----------------------------------------------------------------------------
(* Writing keywords. *)

CategoryExists_AnyOrg(org, c) == cats[c] # NoCategory
CategoryExists(org, c) == cats[c].org = org

ensureKeywordCategoryExists(r) ==
  LET in == req[r].in IN
  /\ req[r].pc = "check"
  /\ IF ~CategoryExists(in.org, in.cat) THEN Answer(r, 400)
     ELSE Goto(r, IF in.kind = "create" THEN "insert" ELSE "row")
  /\ UNCHANGED <<tables, bounds>>

(* The mapping's default:true stands in for a FALSE that is created. *)
Created(in) == [org |-> in.org, cat |-> in.cat, content |-> in.content,
                enabled |-> TRUE, ver |-> 1]
InsertKeyword(r) ==
  /\ req[r].pc = "insert"
  /\ \/ \E k \in KwIds \ usedKws :
          /\ usedKws' = usedKws \cup {k}
          /\ Become(r, [req[r] EXCEPT !.pc = "scopes", !.id = k,
                          !.locks = {"row"}, !.row = Created(req[r].in)])
     \/ /\ KwIds = usedKws              \* no id is left
        /\ Answer(r, 500) /\ UNCHANGED usedKws
  /\ UNCHANGED <<cats, kws, scopes, catOrg, bounds>>

(* MySQL reports the rows it changed.  One that already says all this, its *)
(* update_at too when it was written in the same second, is not among them.*)
Updated(in, row) == [org |-> row.org, cat |-> in.cat, content |-> in.content,
                     enabled |-> in.enabled, ver |-> row.ver + 1]
SaysSame(in, row) == /\ row.cat = in.cat /\ row.content = in.content
                     /\ row.enabled = in.enabled
UpdateKeyword(r) ==
  LET in == req[r].in
      row == kws[req[r].id]
  IN /\ req[r].pc = "row" /\ in.kind = "update" /\ RowFree(r)
     /\ \/ /\ row.org # in.org \/ SaysSame(in, row)
           /\ Answer(r, 404)
        \/ /\ row.org = in.org
           /\ Become(r, [req[r] EXCEPT !.pc = "unscope", !.row = Updated(in, row),
                                       !.locks = @ \cup {"row"}])
     /\ UNCHANGED <<tables, bounds>>

Others_None(in, k) == scopes[k]
Others(in, k) == {x \in scopes[k] : x.org # in.org}
DeleteScopes(r) ==
  LET in == req[r].in
      found == \E x \in scopes[req[r].id] : x.org = in.org
  IN /\ req[r].pc = "unscope"
     /\ ~ScopeLocked(r, "scopes")
     /\ Become(r, [req[r] EXCEPT
          !.pc = IF in.kind = "delete" THEN "row" ELSE "scopes",
          !.sc = Others(in, req[r].id),
          !.locks = @ \cup {IF found THEN "scopes" ELSE "gap"}])
     /\ UNCHANGED <<tables, bounds>>

ScopesFor_NoOrg(in, ver) == {[org |-> NoOrg, ver |-> ver]}
ScopesFor(in, ver) == {[org |-> in.org, ver |-> ver]}
CreateScopes(r) ==
  /\ req[r].pc = "scopes"
  /\ ~ScopeLocked(r, "scopes") /\ ~ScopeLocked(r, "gap")
  /\ Become(r, [req[r] EXCEPT
       !.pc = "commit", !.locks = @ \cup {"scopes"},
       !.sc = @ \cup ScopesFor(req[r].in, req[r].row.ver)])
  /\ UNCHANGED <<tables, bounds>>

DeleteKeyword(r) ==
  /\ req[r].pc = "row" /\ req[r].in.kind = "delete" /\ RowFree(r)
  /\ IF kws[req[r].id].org # req[r].in.org THEN Answer(r, 404)
     ELSE Become(r, [req[r] EXCEPT !.pc = "commit", !.row = NoKeyword,
                                   !.locks = @ \cup {"row"}])
  /\ UNCHANGED <<tables, bounds>>

(* What the transaction wrote becomes visible at once. *)
Committed(r) ==
  LET k == req[r].id IN
  /\ kws' = [kws EXCEPT ![k] = req[r].row]
  /\ scopes' = IF "scopes" \in req[r].locks
                 THEN [scopes EXCEPT ![k] = req[r].sc] ELSE scopes

Commit(r) ==
  /\ req[r].pc = "commit" /\ Committed(r)
  /\ IF req[r].in.kind = "delete" THEN Answer(r, 200)
     ELSE Become(r, [req[r] EXCEPT !.pc = "get", !.wrote = req[r].row.ver,
                       !.locks = {}, !.row = NoKeyword, !.sc = {}])
  /\ UNCHANGED <<cats, catOrg, usedKws, bounds>>

(* One statement, committed by itself. *)
PatchEnabled(r) ==
  LET in == req[r].in
      k == req[r].id
  IN /\ req[r].pc = "patch" /\ RowFree(r)
     /\ \/ /\ kws[k].org # in.org \/ kws[k].enabled = in.enabled
           /\ Answer(r, 404) /\ UNCHANGED kws
        \/ /\ kws[k].org = in.org
           /\ kws' = [kws EXCEPT ![k].enabled = in.enabled]
           /\ Become(r, [req[r] EXCEPT !.pc = "get", !.wrote = kws[k].ver])
     /\ UNCHANGED <<cats, scopes, catOrg, usedKws, bounds>>

-----------------------------------------------------------------------------
(* Reading keywords: their row joined with the category, then the scopes. *)

keywordQuery_AnyOrg(org) ==
  {k \in KwIds : kws[k].cat # NoId /\ cats[kws[k].cat].org = kws[k].org}
keywordQuery(org) ==
  {k \in KwIds : kws[k].org = org /\ kws[k].cat # NoId
                 /\ cats[kws[k].cat].org = org}
Rows(ids) == [k \in KwIds |-> IF k \in ids THEN kws[k] ELSE NoKeyword]

getKeyword_Refuses(r) ==
  /\ req[r].pc = "get"
  /\ IF req[r].id \notin keywordQuery(req[r].in.org) THEN Answer(r, 400)
     ELSE Become(r, [req[r] EXCEPT !.pc = "getScopes", !.got = Rows({req[r].id})])
  /\ UNCHANGED <<tables, bounds>>
getKeyword(r) ==
  LET k == req[r].id IN
  /\ req[r].pc = "get"
  /\ IF k \notin keywordQuery(req[r].in.org) THEN Answer(r, 404)
     ELSE Become(r, [req[r] EXCEPT !.pc = "getScopes", !.got = Rows({k})])
  /\ UNCHANGED <<tables, bounds>>

Matches(in, row) ==
  /\ row.org = in.org
  /\ in.any \/ row.enabled = in.enabled
  /\ in.cat = NoId \/ row.cat = in.cat
  /\ in.content = NoContent \/ row.content = in.content

(* The count does not join the categories. *)
CountKeywords(r) ==
  /\ req[r].pc = "count"
  /\ Become(r, [req[r] EXCEPT !.pc = "items",
       !.total = Cardinality({k \in KwIds : Matches(req[r].in, kws[k])})])
  /\ UNCHANGED <<tables, bounds>>

NormalizePage(p) == IF p <= 0 THEN 1 ELSE p
Page(ids, p) ==
  LET before(k) == Cardinality({x \in ids : x < k})
  IN {k \in ids : before(k) \div PageSize = NormalizePage(p) - 1}
ListKeywords(r) ==
  LET in == req[r].in
      ids == Page({k \in keywordQuery(in.org) : Matches(in, kws[k])}, in.page)
  IN /\ req[r].pc = "items" /\ in.kind = "list"
     /\ IF ids = {} THEN Answer(r, 200)
        ELSE Become(r, [req[r] EXCEPT !.pc = "getScopes", !.got = Rows(ids)])
     /\ UNCHANGED <<tables, bounds>>

ListByIDs(r) ==
  /\ req[r].pc = "items" /\ req[r].in.kind = "task"
  /\ Become(r, [req[r] EXCEPT !.pc = "getScopes",
       !.got = Rows(keywordQuery(req[r].in.org) \cap req[r].in.ids)])
  /\ UNCHANGED <<tables, bounds>>

(* The last read; a task refuses ids it did not find.  buildKeywordDTO and *)
(* BuildKeywordRuleSnapshots pair each row with its scopes.                *)
Read(r) == {k \in KwIds : req[r].got[k] # NoKeyword}
listScopes(r) ==
  LET in == req[r].in
      found(k) == {x \in scopes[k] : x.org = in.org}
      short == in.kind = "task" /\ Read(r) # in.ids
  IN /\ req[r].pc = "getScopes"
     /\ Become(r, [req[r] EXCEPT
          !.pc = "done", !.status = IF short THEN 400 ELSE 200,
          !.gotScopes = [k \in KwIds |->
                           IF ~short /\ k \in Read(r) THEN found(k) ELSE {}],
          !.got = IF short THEN NothingRead ELSE @])
     /\ UNCHANGED <<tables, bounds>>

-----------------------------------------------------------------------------
(* Categories: one statement each, then a read of the row. *)

CreateCategory(r) ==
  /\ req[r].pc = "catWrite" /\ req[r].in.kind = "catCreate"
  /\ \/ \E c \in CatIds :
          /\ catOrg[c] = NoOrg
          /\ catOrg' = [catOrg EXCEPT ![c] = req[r].in.org]
          /\ cats' = [cats EXCEPT ![c] = [org |-> req[r].in.org,
                        content |-> req[r].in.content, enabled |-> TRUE]]
          /\ Become(r, [req[r] EXCEPT !.pc = "catGet", !.id = c])
     \/ /\ \A c \in CatIds : catOrg[c] # NoOrg
        /\ Answer(r, 500) /\ UNCHANGED <<cats, catOrg>>
  /\ UNCHANGED <<kws, scopes, usedKws, bounds>>

(* UPDATE and the status patch; keywords of the category are not looked at.*)
CategoryAfter(in, row) ==
  IF in.kind = "catPatch" THEN [row EXCEPT !.enabled = in.enabled]
  ELSE [row EXCEPT !.content = in.content, !.enabled = in.enabled]
UpdateCategory(r) ==
  LET in == req[r].in
      row == cats[req[r].id]
  IN /\ req[r].pc = "catWrite" /\ in.kind \in {"catUpdate", "catPatch"}
     /\ \/ /\ row.org # in.org \/ CategoryAfter(in, row) = row
           /\ Answer(r, 404) /\ UNCHANGED cats
        \/ /\ row.org = in.org
           /\ cats' = [cats EXCEPT ![req[r].id] = CategoryAfter(in, row)]
           /\ Goto(r, "catGet")
     /\ UNCHANGED <<kws, scopes, catOrg, usedKws, bounds>>

CategoryFound_AnyOrg(in, row) == row # NoCategory
CategoryFound(in, row) == row.org = in.org
DeleteCategory(r) ==
  LET c == req[r].id IN
  /\ req[r].pc = "catWrite" /\ req[r].in.kind = "catDelete"
  /\ IF ~CategoryFound(req[r].in, cats[c])
       THEN Answer(r, 404) /\ UNCHANGED cats
       ELSE Answer(r, 200) /\ cats' = [cats EXCEPT ![c] = NoCategory]
  /\ UNCHANGED <<kws, scopes, catOrg, usedKws, bounds>>

GetCategory(r) ==
  /\ req[r].pc = "catGet"
  /\ Answer(r, IF CategoryFound(req[r].in, cats[req[r].id]) THEN 200 ELSE 404)
  /\ UNCHANGED <<tables, bounds>>

CountCategories(r) ==
  /\ req[r].pc = "catCount"
  /\ Become(r, [req[r] EXCEPT !.pc = "catItems",
       !.total = Cardinality({c \in CatIds : Matches(req[r].in,
                   [org |-> cats[c].org, cat |-> req[r].in.cat,
                    content |-> cats[c].content, enabled |-> cats[c].enabled])})])
  /\ UNCHANGED <<tables, bounds>>

ListCategories(r) == /\ req[r].pc = "catItems" /\ Answer(r, 200)
                     /\ UNCHANGED <<tables, bounds>>

-----------------------------------------------------------------------------
(* Failures. *)

(* A statement fails, or the request's context ends (timeout, client gone).*)
Fail(r) ==
  /\ req[r].pc \in Steps /\ faults < MaxFaults /\ faults' = faults + 1
  /\ Answer(r, 500)
  /\ UNCHANGED <<tables, sends, crashes>>

(* The connection is lost when the database has committed. *)
LoseCommit(r) ==
  /\ req[r].pc = "commit" /\ faults < MaxFaults /\ faults' = faults + 1
  /\ Committed(r) /\ Answer(r, 500)
  /\ UNCHANGED <<cats, catOrg, usedKws, sends, crashes>>

(* A request that waits for a lock is made the victim of a deadlock, or    *)
(* its wait times out.                                                     *)
Waits(r) ==
  \/ req[r].pc \in {"row", "patch"} /\ ~RowFree(r)
  \/ req[r].pc = "unscope" /\ ScopeLocked(r, "scopes")
  \/ /\ req[r].pc = "scopes"
     /\ ScopeLocked(r, "scopes") \/ ScopeLocked(r, "gap")
GiveUp_Retry(r) ==
  /\ Waits(r) /\ Become(r, NewRequest(FirstStep(req[r].in.kind), req[r].in, 0))
  /\ UNCHANGED <<tables, bounds>>
GiveUp(r) == Waits(r) /\ Answer(r, 500) /\ UNCHANGED <<tables, bounds>>

Crash ==
  /\ crashes < MaxCrashes /\ crashes' = crashes + 1
  /\ req' = [r \in Requests |-> NoRequest]
  /\ UNCHANGED <<tables, sends, faults>>

WriteKeyword(r) ==
  ensureKeywordCategoryExists(r) \/ InsertKeyword(r) \/ UpdateKeyword(r)
  \/ DeleteScopes(r) \/ CreateScopes(r) \/ DeleteKeyword(r) \/ Commit(r)
  \/ PatchEnabled(r)
ReadKeywords(r) ==
  getKeyword(r) \/ CountKeywords(r) \/ ListKeywords(r) \/ ListByIDs(r)
  \/ listScopes(r)
ServeCategory(r) ==
  CreateCategory(r) \/ UpdateCategory(r) \/ DeleteCategory(r)
  \/ GetCategory(r) \/ CountCategories(r) \/ ListCategories(r)
Serve(r) == WriteKeyword(r) \/ ReadKeywords(r) \/ ServeCategory(r) \/ GiveUp(r)

Next ==
  \/ \E r \in Requests : \/ \E in \in Inputs : Handle(r, in)
                         \/ Serve(r) \/ Fail(r) \/ LoseCommit(r)
  \/ Crash

Spec == Init /\ [][Next]_vars

(* Requests run on goroutines of their own; lock waits end. *)
FairSpec == Spec /\ \A r \in Requests : WF_vars(Serve(r))

-----------------------------------------------------------------------------
(* Properties. *)

(* A keyword and its scope rows are there together and come from the same   *)
(* write, whatever requests overlap, deadlock, fail or die between the      *)
(* statements of Create, Update and Delete: no keyword without scopes, no   *)
(* scopes without a keyword, none left of an earlier version.               *)
RuleWhole ==
  \A k \in KwIds : scopes[k] = IF kws[k] = NoKeyword THEN {}
                     ELSE {[org |-> kws[k].org, ver |-> kws[k].ver]}

(* A rule that is returned, or copied into a task, belongs to the           *)
(* organisation that asked, and its scopes are never older than its row:    *)
(* they are those of one committed version, or none, and none only when     *)
(* the keyword was deleted between the two reads.                           *)
RuleReadWhole ==
  \A r \in Requests : req[r].status = 200 =>
    \A k \in Read(r) :
      LET row == req[r].got[k]
          s == req[r].gotScopes[k]
      IN /\ row.org = req[r].in.org
         /\ IF s = {} THEN kws[k] = NoKeyword
            ELSE \E x \in s : s = {x} /\ x.ver >= row.ver

(* A keyword is only ever put into a category that was created in its own   *)
(* organisation; the category may be gone since, even before the keyword    *)
(* was committed.                                                           *)
CategoryWasReal ==
  \A k \in KwIds : kws[k] # NoKeyword => catOrg[kws[k].cat] = kws[k].org

(* An answer is true: one that reports success of a create, an update or a  *)
(* status change follows the commit and shows at least that version of the  *)
(* rule, and a refusal (400, 401) means that nothing was changed.           *)
AnswerTrue ==
  \A r \in Requests : req[r].pc = "done" =>
    /\ req[r].status = 200 /\ req[r].in.kind \in {"create", "update", "patch"} =>
         /\ req[r].wrote > 0
         /\ req[r].got[req[r].id].ver >= req[r].wrote
    /\ req[r].status \in {400, 401} => req[r].wrote = 0

(* Rows of an organisation are changed, and removed, only by a step of a    *)
(* request with a session of that organisation, and never change hands.     *)
OwnOrgOnly ==
  [][/\ \A k \in KwIds : kws[k] # NoKeyword /\ kws'[k] # kws[k] =>
          /\ kws'[k].org \in {kws[k].org, NoOrg}
          /\ \E r \in Requests : /\ req'[r] # req[r] /\ req[r].pc \in Steps
                                 /\ req[r].in.org = kws[k].org
     /\ \A c \in CatIds : cats[c] # NoCategory /\ cats'[c] # cats[c] =>
          /\ cats'[c].org \in {cats[c].org, NoOrg}
          /\ \E r \in Requests : /\ req'[r] # req[r] /\ req[r].pc \in Steps
                                 /\ req[r].in.org = cats[c].org]_vars

(* Every request is answered, those included that wait for each other's     *)
(* rows: Update locks the keyword first, Delete its scopes.                 *)
RequestsEnd ==
  \A r \in Requests : req[r].pc \in Steps ~> req[r].pc \in {"done", "idle"}
=============================================================================
