------------------------- MODULE KeywordRulesProofs -------------------------
(***************************************************************************)
(* Proofs about KeywordRules, for any organisations, ids and requests.     *)
(*                                                                         *)
(* RuleWhole is about what is committed.  Its strengthening says what a    *)
(* request has written and holds at every point of its transaction, and    *)
(* which locks exclude each other: a keyword that is being replaced does   *)
(* not change under the request that replaces it, a keyword that is being  *)
(* created was never read, and nobody inserts scopes where a DELETE found  *)
(* none.                                                                   *)
(***************************************************************************)
EXTENDS KeywordRules, FiniteSetTheorems, TLAPS

(* Rows of a keyword that exists say where it belongs. *)
RowOK(row) == /\ row \in Keyword /\ row.org \in Orgs /\ row.cat \in CatIds
              /\ row.ver \in Nat \ {0} /\ catOrg[row.cat] = row.org
Tables ==
  /\ \A k \in KwIds : kws[k] = NoKeyword \/ (k \in usedKws /\ RowOK(kws[k]))
  /\ \A c \in CatIds : cats[c].org # NoOrg => catOrg[c] = cats[c].org
  /\ \A c \in CatIds : cats[c].org = NoOrg => cats[c] = NoCategory

(* The category was checked. *)
Checked(q) == q.in.cat \in CatIds /\ catOrg[q.in.cat] = q.in.org
(* The row to be committed. *)
Prepared(q) == q.id \in KwIds /\ "row" \in q.locks
               /\ RowOK(q.row) /\ q.row.org = q.in.org

Writing == {"check", "insert", "row", "unscope", "scopes", "commit", "catWrite"}
Control(q) ==
  /\ q.pc \in Writing => q.got = NothingRead
  /\ q.pc = "check"   => /\ q.in.kind \in {"create", "update"} /\ q.sc = {}
                         /\ q.in.kind = "update" => q.id \in KwIds
  /\ q.pc = "insert"  => q.in.kind = "create" /\ Checked(q) /\ q.sc = {}
  /\ q.pc = "row"     => /\ q.in.kind \in {"update", "delete"} /\ q.id \in KwIds
                         /\ "row" \notin q.locks
                         /\ q.in.kind = "update" => q.locks = {} /\ Checked(q)
                         /\ q.in.kind = "delete" =>
                              q.locks = {"gap"} \/ (q.locks = {"scopes"} /\ q.sc = {})
  /\ q.pc = "unscope" => /\ q.in.kind \in {"update", "delete"} /\ q.id \in KwIds
                         /\ q.in.kind = "update" =>
                              q.locks = {"row"} /\ Prepared(q)
                         /\ q.in.kind = "delete" => q.locks = {}
  /\ q.pc = "scopes"  => /\ q.in.kind \in {"create", "update"} /\ Prepared(q)
                         /\ "gap" \notin q.locks /\ q.sc = {}
  /\ q.pc = "commit"  => /\ q.in.kind \in {"create", "update", "delete"}
                         /\ q.id \in KwIds /\ {"row", "scopes"} \subseteq q.locks
                         /\ IF q.in.kind = "delete"
                              THEN q.row = NoKeyword /\ q.sc = {}
                              ELSE /\ Prepared(q)
                                   /\ q.sc = {[org |-> q.row.org, ver |-> q.row.ver]}
  /\ q.pc \in {"patch", "get"} => q.id \in KwIds
  /\ q.pc = "patch"    => q.in.kind = "patch"
  /\ q.pc = "catWrite" => q.in.kind = "catCreate" \/ q.id \in CatIds
  /\ q.pc = "catGet"   => q.id \in CatIds

(* What a request relies on in the tables. *)
Locked(q) ==
  /\ "row" \in q.locks => /\ q.id \in KwIds /\ q.id \in usedKws
                          /\ IF q.in.kind = "create" THEN kws[q.id] = NoKeyword
                             ELSE kws[q.id].org = q.in.org
                          /\ q.in.kind = "update" => kws[q.id].ver < q.row.ver
  /\ "gap" \in q.locks => \A x \in scopes[q.id] : x.org # q.in.org
  /\ q.locks # {} => q.pc \in {"row", "unscope", "scopes", "commit"}
                     /\ q.got = NothingRead /\ q.id \in KwIds

ReadOK(q) ==
  \A k \in KwIds : q.got[k] # NoKeyword =>
    /\ k \in usedKws /\ q.got[k].org = q.in.org
    /\ kws[k] = NoKeyword
         \/ (kws[k].org = q.in.org /\ kws[k].ver >= q.got[k].ver)
    /\ q.status = 200 =>
         IF q.gotScopes[k] = {} THEN kws[k] = NoKeyword
         ELSE \E x \in q.gotScopes[k] : q.gotScopes[k] = {x} /\ x.ver >= q.got[k].ver

RequestOK(q) ==
  /\ q.pc \in Steps => /\ q.in \in Inputs /\ q.in.bad = "none"
                       /\ q.in.org \in Orgs /\ q.status = 0
  /\ Control(q) /\ Locked(q) /\ ReadOK(q)

(* Two requests. *)
Apart(p, q) ==
  /\ p.id = q.id /\ "row" \in p.locks => "row" \notin q.locks
  /\ p.id = q.id /\ p.in.org = q.in.org =>
       ~("scopes" \in p.locks /\ "gap" \in q.locks)
  /\ "row" \in p.locks /\ p.in.kind = "create" => q.got[p.id] = NoKeyword

IInv ==
  /\ TypeOK /\ Tables /\ RuleWhole
  /\ \A r \in Requests : RequestOK(req[r])
  /\ \A p, q \in Requests : p # q => Apart(req[p], req[q])

-----------------------------------------------------------------------------
(* A step that leaves the tables alone. *)
LEMMA LocalStep ==
  ASSUME IInv, NEW r \in Requests, UNCHANGED tables,
         req' \in [Requests -> Request],
         \A q \in Requests : q # r => req'[q] = req[q], RequestOK(req'[r]),
         \A q \in Requests : q # r => /\ Apart(req'[r], req[q])
                                     /\ Apart(req[q], req'[r]),
         sends' \in 0..MaxSends, faults' \in 0..MaxFaults,
         crashes' \in 0..MaxCrashes
  PROVE  IInv'
<1> USE DEF tables
<1>2. TypeOK'
  BY DEF IInv, TypeOK
<1>3. Tables' /\ RuleWhole'
  BY DEF IInv, Tables, RuleWhole, RowOK
<1>4. ASSUME NEW q \in Requests PROVE RequestOK(req[q])'
  <2>1. RequestOK(req'[q])
    BY DEF IInv
  <2> QED
    BY <2>1 DEF RequestOK, Control, Locked, ReadOK, Checked, Prepared, RowOK
<1>5. ASSUME NEW p \in Requests, NEW q \in Requests, p # q
      PROVE  Apart(req[p], req[q])'
  <2>1. Apart(req'[p], req'[q])
    BY <1>5 DEF IInv
  <2> QED
    BY <2>1 DEF Apart
<1> QED
  BY <1>2, <1>3, <1>4, <1>5 DEF IInv

LEMMA BlankTypes ==
  /\ NoKeyword \in Keyword /\ NothingRead \in [KwIds -> Keyword]
  /\ NoScopesRead \in [KwIds -> SUBSET ScopeRow] /\ NoInput \in Input
  /\ NoRequest \in Request /\ NoCategory \in Category
<1>1. NoKeyword \in Keyword /\ NoCategory \in Category
  BY DEF NoKeyword, Keyword, NoCategory, Category
<1>2. NothingRead \in [KwIds -> Keyword]
  BY <1>1 DEF NothingRead
<1>3. NoScopesRead \in [KwIds -> SUBSET ScopeRow]
  BY DEF NoScopesRead
<1>4. NoInput \in Input
  BY DEF NoInput, Input, Kinds, KeywordKinds
<1>5. NoRequest \in Request
  BY <1>1, <1>2, <1>3, <1>4 DEF NoRequest, NewRequest, Request, NoInput
<1> QED
  BY <1>1, <1>2, <1>3, <1>4, <1>5

(* An answered request is well formed. *)
LEMMA AnsweredOK ==
  ASSUME NEW q \in Request, NEW status \in {200, 400, 401, 404, 500}
  PROVE  /\ Answered(q, status) \in Request
         /\ Answered(q, status).locks = {}
         /\ Answered(q, status).got = NothingRead
         /\ Answered(q, status).pc = "done"
         /\ RequestOK(Answered(q, status))
<1> DEFINE x == Answered(q, status)
<1>1. x \in Request
  <2>1. q.in \in Input /\ q.wrote \in Nat
    BY DEF Request
  <2>2. x = [pc |-> "done", in |-> q.in, id |-> q.in.id, locks |-> {},
             row |-> NoKeyword, sc |-> {}, got |-> NothingRead,
             gotScopes |-> NoScopesRead, total |-> 0, wrote |-> q.wrote,
             status |-> status]
    BY DEF Answered, NewRequest
  <2>3. q.in.id \in CatIds \cup KwIds \cup {NoId}
    BY <2>1 DEF Input
  <2> QED
    BY <2>1, <2>2, <2>3, BlankTypes DEF Request
<1>2. x.locks = {} /\ x.got = NothingRead /\ x.pc = "done"
  BY DEF Answered, NewRequest
<1> HIDE DEF x
<1>3. RequestOK(x)
  <2>1. Control(x) /\ Locked(x) /\ x.pc \notin Steps
    BY <1>2 DEF Control, Locked, Steps
  <2>2. ReadOK(x)
    BY <1>2 DEF ReadOK, NothingRead
  <2> QED
    BY <2>1, <2>2 DEF RequestOK
<1> QED
  BY <1>1, <1>2, <1>3 DEF x

(* A request without locks that has read nothing disturbs nobody. *)
LEMMA IdleApart ==
  ASSUME NEW x \in Request, x.locks = {}, x.got = NothingRead,
         NEW y \in Request, RequestOK(y)
  PROVE  Apart(x, y) /\ Apart(y, x)
  BY DEF Apart, NothingRead, RequestOK, Locked

LEMMA AnswerStep ==
  ASSUME IInv, NEW r \in Requests, NEW status \in {200, 400, 401, 404, 500},
         Answer(r, status), UNCHANGED tables, sends' \in 0..MaxSends,
         faults' \in 0..MaxFaults, crashes' \in 0..MaxCrashes
  PROVE  IInv'
<1>1. req[r] \in Request /\ \A q \in Requests : req[q] \in Request /\ RequestOK(req[q])
  BY DEF IInv, TypeOK
<1> DEFINE x == Answered(req[r], status)
<1>2. req' = [req EXCEPT ![r] = x]
  BY DEF Answer, Become, Answered
<1>3. x \in Request /\ x.locks = {} /\ x.got = NothingRead /\ RequestOK(x)
  BY <1>1, AnsweredOK
<1> HIDE DEF x
<1>4. \A q \in Requests : q # r => Apart(x, req[q]) /\ Apart(req[q], x)
  BY <1>1, <1>3, IdleApart
<1>5. /\ req' \in [Requests -> Request] /\ req'[r] = x
      /\ \A q \in Requests : q # r => req'[q] = req[q]
  BY <1>2, <1>3 DEF IInv, TypeOK
<1> QED
  BY <1>3, <1>4, <1>5, LocalStep

LEMMA InitOK == Init => IInv
<1> SUFFICES ASSUME Init PROVE IInv
  OBVIOUS
<1>1. \A k \in KwIds : kws[k] = NoKeyword \/
        (/\ RowOK(kws[k]) /\ k \in usedKws /\ kws[k] # NoKeyword
         /\ scopes[k] = {[org |-> kws[k].org, ver |-> kws[k].ver]})
  <2> TAKE k \in KwIds
  <2>1. CASE KwSeed[k] = NoId
    BY <2>1 DEF Init
  <2>2. CASE KwSeed[k] # NoId
    <3>1. KwSeed[k] \in CatIds /\ CatSeed[KwSeed[k]] \in Orgs
      BY <2>2, RulesAssumption
    <3>2. (CHOOSE y \in Contents : TRUE) \in Contents
      BY RulesAssumption
    <3>3. /\ kws[k] = [org |-> CatSeed[KwSeed[k]], cat |-> KwSeed[k],
                       content |-> CHOOSE y \in Contents : TRUE,
                       enabled |-> TRUE, ver |-> 1]
          /\ scopes[k] = {[org |-> CatSeed[KwSeed[k]], ver |-> 1]}
          /\ k \in usedKws /\ catOrg = CatSeed
      BY <2>2 DEF Init
    <3>4. RowOK(kws[k])
      BY <3>1, <3>2, <3>3 DEF RowOK, Keyword
    <3> QED
      BY <3>1, <3>3, <3>4, RulesAssumption DEF NoKeyword
  <2> QED
    BY <2>1, <2>2
<1>2. \A k \in KwIds : kws[k] = NoKeyword => scopes[k] = {}
  <2> SUFFICES ASSUME NEW k \in KwIds, KwSeed[k] # NoId PROVE kws[k] # NoKeyword
    BY DEF Init
  <2>1. kws[k].ver = 1
    BY DEF Init
  <2> QED
    BY <2>1 DEF NoKeyword
<1>3. \A c \in CatIds : /\ cats[c] \in Category
                        /\ cats[c].org # NoOrg => catOrg[c] = cats[c].org
                        /\ cats[c].org = NoOrg => cats[c] = NoCategory
  <2> TAKE c \in CatIds
  <2>1. CASE CatSeed[c] = NoOrg
    BY <2>1, BlankTypes DEF Init, NoCategory
  <2>2. CASE CatSeed[c] # NoOrg
    <3>1. (CHOOSE y \in Contents : TRUE) \in Contents
      BY RulesAssumption
    <3> QED
      BY <2>2, <3>1, RulesAssumption DEF Init, Category
  <2> QED
    BY <2>1, <2>2
<1>4. TypeOK
  <2>1. kws \in [KwIds -> Keyword]
    <3>1. \A k \in KwIds : kws[k] \in Keyword
      BY <1>1, BlankTypes DEF RowOK
    <3> QED
      BY <3>1 DEF Init
  <2>2. scopes \in [KwIds -> SUBSET ScopeRow]
    <3>1. \A k \in KwIds : scopes[k] \subseteq ScopeRow
      BY <1>1, <1>2 DEF RowOK, ScopeRow
    <3> QED
      BY <3>1 DEF Init
  <2>3. cats \in [CatIds -> Category]
    BY <1>3 DEF Init
  <2>4. req \in [Requests -> Request]
    BY BlankTypes DEF Init
  <2> QED
    BY <2>1, <2>2, <2>3, <2>4, RulesAssumption DEF Init, TypeOK
<1>5. Tables /\ RuleWhole
  BY <1>1, <1>2, <1>3 DEF Tables, RuleWhole
<1>6. NoRequest.locks = {} /\ NoRequest.got = NothingRead /\ NoRequest.pc = "idle"
  BY DEF NoRequest, NewRequest
<1>7. RequestOK(NoRequest)
  <2>1. Control(NoRequest) /\ Locked(NoRequest) /\ NoRequest.pc \notin Steps
    BY <1>6 DEF Control, Locked, Steps
  <2>2. ReadOK(NoRequest)
    BY <1>6 DEF ReadOK, NothingRead
  <2> QED
    BY <2>1, <2>2 DEF RequestOK
<1>8. Apart(NoRequest, NoRequest)
  BY <1>6, <1>7, BlankTypes, IdleApart
<1> QED
  BY <1>4, <1>5, <1>7, <1>8 DEF IInv, Init

-----------------------------------------------------------------------------
LEMMA BecomeFacts ==
  ASSUME TypeOK, NEW r \in Requests, NEW x \in Request, Become(r, x)
  PROVE  /\ req' \in [Requests -> Request] /\ req'[r] = x
         /\ \A q \in Requests : q # r => req'[q] = req[q]
  BY DEF Become, TypeOK

LEMMA NewRequestOK ==
  ASSUME NEW pc, pc \in Steps \cup {"idle", "done"}, NEW in \in Input,
         NEW status, status \in {0, 200, 400, 401, 404, 500}
  PROVE  /\ NewRequest(pc, in, status) \in Request
         /\ NewRequest(pc, in, status).pc = pc
         /\ NewRequest(pc, in, status).in = in
         /\ NewRequest(pc, in, status).id = in.id
         /\ NewRequest(pc, in, status).locks = {}
         /\ NewRequest(pc, in, status).got = NothingRead
         /\ NewRequest(pc, in, status).sc = {}
         /\ NewRequest(pc, in, status).status = status
<1>1. in.id \in CatIds \cup KwIds \cup {NoId}
  BY DEF Input
<1> QED
  BY <1>1, BlankTypes DEF NewRequest, Request

LEMMA FirstStepOK ==
  ASSUME NEW in \in Inputs, in.bad = "none"
  PROVE  LET s == FirstStep(in.kind) IN
         /\ s \in Steps
         /\ s = "check" => /\ in.kind \in {"create", "update"}
                           /\ in.kind = "update" => in.id \in KwIds
         /\ s \notin {"insert", "row", "scopes", "commit"}
         /\ s = "unscope" => in.kind = "delete" /\ in.id \in KwIds
         /\ s \in {"patch", "get"} => in.id \in KwIds
         /\ s = "patch" => in.kind = "patch"
         /\ s = "catWrite" => in.kind = "catCreate" \/ in.id \in CatIds
         /\ s = "catGet" => in.id \in CatIds
<1>1. in.kind \in Kinds
  BY RulesAssumption DEF Input
<1>2. /\ in.kind \in {"update", "delete", "patch", "get"} => in.id \in KwIds
      /\ in.kind \in {"catUpdate", "catDelete", "catPatch", "catGet"} => in.id \in CatIds
  BY RulesAssumption
<1> QED
  BY <1>1, <1>2 DEF FirstStep, Steps, Kinds, KeywordKinds, CategoryKinds

LEMMA HandleStep ==
  ASSUME IInv, NEW r \in Requests, NEW in \in Inputs, Handle(r, in)
  PROVE  IInv'
<1>1. in \in Input /\ in.org \in Orgs \cup {NoOrg} /\ in.bad \in {"none", "param", "body"}
  BY RulesAssumption DEF Input
<1>2. PICK pc \in Steps \cup {"done"}, status \in {0, 400, 401} :
        /\ Become(r, NewRequest(pc, in, status))
        /\ pc \in Steps => /\ pc = FirstStep(in.kind) /\ in.bad = "none"
                           /\ in.org \in Orgs /\ status = 0
  <2>1. CASE in.bad = "param"
    BY <2>1 DEF Handle, Steps
  <2>2. CASE in.bad # "param" /\ in.org = NoOrg
    BY <2>2 DEF Handle, Steps
  <2>3. CASE in.bad = "body" /\ in.org # NoOrg
    BY <2>3 DEF Handle, Steps
  <2>4. CASE in.bad = "none" /\ in.org # NoOrg
    <3>1. FirstStep(in.kind) \in Steps
      BY <2>4, FirstStepOK
    <3>2. Become(r, NewRequest(FirstStep(in.kind), in, 0))
      BY <2>4 DEF Handle
    <3> QED
      BY <1>1, <2>4, <3>1, <3>2
  <2> QED
    BY <1>1, <2>1, <2>2, <2>3, <2>4
<1> DEFINE x == NewRequest(pc, in, status)
<1>3. /\ x \in Request /\ x.pc = pc /\ x.in = in /\ x.id = in.id
      /\ x.locks = {} /\ x.got = NothingRead /\ x.status = status /\ x.sc = {}
  <2>1. in \in Input
    BY <1>1
  <2>2. pc \in Steps \cup {"idle", "done"} /\ status \in {0, 200, 400, 401, 404, 500}
    BY <1>2
  <2> HIDE DEF x
  <2>3. x \in Request
    BY <2>1, <2>2, NewRequestOK DEF x
  <2>5. x.pc = pc
    BY <2>1, <2>2, NewRequestOK DEF x
  <2>6. x.in = in /\ x.id = in.id
    BY DEF x, NewRequest
  <2>4. /\ x.locks = {} /\ x.got = NothingRead /\ x.status = status /\ x.sc = {}
    BY <2>1, <2>2, NewRequestOK DEF x
  <2> QED
    BY <2>3, <2>4, <2>5, <2>6
<1>4. Become(r, x)
  BY <1>2
<1> HIDE DEF x
<1>5. RequestOK(x)
  <2>1. ReadOK(x) /\ Locked(x)
    BY <1>3 DEF ReadOK, NothingRead, Locked
  <2>2. Control(x)
    <3>1. CASE pc = "done"
      BY <1>3, <3>1 DEF Control
    <3>2. CASE pc \in Steps
      BY <1>2, <1>3, <3>2, FirstStepOK DEF Control
    <3> QED
      BY <3>1, <3>2
  <2> QED
    BY <1>2, <1>3, <2>1, <2>2 DEF RequestOK
<1>6. \A q \in Requests : req[q] \in Request /\ RequestOK(req[q])
  BY DEF IInv, TypeOK
<1>7. \A q \in Requests : Apart(x, req[q]) /\ Apart(req[q], x)
  BY <1>3, <1>6, IdleApart
<1>8. sends' \in 0..MaxSends /\ faults' \in 0..MaxFaults /\ crashes' \in 0..MaxCrashes
      /\ UNCHANGED tables
  BY RulesAssumption DEF Handle, IInv, TypeOK, tables
<1>9. /\ req' \in [Requests -> Request] /\ req'[r] = x
      /\ \A q \in Requests : q # r => req'[q] = req[q]
  BY <1>3, <1>4, BecomeFacts DEF IInv
<1> QED
  BY <1>5, <1>7, <1>8, <1>9, LocalStep

(* A step that only moves on, or takes note of what it read: the locks and  *)
(* what is to be written stay as they are.                                  *)
LEMMA MoveStep ==
  ASSUME IInv, NEW r \in Requests, req[r].pc \in Steps,
         NEW x \in Request, Become(r, x),
         x.in = req[r].in, x.id = req[r].id, x.locks = {}, req[r].locks = {},
         x.pc \in Steps => x.status = 0, Control(x), ReadOK(x),
         \A q \in Requests : q # r =>
           \A k \in KwIds : x.got[k] = NoKeyword \/ kws[k] # NoKeyword
                            \/ x.got[k] = req[r].got[k],
         UNCHANGED <<tables, bounds>>
  PROVE  IInv'
<1>1. \A q \in Requests : req[q] \in Request /\ RequestOK(req[q])
  BY DEF IInv, TypeOK
<1>2. RequestOK(x)
  BY <1>1 DEF RequestOK, Locked
<1>3. ASSUME NEW q \in Requests, q # r PROVE Apart(x, req[q]) /\ Apart(req[q], x)
  <2>1. Apart(x, req[q])
    BY DEF Apart
  <2>2. "row" \in req[q].locks /\ req[q].in.kind = "create" =>
          x.got[req[q].id] = NoKeyword
    <3>1. Apart(req[q], req[r]) /\ Locked(req[q])
      BY <1>1, <1>3 DEF IInv, RequestOK
    <3> QED
      BY <1>3, <3>1 DEF Apart, Locked
  <2> QED
    BY <2>1, <2>2 DEF Apart
<1>4. sends' \in 0..MaxSends /\ faults' \in 0..MaxFaults /\ crashes' \in 0..MaxCrashes
      /\ UNCHANGED tables
  BY DEF IInv, TypeOK, bounds
<1>5. /\ req' \in [Requests -> Request] /\ req'[r] = x
      /\ \A q \in Requests : q # r => req'[q] = req[q]
  BY BecomeFacts DEF IInv
<1> QED
  BY <1>2, <1>3, <1>4, <1>5, LocalStep

-----------------------------------------------------------------------------
(* What is known of a request at work. *)
LEMMA Facts ==
  ASSUME IInv, NEW r \in Requests, req[r].pc \in Steps
  PROVE  /\ req[r] \in Request /\ RequestOK(req[r])
         /\ Control(req[r]) /\ Locked(req[r]) /\ ReadOK(req[r])
         /\ req[r].in \in Inputs /\ req[r].in \in Input
         /\ req[r].in.bad = "none" /\ req[r].in.org \in Orgs
         /\ req[r].in.org # NoOrg /\ req[r].status = 0
         /\ req[r].pc \notin {"row", "unscope", "scopes", "commit"} =>
              req[r].locks = {}
<1>1. req[r] \in Request /\ RequestOK(req[r])
  BY DEF IInv, TypeOK
<1> QED
  BY <1>1, RulesAssumption DEF RequestOK, Locked

LEMMA KeepBounds ==
  ASSUME IInv, UNCHANGED bounds
  PROVE  sends' \in 0..MaxSends /\ faults' \in 0..MaxFaults /\ crashes' \in 0..MaxCrashes
  BY DEF IInv, TypeOK, bounds

LEMMA EnsureStep ==
  ASSUME IInv, NEW r \in Requests, ensureKeywordCategoryExists(r)
  PROVE  IInv'
<1>1. req[r].pc = "check" /\ UNCHANGED tables /\ UNCHANGED bounds
  BY DEF ensureKeywordCategoryExists
<1>2. req[r].pc \in Steps
  BY <1>1 DEF Steps
<1>3. CASE ~CategoryExists(req[r].in.org, req[r].in.cat)
  <2>1. Answer(r, 400)
    BY <1>3 DEF ensureKeywordCategoryExists
  <2> QED
    BY <1>1, <2>1, KeepBounds, AnswerStep
<1>4. CASE CategoryExists(req[r].in.org, req[r].in.cat)
  <2> DEFINE pc == IF req[r].in.kind = "create" THEN "insert" ELSE "row"
             x == [req[r] EXCEPT !.pc = pc]
  <2>1. Become(r, x)
    BY <1>4 DEF ensureKeywordCategoryExists, Goto
  <2>2. req[r] \in Request /\ pc \in Steps
    BY <1>2, Facts DEF Steps
  <2>3. /\ x \in Request /\ x.pc = pc /\ x.in = req[r].in /\ x.id = req[r].id
        /\ x.locks = req[r].locks /\ x.got = req[r].got
        /\ x.status = req[r].status /\ x.sc = req[r].sc
    BY <2>2 DEF Request
  <2>4. /\ req[r].locks = {} /\ req[r].status = 0 /\ req[r].got = NothingRead
        /\ req[r].sc = {} /\ req[r].in.kind \in {"create", "update"}
        /\ req[r].in.kind = "update" => req[r].id \in KwIds
    BY <1>1, <1>2, Facts DEF Control, Writing
  <2>5. req[r].in.cat \in CatIds /\ catOrg[req[r].in.cat] = req[r].in.org
    <3>1. req[r].in.cat \in CatIds
      BY <1>2, <2>4, Facts, RulesAssumption
    <3>2. cats[req[r].in.cat].org = req[r].in.org /\ req[r].in.org # NoOrg
      BY <1>2, <1>4, Facts DEF CategoryExists
    <3> QED
      BY <3>1, <3>2 DEF IInv, Tables
  <2> HIDE DEF x
  <2>6. Control(x)
    BY <2>3, <2>4, <2>5 DEF Control, Checked, Writing
  <2>7. ReadOK(x)
    BY <2>3, <2>4 DEF ReadOK, NothingRead
  <2> QED
    BY <1>1, <1>2, <2>1, <2>3, <2>4, <2>6, <2>7, MoveStep
<1> QED
  BY <1>3, <1>4

(* A step of a transaction that is not committed. *)
LEMMA StepTo ==
  ASSUME IInv, NEW r \in Requests, NEW x \in Request, Become(r, x),
         UNCHANGED tables, UNCHANGED bounds, RequestOK(x),
         \A q \in Requests : q # r => Apart(x, req[q]) /\ Apart(req[q], x)
  PROVE  IInv'
<1>1. /\ req' \in [Requests -> Request] /\ req'[r] = x
      /\ \A q \in Requests : q # r => req'[q] = req[q]
  BY BecomeFacts DEF IInv
<1> QED
  BY <1>1, KeepBounds, LocalStep

(* A request whose key is in use does not lose it to another organisation. *)
LEMMA RowThere ==
  ASSUME IInv, NEW k \in KwIds, kws[k].org # NoOrg
  PROVE  /\ k \in usedKws /\ RowOK(kws[k]) /\ kws[k] # NoKeyword
         /\ scopes[k] = {[org |-> kws[k].org, ver |-> kws[k].ver]}
<1>1. kws[k] # NoKeyword
  BY DEF NoKeyword
<1> QED
  BY <1>1 DEF IInv, Tables, RuleWhole

(* Changes of single fields. *)
LEMMA SetPc ==
  ASSUME NEW q \in Request, NEW a \in Steps \cup {"idle", "done"}
  PROVE  [q EXCEPT !.pc = a] \in Request
  BY DEF Request
LEMMA SetId ==
  ASSUME NEW q \in Request, NEW a \in CatIds \cup KwIds \cup {NoId}
  PROVE  [q EXCEPT !.id = a] \in Request
  BY DEF Request
LEMMA SetLocks ==
  ASSUME NEW q \in Request, NEW a \in SUBSET {"row", "scopes", "gap"}
  PROVE  [q EXCEPT !.locks = a] \in Request
  BY DEF Request
LEMMA SetRow ==
  ASSUME NEW q \in Request, NEW a \in Keyword
  PROVE  [q EXCEPT !.row = a] \in Request
  BY DEF Request
LEMMA SetSc ==
  ASSUME NEW q \in Request, NEW a \in SUBSET ScopeRow
  PROVE  [q EXCEPT !.sc = a] \in Request
  BY DEF Request
LEMMA SetGot ==
  ASSUME NEW q \in Request, NEW a \in [KwIds -> Keyword]
  PROVE  [q EXCEPT !.got = a] \in Request
  BY DEF Request
LEMMA SetGotScopes ==
  ASSUME NEW q \in Request, NEW a \in [KwIds -> SUBSET ScopeRow]
  PROVE  [q EXCEPT !.gotScopes = a] \in Request
  BY DEF Request
LEMMA SetTotal ==
  ASSUME NEW q \in Request, NEW a \in Nat
  PROVE  [q EXCEPT !.total = a] \in Request
  BY DEF Request
LEMMA SetWrote ==
  ASSUME NEW q \in Request, NEW a \in Nat
  PROVE  [q EXCEPT !.wrote = a] \in Request
  BY DEF Request
LEMMA SetStatus ==
  ASSUME NEW q \in Request, NEW a \in {0, 200, 400, 401, 404, 500}
  PROVE  [q EXCEPT !.status = a] \in Request
  BY DEF Request

LEMMA UpdateStep ==
  ASSUME IInv, NEW r \in Requests, UpdateKeyword(r)
  PROVE  IInv'
<1> DEFINE in == req[r].in
           row == kws[req[r].id]
<1>1. req[r].pc = "row" /\ in.kind = "update" /\ RowFree(r)
      /\ UNCHANGED tables /\ UNCHANGED bounds
  BY DEF UpdateKeyword
<1>2. req[r].pc \in Steps
  BY <1>1 DEF Steps
<1>3. CASE Answer(r, 404)
  BY <1>1, <1>3, KeepBounds, AnswerStep
<1>4. CASE /\ row.org = in.org
           /\ Become(r, [req[r] EXCEPT !.pc = "unscope", !.row = Updated(in, row),
                                       !.locks = @ \cup {"row"}])
  <2> DEFINE new == Updated(in, row)
             x == [req[r] EXCEPT !.pc = "unscope", !.row = new,
                                 !.locks = @ \cup {"row"}]
  <2>1. /\ req[r].id \in KwIds /\ req[r].locks = {} /\ req[r].got = NothingRead
        /\ in.cat \in CatIds /\ catOrg[in.cat] = in.org /\ req[r].status = 0
    BY <1>1, <1>2, Facts DEF Control, Checked, Writing
  <2>2. in.org \in Orgs /\ in.org # NoOrg /\ in \in Input /\ in.content \in Contents
    BY <1>1, <1>2, Facts, RulesAssumption
  <2>3. /\ req[r].id \in usedKws /\ row.ver \in Nat \ {0} /\ row.org = in.org
    BY <1>4, <2>1, <2>2, RowThere DEF RowOK
  <2>4. /\ new \in Keyword /\ new.org = in.org /\ new.cat = in.cat
        /\ new.ver = row.ver + 1
    BY <2>1, <2>2, <2>3 DEF Updated, Keyword, Input
  <2> HIDE DEF new
  <2>5. RowOK(new)
    BY <2>1, <2>2, <2>3, <2>4 DEF RowOK
  <2>6. req[r] \in Request
    BY <1>2, Facts
  <2>7. /\ x \in Request /\ x.pc = "unscope" /\ x.in = in /\ x.id = req[r].id
        /\ x.locks = {"row"} /\ x.got = NothingRead /\ x.status = 0 /\ x.row = new
    <3>1. {"row"} \in SUBSET {"row", "scopes", "gap"} /\ "unscope" \in Steps
      BY DEF Steps
    <3>2. req[r].locks \cup {"row"} = {"row"}
      BY <2>1
    <3>3. x = [req[r] EXCEPT !.pc = "unscope", !.row = new, !.locks = {"row"}]
      BY <2>6, <3>2
    <3>4. x \in Request
      <4> DEFINE a == [req[r] EXCEPT !.pc = "unscope"]
                 b == [a EXCEPT !.row = new]
                 c == [b EXCEPT !.locks = {"row"}]
      <4>1. x = c
        BY <2>6, <3>3 DEF Request
      <4>2. a \in Request
        BY <2>6, <3>1, SetPc
      <4> HIDE DEF a
      <4>3. b \in Request
        BY <2>4, <4>2, SetRow
      <4> HIDE DEF b
      <4>4. c \in Request
        BY <3>1, <4>3, SetLocks
      <4> QED
        BY <4>1, <4>4
    <3> QED
      BY <2>1, <2>6, <3>3, <3>4 DEF Request
  <2>8. Become(r, x)
    BY <1>4 DEF new
  <2> HIDE DEF x
  <2>9. RequestOK(x)
    <3>1. Control(x)
      BY <1>1, <2>1, <2>4, <2>5, <2>7 DEF Control, Prepared, Writing
    <3>2. Locked(x)
      BY <1>1, <2>1, <2>3, <2>4, <2>7 DEF Locked
    <3>3. ReadOK(x)
      BY <2>7 DEF ReadOK, NothingRead
    <3> QED
      BY <1>2, <2>7, <3>1, <3>2, <3>3, Facts DEF RequestOK
  <2>10. ASSUME NEW q \in Requests, q # r PROVE Apart(x, req[q]) /\ Apart(req[q], x)
    <3>1. req[q].id = req[r].id => "row" \notin req[q].locks
      BY <1>1, <2>10 DEF RowFree, Holds
    <3>2. "row" \in req[q].locks => req[q].id \in KwIds
      BY DEF IInv, RequestOK, Locked
    <3> QED
      BY <1>1, <2>7, <3>1, <3>2 DEF Apart, NothingRead
  <2> QED
    BY <1>1, <2>7, <2>8, <2>9, <2>10, StepTo
<1> QED
  BY <1>3, <1>4 DEF UpdateKeyword

LEMMA DeleteScopesStep ==
  ASSUME IInv, NEW r \in Requests, DeleteScopes(r)
  PROVE  IInv'
<1> DEFINE in == req[r].in
           k == req[r].id
           pc == IF in.kind = "delete" THEN "row" ELSE "scopes"
           sc == Others(in, k)
           lock == IF \E y \in scopes[k] : y.org = in.org THEN "scopes" ELSE "gap"
           locks == req[r].locks \cup {lock}
           x == [req[r] EXCEPT !.pc = pc, !.sc = sc, !.locks = locks]
<1>1. req[r].pc = "unscope" /\ ~ScopeLocked(r, "scopes")
      /\ UNCHANGED tables /\ UNCHANGED bounds
  BY DEF DeleteScopes
<1>2. req[r].pc \in Steps /\ pc \in Steps
  BY <1>1 DEF Steps
<1>3. /\ req[r] \in Request /\ req[r].got = NothingRead /\ k \in KwIds
      /\ req[r].status = 0 /\ in \in Inputs /\ in.bad = "none"
      /\ in.org \in Orgs /\ in.org # NoOrg /\ in.kind \in {"update", "delete"}
  BY <1>1, <1>2, Facts DEF Control, Writing
<1>4. in.kind = "update" => req[r].locks = {"row"} /\ Prepared(req[r])
  BY <1>1, <1>2, Facts DEF Control
<1>5. in.kind = "delete" => req[r].locks = {}
  BY <1>1, <1>2, Facts DEF Control
<1>6. Locked(req[r])
  BY <1>2, Facts
<1>7. lock = "scopes" => sc = {}
  <2>1. scopes[k] = {} \/ \E y : scopes[k] = {y}
    BY <1>3 DEF IInv, RuleWhole
  <2> QED
    BY <2>1 DEF Others
<1>8. in.kind = "update" => lock = "scopes"
  <2> SUFFICES ASSUME in.kind = "update" PROVE \E y \in scopes[k] : y.org = in.org
    OBVIOUS
  <2>1. kws[k].org = in.org
    BY <1>4, <1>6 DEF Locked
  <2>2. scopes[k] = {[org |-> kws[k].org, ver |-> kws[k].ver]}
    BY <1>3, <2>1, RowThere
  <2> QED
    BY <2>1, <2>2
<1>9. lock = "gap" => \A y \in scopes[k] : y.org # in.org
  OBVIOUS
<1>10. lock = "scopes" => \E y \in scopes[k] : y.org = in.org
  OBVIOUS
<1>11. lock \in {"scopes", "gap"} /\ locks \in SUBSET {"row", "scopes", "gap"}
  BY <1>3 DEF Request
<1>12. sc \in SUBSET ScopeRow
  BY <1>3 DEF Others, IInv, TypeOK
<1>13. Become(r, x)
  BY DEF DeleteScopes
<1> HIDE DEF sc, lock, pc
<1>14. /\ x.pc = pc /\ x.in = in /\ x.id = k /\ x.sc = sc /\ x.locks = locks
       /\ x.got = NothingRead /\ x.status = 0 /\ x.row = req[r].row
  BY <1>3 DEF Request
<1>15. x \in Request
  <2> DEFINE a == [req[r] EXCEPT !.pc = pc]
             b == [a EXCEPT !.sc = sc]
             c == [b EXCEPT !.locks = locks]
  <2>1. x = c
    BY <1>3 DEF Request
  <2>2. a \in Request
    BY <1>2, <1>3, SetPc
  <2> HIDE DEF a
  <2>3. b \in Request
    BY <1>12, <2>2, SetSc
  <2> HIDE DEF b
  <2>4. c \in Request
    BY <1>11, <2>3, SetLocks
  <2> QED
    BY <2>1, <2>4
<1>16. x.locks = req[r].locks \cup {lock}
  BY <1>14
<1> HIDE DEF x, locks
<1>17. RequestOK(x)
  <2>1. Control(x)
    <3>1. CASE in.kind = "update"
      <4>1. x.locks = {"row", "scopes"} /\ sc = {} /\ pc = "scopes"
        BY <1>4, <1>7, <1>8, <1>16, <3>1 DEF pc
      <4> QED
        BY <1>3, <1>4, <1>14, <3>1, <4>1 DEF Control, Prepared, Writing
    <3>2. CASE in.kind = "delete"
      <4>1. x.locks = {lock} /\ pc = "row"
        BY <1>5, <1>16, <3>2 DEF pc
      <4> QED
        BY <1>3, <1>7, <1>11, <1>14, <3>2, <4>1 DEF Control, Writing
    <3> QED
      BY <1>3, <3>1, <3>2
  <2>2. Locked(x)
    BY <1>3, <1>6, <1>9, <1>11, <1>14, <1>16 DEF Locked, pc
  <2>3. ReadOK(x)
    BY <1>14 DEF ReadOK, NothingRead
  <2> QED
    BY <1>3, <1>14, <2>1, <2>2, <2>3 DEF RequestOK
<1>18. ASSUME NEW q \in Requests, q # r PROVE Apart(x, req[q]) /\ Apart(req[q], x)
  <2>1. Apart(req[r], req[q]) /\ Apart(req[q], req[r]) /\ Locked(req[q])
    BY <1>18 DEF IInv, RequestOK
  <2>2. req[q].id = k /\ req[q].in.org = in.org => "scopes" \notin req[q].locks
    BY <1>1, <1>18 DEF ScopeLocked, Holds
  <2>3. req[q].id = k /\ req[q].in.org = in.org /\ lock = "scopes" =>
          "gap" \notin req[q].locks
    BY <1>10, <2>1 DEF Locked
  <2>4. "row" \in req[q].locks => req[q].id \in KwIds
    BY <2>1 DEF Locked
  <2> QED
    BY <1>11, <1>14, <1>16, <2>1, <2>2, <2>3, <2>4 DEF Apart, NothingRead
<1> QED
  BY <1>1, <1>13, <1>15, <1>17, <1>18, StepTo

LEMMA CreateScopesStep ==
  ASSUME IInv, NEW r \in Requests, CreateScopes(r)
  PROVE  IInv'
<1> DEFINE in == req[r].in
           sc == req[r].sc \cup ScopesFor(in, req[r].row.ver)
           locks == req[r].locks \cup {"scopes"}
           x == [req[r] EXCEPT !.pc = "commit", !.locks = locks, !.sc = sc]
<1>1. /\ req[r].pc = "scopes" /\ ~ScopeLocked(r, "scopes") /\ ~ScopeLocked(r, "gap")
      /\ UNCHANGED tables /\ UNCHANGED bounds
  BY DEF CreateScopes
<1>2. req[r].pc \in Steps /\ "commit" \in Steps
  BY <1>1 DEF Steps
<1>3. /\ req[r] \in Request /\ req[r].got = NothingRead /\ req[r].status = 0
      /\ in \in Inputs /\ in.bad = "none" /\ in.org \in Orgs
      /\ in.kind \in {"create", "update"} /\ Prepared(req[r]) /\ req[r].sc = {}
      /\ Locked(req[r])
  BY <1>1, <1>2, Facts DEF Control, Writing
<1>4. /\ req[r].id \in KwIds /\ "row" \in req[r].locks /\ req[r].row.org = in.org
      /\ req[r].row.ver \in Nat \ {0}
  BY <1>3 DEF Prepared, RowOK
<1>5. sc = {[org |-> req[r].row.org, ver |-> req[r].row.ver]}
  BY <1>3, <1>4 DEF ScopesFor
<1>6. sc \in SUBSET ScopeRow
  BY <1>3, <1>4, <1>5 DEF ScopeRow
<1>7. locks \in SUBSET {"row", "scopes", "gap"}
  BY <1>3 DEF Request
<1>8. Become(r, x)
  BY DEF CreateScopes
<1> HIDE DEF sc
<1>9. /\ x.pc = "commit" /\ x.in = in /\ x.id = req[r].id /\ x.sc = sc
      /\ x.locks = locks /\ x.got = NothingRead /\ x.status = 0
      /\ x.row = req[r].row
  BY <1>3 DEF Request
<1>10. x \in Request
  <2> DEFINE a == [req[r] EXCEPT !.pc = "commit"]
             b == [a EXCEPT !.locks = locks]
             c == [b EXCEPT !.sc = sc]
  <2>1. x = c
    BY <1>3 DEF Request
  <2>2. a \in Request
    BY <1>2, <1>3, SetPc
  <2> HIDE DEF a
  <2>3. b \in Request
    BY <1>7, <2>2, SetLocks
  <2> HIDE DEF b
  <2>4. c \in Request
    BY <1>6, <2>3, SetSc
  <2> QED
    BY <2>1, <2>4
<1>11. x.locks = req[r].locks \cup {"scopes"}
  BY <1>9
<1> HIDE DEF x, locks
<1>12. RequestOK(x)
  <2>1. Control(x)
    BY <1>3, <1>4, <1>5, <1>9, <1>11 DEF Control, Prepared, Writing
  <2>2. Locked(x)
    BY <1>3, <1>4, <1>9, <1>11 DEF Locked
  <2>3. ReadOK(x)
    BY <1>9 DEF ReadOK, NothingRead
  <2> QED
    BY <1>3, <1>9, <2>1, <2>2, <2>3 DEF RequestOK
<1>13. ASSUME NEW q \in Requests, q # r PROVE Apart(x, req[q]) /\ Apart(req[q], x)
  <2>1. Apart(req[r], req[q]) /\ Apart(req[q], req[r])
    BY <1>13 DEF IInv
  <2>2. req[q].id = req[r].id /\ req[q].in.org = in.org =>
          "scopes" \notin req[q].locks /\ "gap" \notin req[q].locks
    BY <1>1, <1>13 DEF ScopeLocked, Holds
  <2>3. x.got = req[r].got
    BY <1>3, <1>9
  <2> QED
    BY <1>9, <1>11, <2>1, <2>2, <2>3 DEF Apart
<1> QED
  BY <1>1, <1>8, <1>10, <1>12, <1>13, StepTo

LEMMA DeleteKeywordStep ==
  ASSUME IInv, NEW r \in Requests, DeleteKeyword(r)
  PROVE  IInv'
<1> DEFINE in == req[r].in
           k == req[r].id
           locks == req[r].locks \cup {"row"}
           x == [req[r] EXCEPT !.pc = "commit", !.row = NoKeyword, !.locks = locks]
<1>1. /\ req[r].pc = "row" /\ in.kind = "delete" /\ RowFree(r)
      /\ UNCHANGED tables /\ UNCHANGED bounds
  BY DEF DeleteKeyword
<1>2. req[r].pc \in Steps /\ "commit" \in Steps
  BY <1>1 DEF Steps
<1>3. CASE kws[k].org # in.org
  <2>1. Answer(r, 404)
    BY <1>3 DEF DeleteKeyword
  <2> QED
    BY <1>1, <2>1, KeepBounds, AnswerStep
<1>4. CASE kws[k].org = in.org
  <2>1. /\ req[r] \in Request /\ req[r].got = NothingRead /\ req[r].status = 0
        /\ in \in Inputs /\ in.bad = "none" /\ in.org \in Orgs /\ in.org # NoOrg
        /\ k \in KwIds /\ Locked(req[r])
    BY <1>1, <1>2, Facts DEF Control, Writing
  <2>2. k \in usedKws /\ scopes[k] = {[org |-> kws[k].org, ver |-> kws[k].ver]}
    BY <1>4, <2>1, RowThere
  <2>3. req[r].locks = {"scopes"} /\ req[r].sc = {}
    <3>1. "gap" \notin req[r].locks
      BY <1>4, <2>1, <2>2 DEF Locked
    <3>2. req[r].locks = {"gap"} \/ (req[r].locks = {"scopes"} /\ req[r].sc = {})
      BY <1>1, <1>2, Facts DEF Control
    <3> QED
      BY <3>1, <3>2
  <2>4. Become(r, x)
    BY <1>4 DEF DeleteKeyword
  <2>5. /\ x.pc = "commit" /\ x.in = in /\ x.id = k /\ x.sc = {}
        /\ x.locks = locks /\ x.got = NothingRead /\ x.status = 0
        /\ x.row = NoKeyword
    BY <2>1, <2>3 DEF Request
  <2>6. x.locks = {"row", "scopes"}
    BY <2>3, <2>5
  <2>7. x \in Request
    <3> DEFINE a == [req[r] EXCEPT !.pc = "commit"]
               b == [a EXCEPT !.row = NoKeyword]
               c == [b EXCEPT !.locks = locks]
    <3>1. x = c
      BY <2>1 DEF Request
    <3>2. a \in Request
      BY <1>2, <2>1, SetPc
    <3> HIDE DEF a
    <3>3. b \in Request
      BY <3>2, SetRow, BlankTypes
    <3> HIDE DEF b
    <3>4. locks \in SUBSET {"row", "scopes", "gap"}
      BY <2>3
    <3>5. c \in Request
      BY <3>3, <3>4, SetLocks
    <3> QED
      BY <3>1, <3>5
  <2> HIDE DEF x, locks
  <2>8. RequestOK(x)
    <3>1. Control(x)
      BY <1>1, <2>1, <2>5, <2>6 DEF Control, Writing
    <3>2. Locked(x)
      BY <1>1, <1>4, <2>1, <2>2, <2>5, <2>6 DEF Locked
    <3>3. ReadOK(x)
      BY <2>5 DEF ReadOK, NothingRead
    <3> QED
      BY <2>1, <2>5, <3>1, <3>2, <3>3 DEF RequestOK
  <2>9. ASSUME NEW q \in Requests, q # r PROVE Apart(x, req[q]) /\ Apart(req[q], x)
    <3>1. Apart(req[r], req[q]) /\ Apart(req[q], req[r])
      BY <2>9 DEF IInv
    <3>2. req[q].id = k => "row" \notin req[q].locks
      BY <1>1, <2>9 DEF RowFree, Holds
    <3> QED
      BY <1>1, <2>1, <2>3, <2>5, <2>6, <3>1, <3>2 DEF Apart
  <2> QED
    BY <1>1, <2>4, <2>7, <2>8, <2>9, StepTo
<1> QED
  BY <1>3, <1>4

-----------------------------------------------------------------------------
(* Steps that change a table.  The parts of the invariant, put together.    *)
LEMMA TableStep ==
  ASSUME IInv, NEW r \in Requests, NEW x \in Request, Become(r, x),
         TypeOK', Tables', RuleWhole', RequestOK(req[r])',
         \A q \in Requests : q # r =>
           RequestOK(req[q])' /\ Apart(x, req[q]) /\ Apart(req[q], x)
  PROVE  IInv'
<1>1. /\ req' \in [Requests -> Request] /\ req'[r] = x
      /\ \A q \in Requests : q # r => req'[q] = req[q]
  BY BecomeFacts DEF IInv
<1>2. ASSUME NEW p \in Requests, NEW q \in Requests, p # q
      PROVE  Apart(req[p], req[q])'
  <2>1. Apart(req'[p], req'[q])
    BY <1>1, <1>2 DEF IInv
  <2> QED
    BY <2>1 DEF Apart
<1> QED
  BY <1>2 DEF IInv

(* Giving out ids disturbs no request. *)
LEMMA KeepRequest ==
  ASSUME IInv, NEW p \in Requests, req'[p] = req[p],
         usedKws \subseteq usedKws', UNCHANGED <<kws, scopes>>,
         \A c \in CatIds : catOrg[c] # NoOrg => catOrg'[c] = catOrg[c]
  PROVE  RequestOK(req[p])'
<1>1. req[p] \in Request /\ RequestOK(req[p])
  BY DEF IInv, TypeOK
<1>2. ReadOK(req[p])'
  BY <1>1 DEF RequestOK, ReadOK
<1>3. Locked(req[p])'
  BY <1>1 DEF RequestOK, Locked
<1>4. req[p].pc \in Steps => req[p].in.org # NoOrg
  BY <1>1, RulesAssumption DEF RequestOK
<1>5. req[p].pc \in Steps /\ Checked(req[p]) => Checked(req[p])'
  BY <1>4 DEF Checked
<1>6. Prepared(req[p]) => Prepared(req[p])'
  BY RulesAssumption DEF Prepared, RowOK
<1>7. Control(req[p])'
  <2>1. Control(req[p])
    BY <1>1 DEF RequestOK
  <2>2. /\ req[p].pc = "insert" => req[p].pc \in Steps
        /\ req[p].pc = "row" => req[p].pc \in Steps
    BY DEF Steps
  <2> QED
    BY <1>5, <1>6, <2>1, <2>2 DEF Control
<1> QED
  BY <1>1, <1>2, <1>3, <1>7 DEF RequestOK

(* A request without locks that has read nothing. *)
LEMMA PlainOK ==
  ASSUME NEW r \in Requests, req'[r].locks = {}, req'[r].got = NothingRead,
         Control(req[r])',
         req'[r].pc \in Steps => /\ req'[r].in \in Inputs /\ req'[r].in.bad = "none"
                                 /\ req'[r].in.org \in Orgs /\ req'[r].status = 0
  PROVE  RequestOK(req[r])'
<1>1. ReadOK(req[r])' /\ Locked(req[r])'
  BY DEF ReadOK, Locked, NothingRead
<1> QED
  BY <1>1 DEF RequestOK

LEMMA InsertStep ==
  ASSUME IInv, NEW r \in Requests, InsertKeyword(r)
  PROVE  IInv'
<1>1. /\ req[r].pc = "insert" /\ UNCHANGED <<cats, kws, scopes, catOrg>>
      /\ UNCHANGED bounds
  BY DEF InsertKeyword
<1>2. req[r].pc \in Steps /\ "scopes" \in Steps
  BY <1>1 DEF Steps
<1>3. CASE Answer(r, 500) /\ UNCHANGED usedKws
  BY <1>1, <1>3, KeepBounds, AnswerStep DEF tables
<1>4. ASSUME NEW k \in KwIds \ usedKws, usedKws' = usedKws \cup {k},
             Become(r, [req[r] EXCEPT !.pc = "scopes", !.id = k,
                          !.locks = {"row"}, !.row = Created(req[r].in)])
      PROVE  IInv'
  <2> DEFINE in == req[r].in
             row == Created(in)
             x == [req[r] EXCEPT !.pc = "scopes", !.id = k,
                                 !.locks = {"row"}, !.row = row]
  <2>1. /\ req[r] \in Request /\ req[r].got = NothingRead /\ req[r].status = 0
        /\ in \in Inputs /\ in.bad = "none" /\ in.org \in Orgs
        /\ in.kind = "create" /\ in.cat \in CatIds /\ catOrg[in.cat] = in.org
        /\ req[r].sc = {} /\ in \in Input
    BY <1>1, <1>2, Facts DEF Control, Writing, Checked
  <2>2. in.content \in Contents
    BY <2>1, RulesAssumption
  <2>3. row \in Keyword /\ row.org = in.org /\ row.cat = in.cat /\ row.ver = 1
    BY <2>1, <2>2 DEF Created, Keyword
  <2>4. Become(r, x)
    BY <1>4
  <2> HIDE DEF row
  <2>5. /\ x.pc = "scopes" /\ x.in = in /\ x.id = k /\ x.sc = {}
        /\ x.locks = {"row"} /\ x.got = NothingRead /\ x.status = 0
        /\ x.row = row
    BY <2>1 DEF Request
  <2>6. x \in Request
    <3> DEFINE a == [req[r] EXCEPT !.pc = "scopes"]
               b == [a EXCEPT !.id = k]
               c == [b EXCEPT !.locks = {"row"}]
               d == [c EXCEPT !.row = row]
    <3>1. x = d
      BY <2>1 DEF Request
    <3>2. a \in Request
      BY <1>2, <2>1, SetPc
    <3> HIDE DEF a
    <3>3. b \in Request
      <4>1. k \in CatIds \cup KwIds \cup {NoId}
        BY <1>4
      <4> QED
        BY <3>2, <4>1, SetId
    <3> HIDE DEF b
    <3>4. c \in Request
      <4>1. {"row"} \in SUBSET {"row", "scopes", "gap"}
        OBVIOUS
      <4> QED
        BY <3>3, <4>1, SetLocks
    <3> HIDE DEF c
    <3>5. d \in Request
      BY <2>3, <3>4, SetRow
    <3> QED
      BY <3>1, <3>5
  <2> HIDE DEF x
  <2>7. req' \in [Requests -> Request] /\ req'[r] = x
        /\ \A q \in Requests : q # r => req'[q] = req[q]
    BY <2>4, <2>6, BecomeFacts DEF IInv
  <2>8. TypeOK'
    BY <1>1, <1>4, <2>7, KeepBounds DEF IInv, TypeOK
  <2>9. Tables' /\ RuleWhole'
    BY <1>1, <1>4 DEF IInv, Tables, RuleWhole, RowOK
  <2>10. kws[k] = NoKeyword /\ k \notin usedKws /\ k \in KwIds
    BY <1>4 DEF IInv, Tables
  <2>11. RequestOK(req[r])'
    <3>1. RowOK(row)
      BY <2>1, <2>3 DEF RowOK
    <3>2. Control(req[r])'
      <4>1. Prepared(req[r])'
        BY <1>1, <2>1, <2>3, <2>5, <2>7, <2>10, <3>1 DEF Prepared, RowOK
      <4> QED
        BY <2>1, <2>5, <2>7, <4>1 DEF Control, Writing
    <3>3. Locked(req[r])'
      BY <1>1, <1>4, <2>1, <2>5, <2>7, <2>10 DEF Locked
    <3>4. ReadOK(req[r])'
      BY <2>5, <2>7 DEF ReadOK, NothingRead
    <3> QED
      BY <2>1, <2>5, <2>7, <3>2, <3>3, <3>4 DEF RequestOK
  <2>12. ASSUME NEW q \in Requests, q # r
         PROVE  RequestOK(req[q])' /\ Apart(x, req[q]) /\ Apart(req[q], x)
    <3>1. RequestOK(req[q])'
      BY <1>1, <1>4, <2>7, <2>12, KeepRequest
    <3>2. /\ req[q].id = k => "row" \notin req[q].locks
          /\ req[q].got[k] = NoKeyword
          /\ "row" \in req[q].locks => req[q].id \in KwIds
      BY <2>10 DEF IInv, RequestOK, Locked, ReadOK
    <3> QED
      BY <2>5, <3>1, <3>2 DEF Apart, NothingRead
  <2> QED
    BY <2>4, <2>6, <2>8, <2>9, <2>11, <2>12, TableStep
<1> QED
  BY <1>3, <1>4 DEF InsertKeyword

-----------------------------------------------------------------------------
(* COMMIT: what the others rely on. *)
LEMMA CommitFrame ==
  ASSUME IInv, NEW r \in Requests, req[r].pc = "commit", Committed(r),
         UNCHANGED <<cats, catOrg, usedKws>>
  PROVE  /\ kws' \in [KwIds -> Keyword] /\ scopes' \in [KwIds -> SUBSET ScopeRow]
         /\ Tables' /\ RuleWhole'
         /\ \A q \in Requests : q # r /\ req'[q] = req[q] => RequestOK(req[q])'
<1> DEFINE k == req[r].id
           in == req[r].in
           row == req[r].row
           sc == req[r].sc
<1>1. req[r].pc \in Steps
  BY DEF Steps
<1>2. /\ k \in KwIds /\ k \in usedKws /\ "row" \in req[r].locks
      /\ "scopes" \in req[r].locks /\ in.kind \in {"create", "update", "delete"}
      /\ row \in Keyword /\ sc \subseteq ScopeRow
  BY <1>1, Facts DEF Control, Locked, Request
<1>4. /\ kws' = [kws EXCEPT ![k] = row] /\ scopes' = [scopes EXCEPT ![k] = sc]
  BY <1>2 DEF Committed
<1>5. \/ in.kind = "delete" /\ row = NoKeyword /\ sc = {}
      \/ /\ in.kind # "delete" /\ RowOK(row) /\ row.org = in.org /\ in.org \in Orgs
         /\ row # NoKeyword /\ sc = {[org |-> row.org, ver |-> row.ver]}
  <2>1. in.kind = "delete" => row = NoKeyword /\ sc = {}
    BY <1>1, Facts DEF Control
  <2>2. in.kind # "delete" => /\ RowOK(row) /\ row.org = in.org
                              /\ sc = {[org |-> row.org, ver |-> row.ver]}
    BY <1>1, <1>2, Facts DEF Control, Prepared
  <2>3. in.org \in Orgs /\ in.org # NoOrg
    BY <1>1, Facts
  <2> QED
    BY <2>1, <2>2, <2>3 DEF NoKeyword
<1>6. /\ kws' \in [KwIds -> Keyword] /\ scopes' \in [KwIds -> SUBSET ScopeRow]
      /\ kws'[k] = row /\ scopes'[k] = sc
      /\ \A j \in KwIds : j # k => kws'[j] = kws[j] /\ scopes'[j] = scopes[j]
  BY <1>2, <1>4 DEF IInv, TypeOK
<1> HIDE DEF row, sc
<1>7. Tables'
  <2>1. \A j \in KwIds : kws'[j] = NoKeyword \/ (j \in usedKws /\ RowOK(kws'[j]))
    BY <1>2, <1>5, <1>6 DEF IInv, Tables
  <2> QED
    BY <2>1 DEF IInv, Tables, RowOK
<1>8. RuleWhole'
  <2>1. \A j \in KwIds : scopes'[j] = IF kws'[j] = NoKeyword THEN {}
                     ELSE {[org |-> kws'[j].org, ver |-> kws'[j].ver]}
    BY <1>5, <1>6 DEF IInv, RuleWhole
  <2> QED
    BY <2>1 DEF RuleWhole
<1>9. ASSUME NEW q \in Requests, q # r, req'[q] = req[q]
      PROVE  RequestOK(req[q])'
  <2>1. /\ RequestOK(req[q]) /\ Apart(req[r], req[q]) /\ req[q] \in Request
    BY <1>9 DEF IInv, TypeOK
  <2>2. Control(req[q])'
    BY <1>9, <2>1 DEF RequestOK, Control, Checked, Prepared, RowOK
  <2>3. Locked(req[q])'
    <3>1. "row" \in req[q].locks => req[q].id # k
      BY <1>2, <2>1 DEF Apart
    <3>2. "gap" \in req[q].locks => \A y \in scopes'[req[q].id] : y.org # req[q].in.org
      <4>1. CASE req[q].id # k
        BY <1>6, <2>1, <4>1 DEF RequestOK, Locked
      <4>2. CASE req[q].id = k
        <5>1. "gap" \in req[q].locks => req[q].in.org # in.org
          BY <1>2, <2>1, <4>2 DEF Apart
        <5> QED
          BY <1>5, <1>6, <4>2, <5>1
      <4> QED
        BY <4>1, <4>2
    <3>3. Locked(req[q])
      BY <2>1 DEF RequestOK
    <3> QED
      BY <1>6, <1>9, <3>1, <3>2, <3>3 DEF Locked
  <2>4. ReadOK(req[q])'
    <3>1. ReadOK(req[q])
      BY <2>1 DEF RequestOK
    <3>2. in.kind = "create" => req[q].got[k] = NoKeyword
      BY <1>2, <2>1 DEF Apart
    <3>3. in.kind = "update" => kws[k].org = in.org /\ kws[k].ver < row.ver
                                /\ kws[k] # NoKeyword
      <4>1. in.kind = "update" => kws[k].org = in.org /\ kws[k].ver < row.ver
        BY <1>1, <1>2, Facts DEF Locked, row
      <4>2. in.org # NoOrg
        BY <1>1, Facts
      <4> QED
        BY <4>1, <4>2 DEF NoKeyword
    <3>4. req[q].got[k] # NoKeyword =>
            /\ kws'[k] = NoKeyword
                 \/ (kws'[k].org = req[q].in.org /\ kws'[k].ver >= req[q].got[k].ver)
            /\ req[q].status = 200 /\ req[q].gotScopes[k] = {} => kws'[k] = NoKeyword
      <4>1. CASE in.kind = "delete"
        BY <1>5, <1>6, <4>1
      <4>2. CASE in.kind = "create"
        BY <3>2, <4>2
      <4>3. CASE in.kind = "update"
        <5>1. /\ kws[k].ver \in Nat /\ row.ver \in Nat /\ req[q].got[k].ver \in Nat
          BY <1>2, <2>1 DEF IInv, TypeOK, Keyword, Request, row
        <5>2. req[q].got[k] # NoKeyword =>
                kws[k].org = req[q].in.org /\ kws[k].ver >= req[q].got[k].ver
          BY <1>2, <3>1, <3>3, <4>3 DEF ReadOK
        <5>3. req[q].got[k] # NoKeyword /\ req[q].status = 200 => req[q].gotScopes[k] # {}
          BY <1>2, <3>1, <3>3, <4>3 DEF ReadOK
        <5>4. kws'[k].org = in.org /\ kws'[k] = row
          BY <1>5, <1>6, <4>3
        <5> QED
          BY <3>3, <4>3, <5>1, <5>2, <5>3, <5>4
      <4> QED
        BY <1>2, <4>1, <4>2, <4>3
    <3> QED
      BY <1>6, <1>9, <3>1, <3>4 DEF ReadOK
  <2> QED
    BY <1>9, <2>1, <2>2, <2>3, <2>4 DEF RequestOK
<1> QED
  BY <1>6, <1>7, <1>8, <1>9

LEMMA CommitStep ==
  ASSUME IInv, NEW r \in Requests, req[r].pc = "commit", Committed(r),
         UNCHANGED <<cats, catOrg, usedKws>>, NEW x \in Request, Become(r, x),
         x.locks = {}, x.got = NothingRead, x.in = req[r].in,
         x.pc = "done" \/ (x.pc = "get" /\ x.id = req[r].id /\ x.status = 0),
         sends' \in 0..MaxSends, faults' \in 0..MaxFaults,
         crashes' \in 0..MaxCrashes
  PROVE  IInv'
<1>1. /\ req' \in [Requests -> Request] /\ req'[r] = x
      /\ \A q \in Requests : q # r => req'[q] = req[q]
  BY BecomeFacts DEF IInv
<1>2. /\ kws' \in [KwIds -> Keyword] /\ scopes' \in [KwIds -> SUBSET ScopeRow]
      /\ Tables' /\ RuleWhole'
      /\ \A q \in Requests : q # r /\ req'[q] = req[q] => RequestOK(req[q])'
  BY CommitFrame
<1>3. TypeOK'
  BY <1>1, <1>2 DEF IInv, TypeOK
<1>4. req[r].pc \in Steps
  BY DEF Steps
<1>5. req[r].id \in KwIds
  BY <1>4, Facts DEF Control
<1>6. Control(req[r])'
  BY <1>1, <1>5 DEF Control, Writing
<1>7. RequestOK(req[r])'
  <2>1. x.pc \in Steps => x.pc = "get" /\ x.status = 0
    BY DEF Steps
  <2> QED
    BY <1>1, <1>4, <1>6, <2>1, Facts, PlainOK
<1>8. \A q \in Requests : q # r => Apart(x, req[q]) /\ Apart(req[q], x)
  <2>1. \A q \in Requests : req[q] \in Request /\ RequestOK(req[q])
    BY DEF IInv, TypeOK
  <2> QED
    BY <2>1, IdleApart
<1> QED
  BY <1>1, <1>2, <1>3, <1>7, <1>8, TableStep

LEMMA CommitsOK ==
  ASSUME IInv, NEW r \in Requests, Commit(r) \/ LoseCommit(r)
  PROVE  IInv'
<1>1. req[r].pc = "commit" /\ Committed(r) /\ UNCHANGED <<cats, catOrg, usedKws>>
  BY DEF Commit, LoseCommit
<1>2. req[r].pc \in Steps /\ "get" \in Steps
  BY <1>1 DEF Steps
<1>3. req[r] \in Request /\ req[r].got = NothingRead /\ req[r].status = 0
  BY <1>1, <1>2, Facts DEF Control, Writing
<1>4. sends' \in 0..MaxSends /\ faults' \in 0..MaxFaults /\ crashes' \in 0..MaxCrashes
  <2>1. CASE UNCHANGED bounds
    BY <2>1, KeepBounds
  <2>2. CASE faults < MaxFaults /\ faults' = faults + 1 /\ UNCHANGED <<sends, crashes>>
    BY <2>2, RulesAssumption DEF IInv, TypeOK
  <2> QED
    BY <2>1, <2>2 DEF Commit, LoseCommit
<1>5. ASSUME NEW status \in {200, 400, 401, 404, 500}, Answer(r, status)
      PROVE  IInv'
  <2> DEFINE x == Answered(req[r], status)
  <2>1. x \in Request /\ x.locks = {} /\ x.got = NothingRead /\ x.pc = "done"
    BY <1>3, AnsweredOK
  <2>2. x.in = req[r].in
    BY DEF Answered, NewRequest
  <2>3. Become(r, x)
    BY <1>5 DEF Answer
  <2> HIDE DEF x
  <2> QED
    BY <1>1, <1>4, <2>1, <2>2, <2>3, CommitStep
<1>6. CASE Become(r, [req[r] EXCEPT !.pc = "get", !.wrote = req[r].row.ver,
                        !.locks = {}, !.row = NoKeyword, !.sc = {}])
  <2> DEFINE ver == req[r].row.ver
             x == [req[r] EXCEPT !.pc = "get", !.wrote = ver,
                                 !.locks = {}, !.row = NoKeyword, !.sc = {}]
  <2>1. ver \in Nat
    BY <1>3 DEF Request, Keyword
  <2>2. Become(r, x)
    BY <1>6
  <2> HIDE DEF ver
  <2>3. /\ x.pc = "get" /\ x.locks = {} /\ x.got = NothingRead /\ x.in = req[r].in
        /\ x.id = req[r].id /\ x.status = 0
    BY <1>3 DEF Request
  <2>4. x \in Request
    <3> DEFINE a == [req[r] EXCEPT !.pc = "get"]
               b == [a EXCEPT !.wrote = ver]
               c == [b EXCEPT !.locks = {}]
               d == [c EXCEPT !.row = NoKeyword]
               e == [d EXCEPT !.sc = {}]
    <3>1. x = e
      BY <1>3 DEF Request
    <3>2. a \in Request
      BY <1>2, <1>3, SetPc
    <3> HIDE DEF a
    <3>3. b \in Request
      BY <2>1, <3>2, SetWrote
    <3> HIDE DEF b
    <3>4. c \in Request
      <4>1. {} \in SUBSET {"row", "scopes", "gap"}
        OBVIOUS
      <4> QED
        BY <3>3, <4>1, SetLocks
    <3> HIDE DEF c
    <3>5. d \in Request
      BY <3>4, BlankTypes, SetRow
    <3> HIDE DEF d
    <3>6. e \in Request
      <4>1. {} \in SUBSET ScopeRow
        OBVIOUS
      <4> QED
        BY <3>5, <4>1, SetSc
    <3> QED
      BY <3>1, <3>6
  <2> HIDE DEF x
  <2> QED
    BY <1>1, <1>4, <2>2, <2>3, <2>4, CommitStep
<1> QED
  BY <1>5, <1>6 DEF Commit, LoseCommit

LEMMA PatchStep ==
  ASSUME IInv, NEW r \in Requests, PatchEnabled(r)
  PROVE  IInv'
<1> DEFINE in == req[r].in
           k == req[r].id
<1>1. /\ req[r].pc = "patch" /\ RowFree(r) /\ UNCHANGED bounds
      /\ UNCHANGED <<cats, scopes, catOrg, usedKws>>
  BY DEF PatchEnabled
<1>2. req[r].pc \in Steps /\ "get" \in Steps
  BY <1>1 DEF Steps
<1>3. CASE Answer(r, 404) /\ UNCHANGED kws
  BY <1>1, <1>3, KeepBounds, AnswerStep DEF tables
<1>4. CASE /\ kws[k].org = in.org /\ kws' = [kws EXCEPT ![k].enabled = in.enabled]
           /\ Become(r, [req[r] EXCEPT !.pc = "get", !.wrote = kws[k].ver])
  <2> DEFINE ver == kws[k].ver
             x == [req[r] EXCEPT !.pc = "get", !.wrote = ver]
  <2>1. /\ req[r] \in Request /\ req[r].status = 0 /\ req[r].locks = {}
        /\ in \in Inputs /\ in.bad = "none" /\ in.org \in Orgs /\ in.org # NoOrg
        /\ k \in KwIds /\ in \in Input /\ ReadOK(req[r])
    BY <1>1, <1>2, Facts DEF Control
  <2>2. RowOK(kws[k]) /\ kws[k] # NoKeyword /\ k \in usedKws
    BY <1>4, <2>1, RowThere
  <2>3. ver \in Nat
    BY <2>2 DEF RowOK
  <2>4. Become(r, x)
    BY <1>4
  <2> HIDE DEF ver
  <2>5. /\ x.pc = "get" /\ x.locks = {} /\ x.in = in /\ x.id = k
        /\ x.status = 0 /\ x.got = req[r].got
    BY <2>1 DEF Request
  <2>6. x \in Request
    <3> DEFINE a == [req[r] EXCEPT !.pc = "get"]
               b == [a EXCEPT !.wrote = ver]
    <3>1. x = b
      BY <2>1 DEF Request
    <3>2. a \in Request
      BY <1>2, <2>1, SetPc
    <3> HIDE DEF a
    <3>3. b \in Request
      BY <2>3, <3>2, SetWrote
    <3> QED
      BY <3>1, <3>3
  <2> HIDE DEF x
  <2>7. /\ req' \in [Requests -> Request] /\ req'[r] = x
        /\ \A q \in Requests : q # r => req'[q] = req[q]
    BY <2>4, <2>6, BecomeFacts DEF IInv
  <2>8. /\ \A j \in KwIds : j # k => kws'[j] = kws[j]
        /\ kws'[k] = [kws[k] EXCEPT !.enabled = in.enabled]
    BY <1>4, <2>1 DEF IInv, TypeOK
  <2>9. /\ kws'[k] \in Keyword /\ kws'[k].org = kws[k].org
        /\ kws'[k].cat = kws[k].cat /\ kws'[k].ver = kws[k].ver
    <3>1. kws[k] \in Keyword /\ in.enabled \in BOOLEAN
      BY <2>1 DEF IInv, TypeOK, Input
    <3> QED
      BY <2>8, <3>1 DEF Keyword
  <2>10. kws'[k] # NoKeyword
    BY <1>4, <2>1, <2>9 DEF NoKeyword
  <2>11. TypeOK'
    <3>1. kws' \in [KwIds -> Keyword]
      BY <1>4, <2>8, <2>9 DEF IInv, TypeOK
    <3> QED
      BY <1>1, <2>7, <3>1, KeepBounds DEF IInv, TypeOK
  <2>12. Tables'
    <3>1. \A j \in KwIds : kws'[j] = NoKeyword \/ (j \in usedKws /\ RowOK(kws'[j]))
      <4>1. RowOK(kws'[k])
        BY <2>2, <2>9 DEF RowOK
      <4> QED
        BY <2>2, <2>8, <4>1 DEF IInv, Tables
    <3> QED
      BY <1>1, <3>1 DEF IInv, Tables, RowOK
  <2>13. RuleWhole'
    <3>1. \A j \in KwIds : scopes[j] = IF kws'[j] = NoKeyword THEN {}
                       ELSE {[org |-> kws'[j].org, ver |-> kws'[j].ver]}
      <4> TAKE j \in KwIds
      <4>1. CASE j # k
        BY <2>8, <4>1 DEF IInv, RuleWhole
      <4>2. CASE j = k
        <5>1. scopes[k] = {[org |-> kws[k].org, ver |-> kws[k].ver]}
          BY <2>1, <2>2 DEF IInv, RuleWhole
        <5> QED
          BY <2>9, <2>10, <4>2, <5>1
      <4> QED
        BY <4>1, <4>2
    <3> QED
      BY <1>1, <3>1 DEF RuleWhole
  <2>14. \A q \in Requests : req'[q].got = req[q].got /\ req'[q].in = req[q].in
           /\ req'[q].status \in {0, req[q].status} /\ req'[q].gotScopes = req[q].gotScopes
    <3>1. x.gotScopes = req[r].gotScopes
      BY <2>1 DEF x, Request
    <3> QED
      BY <2>5, <2>7, <3>1
  <2>15. ASSUME NEW q \in Requests PROVE ReadOK(req[q])'
    <3>1. ReadOK(req[q])
      BY DEF IInv, RequestOK
    <3>2. \A j \in KwIds : /\ kws'[j] = NoKeyword <=> kws[j] = NoKeyword
                           /\ kws'[j].org = kws[j].org /\ kws'[j].ver = kws[j].ver
      BY <2>2, <2>8, <2>9, <2>10
    <3>3. req'[q].status = 200 => req[q].status = 200
      BY <2>14
    <3> QED
      BY <1>1, <2>14, <3>1, <3>2, <3>3 DEF ReadOK
  <2>16. RequestOK(req[r])'
    <3>1. Control(req[r])'
      BY <2>1, <2>5, <2>7 DEF Control, Writing
    <3>2. Locked(req[r])'
      BY <2>5, <2>7 DEF Locked
    <3> QED
      BY <2>1, <2>5, <2>7, <2>15, <3>1, <3>2 DEF RequestOK
  <2>17. ASSUME NEW q \in Requests, q # r
         PROVE  RequestOK(req[q])' /\ Apart(x, req[q]) /\ Apart(req[q], x)
    <3>1. RequestOK(req[q]) /\ Apart(req[q], req[r])
      BY <2>17 DEF IInv
    <3>2. req[q].id = k => "row" \notin req[q].locks
      BY <1>1, <2>17 DEF RowFree, Holds
    <3>3. Control(req[q])'
      BY <1>1, <2>7, <2>17, <3>1 DEF RequestOK, Control, Checked, Prepared, RowOK
    <3>4. Locked(req[q])'
      BY <1>1, <2>7, <2>8, <2>17, <3>1, <3>2 DEF RequestOK, Locked
    <3>5. RequestOK(req[q])'
      BY <2>7, <2>15, <2>17, <3>1, <3>3, <3>4 DEF RequestOK
    <3> QED
      BY <2>5, <3>1, <3>5 DEF Apart
  <2> QED
    BY <2>4, <2>6, <2>11, <2>12, <2>13, <2>16, <2>17, TableStep
<1> QED
  BY <1>3, <1>4 DEF PatchEnabled

-----------------------------------------------------------------------------
(* Reads: one statement each, from what is committed. *)
LEMMA RowsRead ==
  ASSUME IInv, NEW r \in Requests, req[r].pc \in Steps, req[r].locks = {},
         NEW ids, ids \subseteq keywordQuery(req[r].in.org),
         Become(r, [req[r] EXCEPT !.pc = "getScopes", !.got = Rows(ids)]),
         UNCHANGED <<tables, bounds>>
  PROVE  IInv'
<1> DEFINE in == req[r].in
           got == Rows(ids)
           x == [req[r] EXCEPT !.pc = "getScopes", !.got = got]
<1>1. /\ req[r] \in Request /\ req[r].status = 0 /\ in.org # NoOrg
      /\ "getScopes" \in Steps
  BY Facts DEF Steps
<1>2. got \in [KwIds -> Keyword]
  BY BlankTypes DEF Rows, IInv, TypeOK
<1>3. \A k \in KwIds : got[k] # NoKeyword => kws[k].org = in.org /\ got[k] = kws[k]
  BY DEF Rows, keywordQuery
<1>4. Become(r, x)
  OBVIOUS
<1> HIDE DEF got
<1>5. /\ x.pc = "getScopes" /\ x.in = in /\ x.id = req[r].id /\ x.locks = {}
      /\ x.got = got /\ x.status = 0
  BY <1>1 DEF Request
<1>6. x \in Request
  <2> DEFINE a == [req[r] EXCEPT !.pc = "getScopes"]
             b == [a EXCEPT !.got = got]
  <2>1. x = b
    BY <1>1 DEF Request
  <2>2. a \in Request
    BY <1>1, SetPc
  <2> HIDE DEF a
  <2>3. b \in Request
    BY <1>2, <2>2, SetGot
  <2> QED
    BY <2>1, <2>3
<1> HIDE DEF x
<1>7. Control(x)
  BY <1>5 DEF Control, Writing
<1>8. ReadOK(x)
  <2> SUFFICES ASSUME NEW k \in KwIds, got[k] # NoKeyword
               PROVE  k \in usedKws /\ kws[k].org = in.org /\ got[k] = kws[k]
                      /\ kws[k].ver \in Nat
    BY <1>5 DEF ReadOK
  <2>1. kws[k].org = in.org /\ got[k] = kws[k]
    BY <1>3
  <2> QED
    BY <1>1, <2>1, RowThere DEF RowOK
<1>9. \A k \in KwIds : x.got[k] = NoKeyword \/ kws[k] # NoKeyword
  BY <1>3, <1>5
<1> QED
  BY <1>4, <1>5, <1>6, <1>7, <1>8, <1>9, MoveStep

LEMMA TotalRead ==
  ASSUME IInv, NEW r \in Requests, req[r].pc \in Steps, req[r].locks = {},
         NEW pc \in {"items", "catItems"}, NEW n \in Nat,
         Become(r, [req[r] EXCEPT !.pc = pc, !.total = n]),
         UNCHANGED <<tables, bounds>>
  PROVE  IInv'
<1> DEFINE x == [req[r] EXCEPT !.pc = pc, !.total = n]
<1>1. /\ req[r] \in Request /\ req[r].status = 0 /\ ReadOK(req[r]) /\ pc \in Steps
  BY Facts DEF Steps
<1>2. /\ x.pc = pc /\ x.in = req[r].in /\ x.id = req[r].id /\ x.locks = {}
      /\ x.got = req[r].got /\ x.status = 0
  BY <1>1 DEF Request
<1>3. x \in Request
  <2> DEFINE a == [req[r] EXCEPT !.pc = pc]
             b == [a EXCEPT !.total = n]
  <2>1. x = b
    BY <1>1 DEF Request
  <2>2. a \in Request
    BY <1>1, SetPc
  <2> HIDE DEF a
  <2>3. b \in Request
    BY <2>2, SetTotal
  <2> QED
    BY <2>1, <2>3
<1>4. Become(r, x)
  OBVIOUS
<1> HIDE DEF x
<1>5. Control(x)
  BY <1>2 DEF Control, Writing
<1>6. ReadOK(x)
  BY <1>1, <1>2 DEF ReadOK
<1> QED
  BY <1>2, <1>3, <1>4, <1>5, <1>6, MoveStep

LEMMA ReadSteps ==
  ASSUME IInv, NEW r \in Requests,
         \/ getKeyword(r) \/ CountKeywords(r) \/ ListKeywords(r) \/ ListByIDs(r)
         \/ GetCategory(r) \/ CountCategories(r) \/ ListCategories(r)
  PROVE  IInv'
<1>1. req[r].pc \in {"get", "count", "items", "catGet", "catCount", "catItems"}
      /\ UNCHANGED tables /\ UNCHANGED bounds
  BY DEF getKeyword, CountKeywords, ListKeywords, ListByIDs, GetCategory,
         CountCategories, ListCategories
<1>2. req[r].pc \in Steps
  BY <1>1 DEF Steps
<1>3. req[r].locks = {}
  BY <1>1, <1>2, Facts
<1>4. ASSUME NEW status \in {200, 400, 401, 404, 500}, Answer(r, status) PROVE IInv'
  BY <1>1, <1>4, KeepBounds, AnswerStep
<1>5. CASE getKeyword(r)
  <2>1. CASE req[r].id \notin keywordQuery(req[r].in.org)
    BY <1>4, <1>5, <2>1 DEF getKeyword
  <2>2. CASE req[r].id \in keywordQuery(req[r].in.org)
    <3>1. Become(r, [req[r] EXCEPT !.pc = "getScopes", !.got = Rows({req[r].id})])
      BY <1>5, <2>2 DEF getKeyword
    <3>2. {req[r].id} \subseteq keywordQuery(req[r].in.org)
      BY <2>2
    <3> QED
      BY <1>1, <1>2, <1>3, <3>1, <3>2, RowsRead
  <2> QED
    BY <2>1, <2>2
<1>6. CASE ListKeywords(r)
  <2> DEFINE in == req[r].in
             ids == Page({k \in keywordQuery(in.org) : Matches(in, kws[k])}, in.page)
  <2>1. ids \subseteq keywordQuery(in.org)
    BY DEF Page
  <2>2. \/ Answer(r, 200)
        \/ Become(r, [req[r] EXCEPT !.pc = "getScopes", !.got = Rows(ids)])
    BY <1>6 DEF ListKeywords
  <2> HIDE DEF ids
  <2> QED
    BY <1>1, <1>2, <1>3, <1>4, <2>1, <2>2, RowsRead
<1>7. CASE ListByIDs(r)
  <2> DEFINE ids == keywordQuery(req[r].in.org) \cap req[r].in.ids
  <2>1. ids \subseteq keywordQuery(req[r].in.org)
    OBVIOUS
  <2>2. Become(r, [req[r] EXCEPT !.pc = "getScopes", !.got = Rows(ids)])
    BY <1>7 DEF ListByIDs
  <2> HIDE DEF ids
  <2> QED
    BY <1>1, <1>2, <1>3, <2>1, <2>2, RowsRead
<1>8. CASE CountKeywords(r)
  <2> DEFINE S == {k \in KwIds : Matches(req[r].in, kws[k])}
             n == Cardinality(S)
  <2>1. n \in Nat
    <3>1. IsFiniteSet(S)
      BY RulesAssumption, FS_Subset
    <3> HIDE DEF S
    <3> QED
      BY <3>1, FS_CardinalityType
  <2>2. Become(r, [req[r] EXCEPT !.pc = "items", !.total = n])
    BY <1>8 DEF CountKeywords
  <2> HIDE DEF n
  <2> QED
    BY <1>1, <1>2, <1>3, <2>1, <2>2, TotalRead
<1>9. CASE CountCategories(r)
  <2> DEFINE S == {c \in CatIds : Matches(req[r].in,
                   [org |-> cats[c].org, cat |-> req[r].in.cat,
                    content |-> cats[c].content, enabled |-> cats[c].enabled])}
             n == Cardinality(S)
  <2>1. n \in Nat
    <3>1. IsFiniteSet(S)
      BY RulesAssumption, FS_Subset
    <3> HIDE DEF S
    <3> QED
      BY <3>1, FS_CardinalityType
  <2>2. Become(r, [req[r] EXCEPT !.pc = "catItems", !.total = n])
    BY <1>9 DEF CountCategories
  <2> HIDE DEF n
  <2> QED
    BY <1>1, <1>2, <1>3, <2>1, <2>2, TotalRead
<1>10. CASE GetCategory(r)
  <2>1. Answer(r, 200) \/ Answer(r, 404)
    BY <1>10 DEF GetCategory
  <2> QED
    BY <1>4, <2>1
<1>11. CASE ListCategories(r)
  BY <1>4, <1>11 DEF ListCategories
<1> QED
  BY <1>5, <1>6, <1>7, <1>8, <1>9, <1>10, <1>11

(* The scopes of what was read: of that version or a later one. *)
LEMMA ScopesStep ==
  ASSUME IInv, NEW r \in Requests, listScopes(r)
  PROVE  IInv'
<1> DEFINE in == req[r].in
           found(k) == {y \in scopes[k] : y.org = in.org}
           short == in.kind = "task" /\ Read(r) # in.ids
           status == IF short THEN 400 ELSE 200
           gotScopes == [k \in KwIds |->
                           IF ~short /\ k \in Read(r) THEN found(k) ELSE {}]
           got == IF short THEN NothingRead ELSE req[r].got
           x == [req[r] EXCEPT !.pc = "done", !.status = status,
                               !.gotScopes = gotScopes, !.got = got]
<1>1. req[r].pc = "getScopes" /\ UNCHANGED tables /\ UNCHANGED bounds
  BY DEF listScopes
<1>2. req[r].pc \in Steps
  BY <1>1 DEF Steps
<1>3. /\ req[r] \in Request /\ req[r].status = 0 /\ ReadOK(req[r])
      /\ req[r].locks = {} /\ in.org # NoOrg
  BY <1>1, <1>2, Facts
<1>4. Become(r, x)
  <2> HIDE DEF short, found
  <2>1. Become(r, [req[r] EXCEPT
          !.pc = "done", !.status = IF short THEN 400 ELSE 200,
          !.gotScopes = [k \in KwIds |->
                           IF ~short /\ k \in Read(r) THEN found(k) ELSE {}],
          !.got = IF short THEN NothingRead ELSE @])
    BY DEF listScopes, short, found
  <2> QED
    BY <2>1, <1>3 DEF Request
<1>5. status \in {200, 400} /\ got \in [KwIds -> Keyword]
  <2>1. req[r].got \in [KwIds -> Keyword]
    BY <1>3 DEF Request
  <2> HIDE DEF short
  <2> QED
    BY <2>1, BlankTypes
<1>6. gotScopes \in [KwIds -> SUBSET ScopeRow]
  <2>1. \A k \in KwIds : found(k) \in SUBSET ScopeRow
    BY DEF IInv, TypeOK
  <2> HIDE DEF short, found
  <2> QED
    BY <2>1
<1>7. \A k \in KwIds : got[k] # NoKeyword =>
        got[k] = req[r].got[k] /\ gotScopes[k] = found(k)
  <2> SUFFICES ASSUME NEW k \in KwIds, got[k] # NoKeyword
               PROVE  got[k] = req[r].got[k] /\ gotScopes[k] = found(k)
    OBVIOUS
  <2> HIDE DEF short, found
  <2>1. ~short
    BY DEF NothingRead
  <2>2. k \in Read(r)
    BY <2>1 DEF Read
  <2> QED
    BY <2>1, <2>2
<1> HIDE DEF status, gotScopes, got
<1>8. /\ x.pc = "done" /\ x.in = in /\ x.id = req[r].id /\ x.locks = {}
      /\ x.got = got /\ x.gotScopes = gotScopes
  BY <1>3 DEF Request
<1>9. x \in Request
  <2> DEFINE a == [req[r] EXCEPT !.pc = "done"]
             b == [a EXCEPT !.status = status]
             c == [b EXCEPT !.gotScopes = gotScopes]
             d == [c EXCEPT !.got = got]
  <2>1. x = d
    BY <1>3 DEF Request
  <2>2. a \in Request
    BY <1>3, SetPc
  <2> HIDE DEF a
  <2>3. b \in Request
    <3>1. status \in {0, 200, 400, 401, 404, 500}
      BY <1>5
    <3> QED
      BY <2>2, <3>1 DEF Request
  <2> HIDE DEF b
  <2>4. c \in Request
    BY <1>6, <2>3, SetGotScopes
  <2> HIDE DEF c
  <2>5. d \in Request
    BY <1>5, <2>4, SetGot
  <2> QED
    BY <2>1, <2>5
<1> HIDE DEF x
<1>10. Control(x)
  BY <1>8 DEF Control, Writing
<1>11. ReadOK(x)
  <2> SUFFICES ASSUME NEW k \in KwIds, got[k] # NoKeyword
      PROVE  /\ k \in usedKws /\ got[k].org = in.org
             /\ kws[k] = NoKeyword
                  \/ (kws[k].org = in.org /\ kws[k].ver >= got[k].ver)
             /\ IF gotScopes[k] = {} THEN kws[k] = NoKeyword
                ELSE \E y \in gotScopes[k] : gotScopes[k] = {y} /\ y.ver >= got[k].ver
    BY <1>8 DEF ReadOK
  <2>1. /\ k \in usedKws /\ got[k].org = in.org
        /\ kws[k] = NoKeyword
             \/ (kws[k].org = in.org /\ kws[k].ver >= got[k].ver)
    BY <1>3, <1>7 DEF ReadOK
  <2>2. gotScopes[k] = found(k)
    BY <1>7
  <2>3. CASE kws[k] = NoKeyword
    <3>1. scopes[k] = {}
      BY <2>3 DEF IInv, RuleWhole
    <3>2. gotScopes[k] = {}
      BY <2>2, <3>1
    <3> QED
      BY <2>1, <2>3, <3>2
  <2>4. CASE kws[k].org = in.org /\ kws[k].ver >= got[k].ver
    <3> DEFINE y == [org |-> kws[k].org, ver |-> kws[k].ver]
    <3>1. scopes[k] = {y}
      BY <1>3, <2>4, RowThere
    <3>2. y.org = in.org /\ y.ver >= got[k].ver
      BY <2>4
    <3> HIDE DEF y
    <3>3. gotScopes[k] = {y}
      BY <2>2, <3>1, <3>2
    <3> QED
      BY <2>1, <3>2, <3>3
  <2> QED
    BY <2>1, <2>3, <2>4
<1>12. \A k \in KwIds : x.got[k] = NoKeyword \/ x.got[k] = req[r].got[k]
  BY <1>7, <1>8
<1>13. x.pc \notin Steps
  BY <1>8 DEF Steps
<1> QED
  BY <1>1, <1>2, <1>3, <1>4, <1>8, <1>9, <1>10, <1>11, <1>12, <1>13, MoveStep

-----------------------------------------------------------------------------
(* Categories: no request relies on one that is there, only on whose its id *)
(* was.                                                                     *)
LEMMA CategoryStep ==
  ASSUME IInv, NEW r \in Requests, NEW x \in Request, Become(r, x),
         x.locks = {}, x.got = NothingRead,
         x.pc = "done" \/ (x.pc = "catGet" /\ x.id \in CatIds),
         x.pc = "catGet" => /\ x.in \in Inputs /\ x.in.bad = "none"
                            /\ x.in.org \in Orgs /\ x.status = 0,
         UNCHANGED <<kws, scopes, usedKws, bounds>>,
         cats' \in [CatIds -> Category],
         catOrg' \in [CatIds -> Orgs \cup {NoOrg}],
         \A c \in CatIds : catOrg[c] # NoOrg => catOrg'[c] = catOrg[c],
         \A c \in CatIds : IF cats'[c].org = NoOrg THEN cats'[c] = NoCategory
                           ELSE catOrg'[c] = cats'[c].org
  PROVE  IInv'
<1>1. /\ req' \in [Requests -> Request] /\ req'[r] = x
      /\ \A q \in Requests : q # r => req'[q] = req[q]
  BY BecomeFacts DEF IInv
<1>2. TypeOK'
  BY <1>1, KeepBounds DEF IInv, TypeOK
<1>3. RuleWhole'
  BY DEF IInv, RuleWhole
<1>4. Tables'
  <2>1. \A k \in KwIds : kws[k] = NoKeyword \/ (k \in usedKws /\ RowOK(kws[k])')
    <3> TAKE k \in KwIds
    <3>1. kws[k] = NoKeyword \/ (k \in usedKws /\ RowOK(kws[k]))
      BY DEF IInv, Tables
    <3>2. RowOK(kws[k]) => RowOK(kws[k])'
      BY RulesAssumption DEF RowOK
    <3> QED
      BY <3>1, <3>2
  <2>2. \A k \in KwIds : (kws[k] = NoKeyword \/ (k \in usedKws /\ RowOK(kws[k])))'
    BY <2>1
  <2> QED
    BY <2>2 DEF Tables
<1>5. RequestOK(req[r])'
  <2>1. Control(req[r])'
    BY <1>1 DEF Control, Writing
  <2>2. x.pc \in Steps => x.pc = "catGet"
    BY DEF Steps
  <2> QED
    BY <1>1, <2>1, <2>2, PlainOK
<1>6. ASSUME NEW q \in Requests, q # r
      PROVE  RequestOK(req[q])' /\ Apart(x, req[q]) /\ Apart(req[q], x)
  <2>1. req[q] \in Request /\ RequestOK(req[q])
    BY DEF IInv, TypeOK
  <2>2. RequestOK(req[q])'
    BY <1>1, <1>6, KeepRequest
  <2> QED
    BY <2>1, <2>2, IdleApart
<1> QED
  BY <1>2, <1>3, <1>4, <1>5, <1>6, TableStep

LEMMA CategoriesOK ==
  ASSUME IInv, NEW r \in Requests,
         CreateCategory(r) \/ UpdateCategory(r) \/ DeleteCategory(r)
  PROVE  IInv'
<1> DEFINE in == req[r].in
<1>1. req[r].pc = "catWrite" /\ UNCHANGED <<kws, scopes, usedKws, bounds>>
  BY DEF CreateCategory, UpdateCategory, DeleteCategory
<1>2. req[r].pc \in Steps /\ "catGet" \in Steps
  BY <1>1 DEF Steps
<1>3. /\ req[r] \in Request /\ req[r].got = NothingRead /\ req[r].status = 0
      /\ req[r].locks = {} /\ in \in Inputs /\ in \in Input /\ in.bad = "none"
      /\ in.org \in Orgs /\ in.org # NoOrg
      /\ in.kind = "catCreate" \/ req[r].id \in CatIds
  BY <1>1, <1>2, Facts DEF Control, Writing
<1>4. /\ cats \in [CatIds -> Category] /\ catOrg \in [CatIds -> Orgs \cup {NoOrg}]
      /\ \A c \in CatIds : IF cats[c].org = NoOrg THEN cats[c] = NoCategory
                           ELSE catOrg[c] = cats[c].org
  BY DEF IInv, TypeOK, Tables
<1>5. ASSUME NEW status \in {200, 400, 401, 404, 500}, Answer(r, status),
             UNCHANGED catOrg, cats' \in [CatIds -> Category],
             \A c \in CatIds : cats'[c] \in {cats[c], NoCategory}
      PROVE  IInv'
  <2> DEFINE x == Answered(req[r], status)
  <2>1. x \in Request /\ x.locks = {} /\ x.got = NothingRead /\ x.pc = "done"
    BY <1>3, AnsweredOK
  <2>2. Become(r, x)
    BY <1>5 DEF Answer
  <2> HIDE DEF x
  <2>3. \A c \in CatIds : IF cats'[c].org = NoOrg THEN cats'[c] = NoCategory
                          ELSE catOrg'[c] = cats'[c].org
    BY <1>4, <1>5 DEF NoCategory
  <2> QED
    BY <1>1, <1>4, <1>5, <2>1, <2>2, <2>3, CategoryStep
<1>6. ASSUME NEW c \in CatIds, catOrg[c] = NoOrg,
             catOrg' = [catOrg EXCEPT ![c] = in.org],
             cats' = [cats EXCEPT ![c] = [org |-> in.org,
                        content |-> in.content, enabled |-> TRUE]],
             Become(r, [req[r] EXCEPT !.pc = "catGet", !.id = c]),
             in.kind = "catCreate"
      PROVE  IInv'
  <2> DEFINE x == [req[r] EXCEPT !.pc = "catGet", !.id = c]
             row == [org |-> in.org, content |-> in.content, enabled |-> TRUE]
  <2>1. row \in Category /\ row.org = in.org
    <3>1. in.content \in Contents
      BY <1>3, <1>6, RulesAssumption
    <3> QED
      BY <1>3, <3>1 DEF Category
  <2>2. Become(r, x) /\ cats' = [cats EXCEPT ![c] = row]
    BY <1>6
  <2> HIDE DEF row
  <2>3. /\ x.pc = "catGet" /\ x.id = c /\ x.in = in /\ x.locks = {}
        /\ x.got = NothingRead /\ x.status = 0
    BY <1>3 DEF Request
  <2>4. x \in Request
    <3> DEFINE a == [req[r] EXCEPT !.pc = "catGet"]
               b == [a EXCEPT !.id = c]
    <3>1. x = b
      BY <1>3 DEF Request
    <3>2. a \in Request
      BY <1>2, <1>3, SetPc
    <3> HIDE DEF a
    <3>3. b \in Request
      <4>1. c \in CatIds \cup KwIds \cup {NoId}
        OBVIOUS
      <4> QED
        BY <3>2, <4>1, SetId
    <3> QED
      BY <3>1, <3>3
  <2> HIDE DEF x
  <2>5. /\ cats' \in [CatIds -> Category] /\ catOrg' \in [CatIds -> Orgs \cup {NoOrg}]
        /\ cats'[c] = row /\ catOrg'[c] = in.org
        /\ \A d \in CatIds : d # c => cats'[d] = cats[d] /\ catOrg'[d] = catOrg[d]
    BY <1>3, <1>4, <1>6, <2>1, <2>2
  <2>6. \A d \in CatIds : catOrg[d] # NoOrg => catOrg'[d] = catOrg[d]
    BY <1>6, <2>5
  <2>7. \A d \in CatIds : IF cats'[d].org = NoOrg THEN cats'[d] = NoCategory
                          ELSE catOrg'[d] = cats'[d].org
    BY <1>3, <1>4, <2>1, <2>5
  <2> QED
    BY <1>1, <1>3, <2>2, <2>3, <2>4, <2>5, <2>6, <2>7, CategoryStep
<1>7. ASSUME in.kind \in {"catUpdate", "catPatch"},
             cats[req[r].id].org = in.org, UNCHANGED catOrg,
             cats' = [cats EXCEPT ![req[r].id] = CategoryAfter(in, cats[req[r].id])],
             Goto(r, "catGet")
      PROVE  IInv'
  <2> DEFINE c == req[r].id
             row == CategoryAfter(in, cats[c])
             x == [req[r] EXCEPT !.pc = "catGet"]
  <2>1. c \in CatIds
    BY <1>3, <1>7
  <2>2. row \in Category /\ row.org = in.org
    <3>1. cats[c] \in Category /\ in.enabled \in BOOLEAN
      BY <1>3, <1>4, <2>1 DEF Input
    <3>2. CASE in.kind = "catPatch"
      BY <1>7, <3>1, <3>2 DEF CategoryAfter, Category
    <3>3. CASE in.kind = "catUpdate"
      <4>1. in.content \in Contents
        BY <1>3, <3>3, RulesAssumption
      <4> QED
        BY <1>7, <3>1, <3>3, <4>1 DEF CategoryAfter, Category
    <3> QED
      BY <1>7, <3>2, <3>3
  <2>3. Become(r, x) /\ cats' = [cats EXCEPT ![c] = row]
    BY <1>7 DEF Goto
  <2> HIDE DEF row
  <2>4. /\ x.pc = "catGet" /\ x.id = c /\ x.in = in /\ x.locks = {}
        /\ x.got = NothingRead /\ x.status = 0
    BY <1>3 DEF Request
  <2>5. x \in Request
    BY <1>2, <1>3, SetPc
  <2> HIDE DEF x
  <2>6. /\ cats' \in [CatIds -> Category] /\ cats'[c] = row
        /\ \A d \in CatIds : d # c => cats'[d] = cats[d]
    BY <1>4, <2>1, <2>2, <2>3
  <2>7. \A d \in CatIds : IF cats'[d].org = NoOrg THEN cats'[d] = NoCategory
                          ELSE catOrg'[d] = cats'[d].org
    BY <1>3, <1>4, <1>7, <2>1, <2>2, <2>6
  <2> QED
    BY <1>1, <1>3, <1>4, <1>7, <2>1, <2>3, <2>4, <2>5, <2>6, <2>7, CategoryStep
<1>8. CASE CreateCategory(r)
  <2>1. CASE Answer(r, 500) /\ UNCHANGED <<cats, catOrg>>
    BY <1>4, <1>5, <2>1
  <2> QED
    BY <1>6, <1>8, <2>1 DEF CreateCategory
<1>9. CASE UpdateCategory(r)
  <2>1. UNCHANGED catOrg /\ in.kind \in {"catUpdate", "catPatch"}
    BY <1>9 DEF UpdateCategory
  <2>2. CASE Answer(r, 404) /\ UNCHANGED cats
    BY <1>4, <1>5, <2>1, <2>2
  <2> QED
    BY <1>7, <1>9, <2>1, <2>2 DEF UpdateCategory
<1>10. CASE DeleteCategory(r)
  <2>1. UNCHANGED catOrg
    BY <1>10 DEF DeleteCategory
  <2>2. CASE Answer(r, 404) /\ UNCHANGED cats
    BY <1>4, <1>5, <2>1, <2>2
  <2>3. CASE Answer(r, 200) /\ cats' = [cats EXCEPT ![req[r].id] = NoCategory]
    <3>1. /\ cats' \in [CatIds -> Category]
          /\ \A c \in CatIds : cats'[c] \in {cats[c], NoCategory}
      BY <1>4, <2>3, BlankTypes
    <3> QED
      BY <1>5, <2>1, <2>3, <3>1
  <2> QED
    BY <1>10, <2>2, <2>3 DEF DeleteCategory
<1> QED
  BY <1>8, <1>9, <1>10

-----------------------------------------------------------------------------
(* Failures. *)
LEMMA FailuresOK ==
  ASSUME IInv, NEW r \in Requests, Fail(r) \/ GiveUp(r)
  PROVE  IInv'
<1>1. Answer(r, 500) /\ UNCHANGED tables
  BY DEF Fail, GiveUp
<1>2. sends' \in 0..MaxSends /\ faults' \in 0..MaxFaults /\ crashes' \in 0..MaxCrashes
  <2>1. CASE UNCHANGED bounds
    BY <2>1, KeepBounds
  <2>2. CASE faults < MaxFaults /\ faults' = faults + 1 /\ UNCHANGED <<sends, crashes>>
    BY <2>2, RulesAssumption DEF IInv, TypeOK
  <2> QED
    BY <2>1, <2>2 DEF Fail, GiveUp
<1> QED
  BY <1>1, <1>2, AnswerStep

LEMMA CrashStep ==
  ASSUME IInv, Crash
  PROVE  IInv'
<1>1. /\ req' = [r \in Requests |-> NoRequest] /\ UNCHANGED tables
      /\ crashes < MaxCrashes /\ crashes' = crashes + 1 /\ UNCHANGED <<sends, faults>>
  BY DEF Crash
<1>2. TypeOK'
  BY <1>1, BlankTypes, RulesAssumption DEF IInv, TypeOK, tables
<1>3. Tables' /\ RuleWhole'
  BY <1>1 DEF IInv, Tables, RuleWhole, RowOK, tables
<1>4. NoRequest.locks = {} /\ NoRequest.got = NothingRead /\ NoRequest.pc = "idle"
  BY DEF NoRequest, NewRequest
<1>5. ASSUME NEW q \in Requests PROVE RequestOK(req[q])'
  <2>1. req'[q] = NoRequest
    BY <1>1
  <2>2. Control(req[q])'
    BY <1>4, <2>1 DEF Control, Writing
  <2>3. req'[q].pc \notin Steps
    BY <1>4, <2>1 DEF Steps
  <2> QED
    BY <1>4, <2>1, <2>2, <2>3, PlainOK
<1>6. ASSUME NEW p \in Requests, NEW q \in Requests PROVE Apart(req[p], req[q])'
  <2>1. req'[p] = NoRequest /\ req'[q] = NoRequest
    BY <1>1
  <2> QED
    BY <1>4, <2>1 DEF Apart
<1> QED
  BY <1>2, <1>3, <1>5, <1>6 DEF IInv

LEMMA NextStep == IInv /\ [Next]_vars => IInv'
<1> SUFFICES ASSUME IInv, [Next]_vars PROVE IInv'
  OBVIOUS
<1>1. CASE UNCHANGED vars
  BY <1>1 DEF vars, IInv, TypeOK, Tables, RuleWhole, RequestOK, Control, Locked,
              ReadOK, Checked, Prepared, RowOK, Apart
<1>2. ASSUME NEW r \in Requests, NEW in \in Inputs, Handle(r, in) PROVE IInv'
  BY <1>2, HandleStep
<1>3. ASSUME NEW r \in Requests, WriteKeyword(r) PROVE IInv'
  BY <1>3, EnsureStep, InsertStep, UpdateStep, DeleteScopesStep, CreateScopesStep,
     DeleteKeywordStep, CommitsOK, PatchStep DEF WriteKeyword
<1>4. ASSUME NEW r \in Requests, ReadKeywords(r) PROVE IInv'
  BY <1>4, ReadSteps, ScopesStep DEF ReadKeywords
<1>5. ASSUME NEW r \in Requests, ServeCategory(r) PROVE IInv'
  BY <1>5, ReadSteps, CategoriesOK DEF ServeCategory
<1>6. ASSUME NEW r \in Requests, GiveUp(r) \/ Fail(r) \/ LoseCommit(r) PROVE IInv'
  BY <1>6, FailuresOK, CommitsOK
<1>7. CASE Crash
  BY <1>7, CrashStep
<1> QED
  BY <1>1, <1>2, <1>3, <1>4, <1>5, <1>6, <1>7 DEF Next, Serve

-----------------------------------------------------------------------------
(* The invariant holds in every state that requests, failures and restarts  *)
(* can reach.                                                               *)
THEOREM Invariance == Spec => []IInv
<1>1. Init => IInv
  BY InitOK
<1>2. IInv /\ [Next]_vars => IInv'
  BY NextStep
<1> QED
  BY <1>1, <1>2, PTL DEF Spec

(* Tables and requests keep their types. *)
THEOREM TypeCorrect == Spec => []TypeOK
<1>1. IInv => TypeOK
  BY DEF IInv
<1> QED
  BY <1>1, Invariance, PTL

(* A keyword and its scope rows are there together and come from the same   *)
(* write, for any number of overlapping Create, Update and Delete requests  *)
(* and wherever they fail, are chosen as deadlock victims or die.           *)
THEOREM RuleWholeHolds == Spec => []RuleWhole
<1>1. IInv => RuleWhole
  BY DEF IInv
<1> QED
  BY <1>1, Invariance, PTL

(* A rule that is returned or copied into a task is of the organisation     *)
(* that asked, with the scopes of the row's version or of a later one, or   *)
(* with none when it was deleted between the two reads, although the reads  *)
(* share no transaction.                                                    *)
THEOREM RuleReadWholeHolds == Spec => []RuleReadWhole
<1>1. IInv => RuleReadWhole
  <2> SUFFICES ASSUME IInv, NEW r \in Requests, req[r].status = 200, NEW k \in Read(r)
      PROVE  /\ req[r].got[k].org = req[r].in.org
             /\ IF req[r].gotScopes[k] = {} THEN kws[k] = NoKeyword
                ELSE \E x \in req[r].gotScopes[k] :
                       req[r].gotScopes[k] = {x} /\ x.ver >= req[r].got[k].ver
    BY DEF RuleReadWhole
  <2>1. k \in KwIds /\ req[r].got[k] # NoKeyword
    BY DEF Read
  <2>2. ReadOK(req[r])
    BY DEF IInv, RequestOK
  <2> QED
    BY <2>1, <2>2 DEF ReadOK
<1> QED
  BY <1>1, Invariance, PTL

(* A keyword is only ever in a category that was created in its own         *)
(* organisation.                                                            *)
THEOREM CategoryWasRealHolds == Spec => []CategoryWasReal
<1>1. IInv => CategoryWasReal
  BY DEF IInv, Tables, RowOK, CategoryWasReal
<1> QED
  BY <1>1, Invariance, PTL

-----------------------------------------------------------------------------
(* Who changes rows. *)
LEMMA WritesTables ==
  ASSUME Next
  PROVE  \/ UNCHANGED <<kws, cats>>
         \/ \E r \in Requests :
              \/ (Commit(r) \/ LoseCommit(r) \/ PatchEnabled(r)) /\ UNCHANGED cats
              \/ /\ CreateCategory(r) \/ UpdateCategory(r) \/ DeleteCategory(r)
                 /\ UNCHANGED kws
<1>1. ASSUME NEW r \in Requests, NEW in \in Inputs, Handle(r, in)
      PROVE  UNCHANGED <<kws, cats>>
  BY <1>1 DEF Handle, tables
<1>2. ASSUME NEW r \in Requests, ReadKeywords(r) \/ GiveUp(r) \/ Fail(r)
      PROVE  UNCHANGED <<kws, cats>>
  BY <1>2 DEF ReadKeywords, getKeyword, CountKeywords, ListKeywords, ListByIDs,
              listScopes, GiveUp, Fail, tables
<1>3. ASSUME NEW r \in Requests,
             \/ ensureKeywordCategoryExists(r) \/ InsertKeyword(r) \/ UpdateKeyword(r)
             \/ DeleteScopes(r) \/ CreateScopes(r) \/ DeleteKeyword(r)
      PROVE  UNCHANGED <<kws, cats>>
  BY <1>3 DEF ensureKeywordCategoryExists, InsertKeyword, UpdateKeyword,
              DeleteScopes, CreateScopes, DeleteKeyword, tables
<1>4. ASSUME NEW r \in Requests, Commit(r) \/ LoseCommit(r) \/ PatchEnabled(r)
      PROVE  UNCHANGED cats
  BY <1>4 DEF Commit, LoseCommit, PatchEnabled
<1>5. ASSUME NEW r \in Requests,
             CreateCategory(r) \/ UpdateCategory(r) \/ DeleteCategory(r)
      PROVE  UNCHANGED kws
  BY <1>5 DEF CreateCategory, UpdateCategory, DeleteCategory
<1>6. ASSUME NEW r \in Requests,
             GetCategory(r) \/ CountCategories(r) \/ ListCategories(r)
      PROVE  UNCHANGED <<kws, cats>>
  BY <1>6 DEF GetCategory, CountCategories, ListCategories, tables
<1>7. CASE Crash
  BY <1>7 DEF Crash, tables
<1>8. ASSUME NEW r \in Requests, WriteKeyword(r) \/ ServeCategory(r)
      PROVE  \/ UNCHANGED <<kws, cats>>
             \/ (Commit(r) \/ PatchEnabled(r)) /\ UNCHANGED cats
             \/ /\ CreateCategory(r) \/ UpdateCategory(r) \/ DeleteCategory(r)
                /\ UNCHANGED kws
  BY <1>3, <1>4, <1>5, <1>6, <1>8 DEF WriteKeyword, ServeCategory
<1> QED
  BY <1>1, <1>2, <1>4, <1>7, <1>8 DEF Next, Serve

LEMMA OwnKeywords ==
  ASSUME IInv, Next, NEW k \in KwIds, kws[k] # NoKeyword, kws'[k] # kws[k]
  PROVE  /\ kws'[k].org \in {kws[k].org, NoOrg}
         /\ \E r \in Requests : /\ req'[r] # req[r] /\ req[r].pc \in Steps
                                /\ req[r].in.org = kws[k].org
<1>1. PICK r \in Requests : Commit(r) \/ LoseCommit(r) \/ PatchEnabled(r)
  BY WritesTables
<1>2. req \in [Requests -> Request] /\ kws \in [KwIds -> Keyword]
  BY DEF IInv, TypeOK
<1>3. CASE Commit(r) \/ LoseCommit(r)
  <2>1. req[r].pc = "commit" /\ Committed(r)
    BY <1>3 DEF Commit, LoseCommit
  <2>2. req[r].pc \in Steps
    BY <2>1 DEF Steps
  <2>3. k = req[r].id /\ kws'[k] = req[r].row
    BY <1>2, <2>1 DEF Committed
  <2>4. /\ "row" \in req[r].locks /\ Locked(req[r])
        /\ req[r].in.kind \in {"create", "update", "delete"}
        /\ IF req[r].in.kind = "delete" THEN req[r].row = NoKeyword
           ELSE req[r].row.org = req[r].in.org
    BY <2>1, <2>2, Facts DEF Control, Prepared
  <2>5. kws[k].org = req[r].in.org
    BY <2>3, <2>4 DEF Locked
  <2>6. req'[r].pc \in {"done", "get"}
    <3>1. \/ \E s : req' = [req EXCEPT ![r] = Answered(req[r], s)]
          \/ req' = [req EXCEPT ![r] =
               [req[r] EXCEPT !.pc = "get", !.wrote = req[r].row.ver,
                       !.locks = {}, !.row = NoKeyword, !.sc = {}]]
      BY <1>3 DEF Commit, LoseCommit, Answer, Become
    <3>2. \A s : Answered(req[r], s).pc = "done"
      BY DEF Answered, NewRequest
    <3>3. req[r] \in Request
      BY <1>2
    <3>4. [req[r] EXCEPT !.pc = "get", !.wrote = req[r].row.ver,
                  !.locks = {}, !.row = NoKeyword, !.sc = {}].pc = "get"
      BY <3>3 DEF Request
    <3>5. \E y : req' = [req EXCEPT ![r] = y] /\ y.pc \in {"done", "get"}
      BY <3>1, <3>2, <3>4
    <3> QED
      BY <1>2, <3>5
  <2> QED
    BY <2>1, <2>2, <2>3, <2>4, <2>5, <2>6 DEF NoKeyword
<1>4. CASE PatchEnabled(r)
  <2>1. /\ req[r].pc = "patch" /\ req[r].id = k /\ kws[k].org = req[r].in.org
        /\ kws'[k] = [kws[k] EXCEPT !.enabled = req[r].in.enabled]
        /\ req' = [req EXCEPT ![r] = [req[r] EXCEPT !.pc = "get", !.wrote = kws[k].ver]]
    BY <1>2, <1>4 DEF PatchEnabled, Become
  <2>2. req[r].pc \in Steps
    BY <2>1 DEF Steps
  <2>3. req[r] \in Request /\ kws[k] \in Keyword
    BY <1>2
  <2>4. req'[r].pc = "get"
    BY <1>2, <2>1, <2>3 DEF Request
  <2>5. kws'[k].org = kws[k].org
    BY <2>1, <2>3 DEF Keyword
  <2> QED
    BY <2>1, <2>2, <2>4, <2>5
<1> QED
  BY <1>1, <1>3, <1>4

LEMMA OwnCategories ==
  ASSUME IInv, Next, NEW c \in CatIds, cats[c] # NoCategory, cats'[c] # cats[c]
  PROVE  /\ cats'[c].org \in {cats[c].org, NoOrg}
         /\ \E r \in Requests : /\ req'[r] # req[r] /\ req[r].pc \in Steps
                                /\ req[r].in.org = cats[c].org
<1>1. PICK r \in Requests : CreateCategory(r) \/ UpdateCategory(r) \/ DeleteCategory(r)
  BY WritesTables
<1>2. /\ req \in [Requests -> Request] /\ cats \in [CatIds -> Category]
      /\ req[r] \in Request
  BY DEF IInv, TypeOK
<1>3. req[r].pc = "catWrite" /\ req[r].pc \in Steps
  BY <1>1 DEF CreateCategory, UpdateCategory, DeleteCategory, Steps
<1>4. cats[c].org # NoOrg /\ catOrg[c] # NoOrg
  BY DEF IInv, Tables
<1>5. ~CreateCategory(r)
  <2> SUFFICES ASSUME CreateCategory(r) PROVE cats'[c] = cats[c]
    OBVIOUS
  <2>1. \/ UNCHANGED cats
        \/ \E d \in CatIds : catOrg[d] = NoOrg /\ \E v : cats' = [cats EXCEPT ![d] = v]
    BY DEF CreateCategory
  <2> QED
    BY <1>2, <1>4, <2>1
<1>6. CASE UpdateCategory(r)
  <2>1. /\ req[r].id = c /\ cats[c].org = req[r].in.org
        /\ cats'[c] = CategoryAfter(req[r].in, cats[c])
        /\ req' = [req EXCEPT ![r] = [req[r] EXCEPT !.pc = "catGet"]]
    BY <1>2, <1>6 DEF UpdateCategory, Goto, Become
  <2>2. cats'[c].org = cats[c].org
    BY <1>2, <2>1 DEF CategoryAfter, Category
  <2>3. req'[r].pc = "catGet"
    BY <1>2, <2>1 DEF Request
  <2> QED
    BY <1>3, <2>1, <2>2, <2>3
<1>7. CASE DeleteCategory(r)
  <2>1. /\ req[r].id = c /\ cats[c].org = req[r].in.org /\ cats'[c] = NoCategory
        /\ req' = [req EXCEPT ![r] = Answered(req[r], 200)]
    BY <1>2, <1>7 DEF DeleteCategory, CategoryFound, Answer, Become
  <2>2. req'[r].pc = "done"
    <3>1. Answered(req[r], 200).pc = "done"
      BY DEF Answered, NewRequest
    <3> QED
      BY <1>2, <2>1, <3>1
  <2> QED
    BY <1>3, <2>1, <2>2 DEF NoCategory
<1> QED
  BY <1>1, <1>5, <1>6, <1>7

(* Rows of an organisation are changed and removed only by a step of a      *)
(* request with a session of that organisation, and never change hands.     *)
THEOREM OwnOrgOnlyHolds == Spec => OwnOrgOnly
<1>1. IInv /\ [Next]_vars =>
     [/\ \A k \in KwIds : kws[k] # NoKeyword /\ kws'[k] # kws[k] =>
          /\ kws'[k].org \in {kws[k].org, NoOrg}
          /\ \E r \in Requests : /\ req'[r] # req[r] /\ req[r].pc \in Steps
                                 /\ req[r].in.org = kws[k].org
      /\ \A c \in CatIds : cats[c] # NoCategory /\ cats'[c] # cats[c] =>
          /\ cats'[c].org \in {cats[c].org, NoOrg}
          /\ \E r \in Requests : /\ req'[r] # req[r] /\ req[r].pc \in Steps
                                 /\ req[r].in.org = cats[c].org]_vars
  BY OwnKeywords, OwnCategories
<1> QED
  BY <1>1, Invariance, PTL DEF Spec, OwnOrgOnly

-----------------------------------------------------------------------------
(* Strengthening for the answers: a request has a version on record from    *)
(* its commit on, and until it reads the rule back that rule is there in    *)
(* this version or a later one, or was deleted.                             *)
Reporting == {"create", "update", "patch"}
SaidOK(q) ==
  /\ q.status = 200 /\ q.in.kind \in Reporting =>
       q.wrote > 0 /\ q.got[q.id].ver >= q.wrote
  /\ q.status \in {400, 401} => q.wrote = 0
Said(q, rows, used) ==
  /\ q.pc \notin {"get", "getScopes", "done"} => q.wrote = 0
  /\ q.pc \in {"catWrite", "catGet", "catItems", "catCount"} => q.in.kind \notin Reporting
  /\ q.pc \in {"get", "getScopes"} =>
       IF q.in.kind \in Reporting THEN q.wrote > 0 ELSE q.wrote = 0
  /\ q.pc = "get" /\ q.in.kind \in Reporting =>
       /\ q.id \in used
       /\ rows[q.id] = NoKeyword \/ rows[q.id].ver >= q.wrote
  /\ q.pc = "getScopes" /\ q.in.kind \in Reporting => q.got[q.id].ver >= q.wrote
  /\ q.pc = "done" => SaidOK(q)

(* The keyword p is creating is not one that q has written. *)
Fresh(p, q) ==
  "row" \in p.locks /\ p.in.kind = "create" /\ q.pc = "get" /\ q.wrote > 0
    => p.id # q.id

AnswerInv ==
  /\ \A r \in Requests : Said(req[r], kws, usedKws)
  /\ \A p, q \in Requests : p # q => Fresh(req[p], req[q])

LEMMA SaidStep ==
  ASSUME IInv, AnswerInv, NEW r \in Requests, NEW x, Become(r, x),
         \A q \in Requests : q # r => Said(req[q], kws', usedKws'),
         Said(x, kws', usedKws'),
         \A q \in Requests : q # r => Fresh(x, req[q]) /\ Fresh(req[q], x)
  PROVE  AnswerInv'
<1>1. req'[r] = x /\ \A q \in Requests : q # r => req'[q] = req[q]
  BY DEF Become, IInv, TypeOK
<1>2. \A q \in Requests : Said(req'[q], kws', usedKws')
  BY <1>1
<1>3. \A p, q \in Requests : p # q => Fresh(req'[p], req'[q])
  BY <1>1 DEF AnswerInv
<1> QED
  BY <1>2, <1>3 DEF AnswerInv

(* The others, when r leaves the keyword rows alone. *)
LEMMA OthersSaid ==
  ASSUME AnswerInv, UNCHANGED kws, usedKws \subseteq usedKws'
  PROVE  \A q \in Requests : Said(req[q], kws', usedKws')
  BY DEF AnswerInv, Said

(* An answer without data. *)
LEMMA AnswerSaid ==
  ASSUME IInv, AnswerInv, NEW r \in Requests, NEW s, Answer(r, s),
         \A q \in Requests : q # r => Said(req[q], kws', usedKws'),
         s = 200 => req[r].in.kind \notin Reporting,
         s \in {400, 401} => req[r].wrote = 0
  PROVE  AnswerInv'
<1> DEFINE x == Answered(req[r], s)
<1>1. Become(r, x)
  BY DEF Answer
<1>2. /\ x.pc = "done" /\ x.in = req[r].in /\ x.wrote = req[r].wrote
      /\ x.status = s /\ x.locks = {}
  BY DEF Answered, NewRequest
<1> HIDE DEF x
<1>3. Said(x, kws', usedKws')
  BY <1>2 DEF Said, SaidOK
<1>4. \A q \in Requests : Fresh(x, req[q]) /\ Fresh(req[q], x)
  BY <1>2 DEF Fresh
<1> QED
  BY <1>1, <1>3, <1>4, SaidStep

(* A step of a request that has committed nothing yet. *)
LEMMA WorkSaid ==
  ASSUME IInv, AnswerInv, NEW r \in Requests, NEW x, Become(r, x),
         UNCHANGED kws, usedKws \subseteq usedKws',
         x.wrote = 0, x.pc \notin {"get", "done"},
         x.pc \in {"catWrite", "catGet", "catItems", "catCount", "getScopes"}
           => x.in.kind \notin Reporting,
         \A q \in Requests : q # r => Fresh(x, req[q])
  PROVE  AnswerInv'
<1>1. Said(x, kws', usedKws')
  BY DEF Said
<1>2. \A q \in Requests : Fresh(req[q], x)
  BY DEF Fresh
<1> QED
  BY <1>1, <1>2, OthersSaid, SaidStep

LEMMA HandleSaid ==
  ASSUME IInv, AnswerInv, NEW r \in Requests, NEW in \in Inputs, Handle(r, in)
  PROVE  AnswerInv'
<1>1. UNCHANGED <<kws, usedKws>>
  BY DEF Handle, tables
<1>2. PICK pc, status :
        /\ Become(r, NewRequest(pc, in, status))
        /\ pc = FirstStep(in.kind) \/ (pc = "done" /\ status \in {400, 401})
  <2>1. in.bad \in {"none", "param", "body"}
    BY RulesAssumption DEF Input
  <2> QED
    BY <2>1 DEF Handle
<1> DEFINE x == NewRequest(pc, in, status)
<1>3. x.pc = pc /\ x.in = in /\ x.wrote = 0 /\ x.status = status /\ x.locks = {}
  BY DEF NewRequest
<1>4. in.kind \in Kinds
  BY RulesAssumption DEF Input
<1>5. /\ FirstStep(in.kind) \in {"get", "catWrite", "catGet", "catItems", "catCount",
                                 "getScopes"} => in.kind \notin Reporting
      /\ FirstStep(in.kind) \notin {"done", "getScopes"}
  BY <1>4 DEF FirstStep, Reporting, Kinds, KeywordKinds, CategoryKinds
<1> HIDE DEF x
<1>6. Said(x, kws', usedKws')
  BY <1>2, <1>3, <1>5 DEF Said, SaidOK
<1>7. \A q \in Requests : Fresh(x, req[q]) /\ Fresh(req[q], x)
  BY <1>3 DEF Fresh
<1>8. Become(r, x)
  BY <1>2 DEF x
<1> QED
  BY <1>1, <1>6, <1>7, <1>8, OthersSaid, SaidStep

(* What the strengthening says of a request at work. *)
LEMMA SaidFacts ==
  ASSUME IInv, AnswerInv, NEW r \in Requests
  PROVE  /\ req[r] \in Request /\ Said(req[r], kws, usedKws)
         /\ req[r].pc \in Steps \ {"get", "getScopes"} => req[r].wrote = 0
         /\ \A q \in Requests : q # r => Fresh(req[r], req[q]) /\ Fresh(req[q], req[r])
<1>1. Said(req[r], kws, usedKws) /\ req[r] \in Request
  BY DEF AnswerInv, IInv, TypeOK
<1>2. req[r].pc \in Steps \ {"get", "getScopes"} => req[r].wrote = 0
  BY <1>1 DEF Said, Steps
<1> QED
  BY <1>1, <1>2 DEF AnswerInv

LEMMA WritesSaid ==
  ASSUME IInv, AnswerInv, NEW r \in Requests,
         \/ ensureKeywordCategoryExists(r) \/ InsertKeyword(r) \/ UpdateKeyword(r)
         \/ DeleteScopes(r) \/ CreateScopes(r) \/ DeleteKeyword(r)
  PROVE  AnswerInv'
<1>0. /\ req[r].pc \in {"check", "insert", "row", "unscope", "scopes"}
      /\ UNCHANGED kws /\ usedKws \subseteq usedKws'
  BY DEF ensureKeywordCategoryExists, InsertKeyword, UpdateKeyword, DeleteScopes,
         CreateScopes, DeleteKeyword, tables
<1>1. req[r] \in Request /\ req[r].wrote = 0 /\ Said(req[r], kws, usedKws)
  BY <1>0, SaidFacts DEF Steps
<1>2. ASSUME NEW s \in {400, 404, 500}, Answer(r, s) PROVE AnswerInv'
  BY <1>0, <1>1, <1>2, AnswerSaid, OthersSaid
(* Apart from an insert, the row and the lock on it stay the same or the    *)
(* request does not create a keyword.                                       *)
<1>3. ASSUME NEW x, Become(r, x), x.in = req[r].in, x.wrote = 0,
             x.pc \in {"insert", "row", "unscope", "scopes", "commit"},
             \/ x.in.kind # "create"
             \/ x.id = req[r].id /\ ("row" \in x.locks => "row" \in req[r].locks)
      PROVE  AnswerInv'
  <2>1. \A q \in Requests : q # r => Fresh(x, req[q])
    BY <1>3, SaidFacts DEF Fresh
  <2> QED
    BY <1>0, <1>3, <2>1, WorkSaid
<1>4. CASE ensureKeywordCategoryExists(r)
  <2> DEFINE pc == IF req[r].in.kind = "create" THEN "insert" ELSE "row"
             x == [req[r] EXCEPT !.pc = pc]
  <2>1. Answer(r, 400) \/ Become(r, x)
    BY <1>4 DEF ensureKeywordCategoryExists, Goto
  <2>2. /\ x.pc \in {"insert", "row"} /\ x.in = req[r].in /\ x.wrote = 0
        /\ x.id = req[r].id /\ x.locks = req[r].locks
    BY <1>1 DEF Request
  <2> HIDE DEF x
  <2> QED
    BY <1>2, <1>3, <2>1, <2>2
<1>5. CASE InsertKeyword(r)
  <2>1. ASSUME NEW k \in KwIds \ usedKws,
               Become(r, [req[r] EXCEPT !.pc = "scopes", !.id = k,
                            !.locks = {"row"}, !.row = Created(req[r].in)])
        PROVE  AnswerInv'
    <3> DEFINE row == Created(req[r].in)
               x == [req[r] EXCEPT !.pc = "scopes", !.id = k,
                            !.locks = {"row"}, !.row = row]
    <3>1. Become(r, x)
      BY <2>1
    <3> HIDE DEF row
    <3>2. x.pc = "scopes" /\ x.wrote = 0 /\ x.id = k
      BY <1>1 DEF Request
    <3> HIDE DEF x
    <3>3. ASSUME NEW q \in Requests, req[q].pc = "get", req[q].wrote > 0 PROVE req[q].id # k
      <4>1. Said(req[q], kws, usedKws)
        BY DEF AnswerInv
      <4> QED
        BY <2>1, <3>3, <4>1 DEF Said
    <3>4. \A q \in Requests : q # r => Fresh(x, req[q])
      BY <3>2, <3>3 DEF Fresh
    <3> QED
      BY <1>0, <3>1, <3>2, <3>4, WorkSaid
  <2> QED
    BY <1>2, <1>5, <2>1 DEF InsertKeyword
<1>6. CASE UpdateKeyword(r)
  <2> DEFINE row == Updated(req[r].in, kws[req[r].id])
             x == [req[r] EXCEPT !.pc = "unscope", !.row = row, !.locks = @ \cup {"row"}]
  <2>1. (Answer(r, 404) \/ Become(r, x)) /\ req[r].in.kind = "update"
    BY <1>6 DEF UpdateKeyword
  <2> HIDE DEF row
  <2>2. x.pc = "unscope" /\ x.in = req[r].in /\ x.wrote = 0
    BY <1>1 DEF Request
  <2> HIDE DEF x
  <2> QED
    BY <1>2, <1>3, <2>1, <2>2
<1>7. CASE DeleteScopes(r)
  <2> DEFINE found == \E y \in scopes[req[r].id] : y.org = req[r].in.org
             pc == IF req[r].in.kind = "delete" THEN "row" ELSE "scopes"
             sc == Others(req[r].in, req[r].id)
             lock == IF found THEN "scopes" ELSE "gap"
             x == [req[r] EXCEPT !.pc = pc, !.sc = sc, !.locks = @ \cup {lock}]
  <2>1. Become(r, x)
    BY <1>7 DEF DeleteScopes
  <2>2. pc \in {"row", "scopes"} /\ lock # "row"
    OBVIOUS
  <2> HIDE DEF pc, sc, lock
  <2>3. /\ x.pc = pc /\ x.in = req[r].in /\ x.wrote = 0 /\ x.id = req[r].id
        /\ x.locks = req[r].locks \cup {lock}
    BY <1>1 DEF Request
  <2> HIDE DEF x
  <2> QED
    BY <1>3, <2>1, <2>2, <2>3
<1>8. CASE CreateScopes(r)
  <2> DEFINE new == ScopesFor(req[r].in, req[r].row.ver)
             x == [req[r] EXCEPT !.pc = "commit", !.locks = @ \cup {"scopes"},
                                 !.sc = @ \cup new]
  <2>1. Become(r, x)
    BY <1>8 DEF CreateScopes
  <2> HIDE DEF new
  <2>2. /\ x.pc = "commit" /\ x.in = req[r].in /\ x.wrote = 0 /\ x.id = req[r].id
        /\ x.locks = req[r].locks \cup {"scopes"}
    BY <1>1 DEF Request
  <2> HIDE DEF x
  <2> QED
    BY <1>3, <2>1, <2>2
<1>9. CASE DeleteKeyword(r)
  <2> DEFINE x == [req[r] EXCEPT !.pc = "commit", !.row = NoKeyword,
                                 !.locks = @ \cup {"row"}]
  <2>1. (Answer(r, 404) \/ Become(r, x)) /\ req[r].in.kind = "delete"
    BY <1>9 DEF DeleteKeyword
  <2>2. x.pc = "commit" /\ x.in = req[r].in /\ x.wrote = 0
    BY <1>1 DEF Request
  <2> HIDE DEF x
  <2> QED
    BY <1>2, <1>3, <2>1, <2>2
<1> QED
  BY <1>4, <1>5, <1>6, <1>7, <1>8, <1>9

(* COMMIT and the status change: versions of a rule only go up. *)
LEMMA CommitSaid ==
  ASSUME IInv, AnswerInv, NEW r \in Requests, Commit(r) \/ LoseCommit(r)
  PROVE  AnswerInv'
<1> DEFINE k == req[r].id
           row == req[r].row
<1>1. req[r].pc = "commit" /\ Committed(r) /\ UNCHANGED usedKws
  BY DEF Commit, LoseCommit
<1>2. req[r].pc \in Steps
  BY <1>1 DEF Steps
<1>3. /\ req[r] \in Request /\ k \in KwIds /\ "row" \in req[r].locks /\ Locked(req[r])
      /\ req[r].in.kind \in {"create", "update", "delete"} /\ req[r].in.org \in Orgs
      /\ req[r].in.kind = "delete" => row = NoKeyword
      /\ req[r].in.kind # "delete" => RowOK(row)
  BY <1>1, <1>2, Facts DEF Control, Prepared
<1>4. kws'[k] = row /\ \A j \in KwIds : j # k => kws'[j] = kws[j]
  BY <1>1, <1>3 DEF Committed, IInv, TypeOK
<1>5. ASSUME NEW q \in Requests, q # r PROVE Said(req[q], kws', usedKws')
  <2>1. Said(req[q], kws, usedKws) /\ Fresh(req[r], req[q]) /\ req[q] \in Request
    BY <1>5, SaidFacts
  <2>2. SUFFICES ASSUME req[q].pc = "get", req[q].in.kind \in Reporting
                 PROVE  kws'[req[q].id] = NoKeyword \/ kws'[req[q].id].ver >= req[q].wrote
    BY <1>1, <2>1 DEF Said
  <2>3. /\ req[q].wrote > 0 /\ req[q].wrote \in Nat
        /\ kws[req[q].id] = NoKeyword \/ kws[req[q].id].ver >= req[q].wrote
    BY <2>1, <2>2 DEF Said, Request
  <2>4. req[q].id \in KwIds
    <3>1. req[q].pc \in Steps
      BY <2>2 DEF Steps
    <3> QED BY <2>2, <3>1, Facts DEF Control
  <2>5. CASE req[q].id # k
    BY <1>4, <2>3, <2>4, <2>5
  <2>6. CASE req[q].id = k
    <3>1. CASE req[r].in.kind = "create"
      BY <1>3, <2>1, <2>2, <2>3, <2>6, <3>1 DEF Fresh
    <3>2. CASE req[r].in.kind = "delete"
      BY <1>3, <1>4, <2>6, <3>2
    <3>3. CASE req[r].in.kind = "update"
      <4>1. kws[k].org = req[r].in.org /\ kws[k].ver < row.ver
        BY <1>3, <3>3 DEF Locked
      <4>2. kws[k] # NoKeyword /\ kws[k].ver \in Nat /\ row.ver \in Nat
        <5>1. kws[k].org # NoOrg
          BY <1>3, <4>1, RulesAssumption
        <5> QED
          BY <1>3, <3>3, <5>1, RowThere DEF RowOK
      <4> QED
        BY <1>4, <2>3, <2>6, <4>1, <4>2
    <3> QED BY <1>3, <3>1, <3>2, <3>3
  <2> QED BY <2>5, <2>6
<1>6. ASSUME NEW s \in {200, 500}, Answer(r, s), s = 200 => req[r].in.kind = "delete"
      PROVE  AnswerInv'
  BY <1>5, <1>6, AnswerSaid DEF Reporting
<1>7. ASSUME Become(r, [req[r] EXCEPT !.pc = "get", !.wrote = req[r].row.ver,
                          !.locks = {}, !.row = NoKeyword, !.sc = {}]),
             req[r].in.kind # "delete"
      PROVE  AnswerInv'
  <2> DEFINE ver == req[r].row.ver
             x == [req[r] EXCEPT !.pc = "get", !.wrote = ver,
                                 !.locks = {}, !.row = NoKeyword, !.sc = {}]
  <2>1. Become(r, x)
    BY <1>7
  <2>2. ver \in Nat \ {0} /\ row.ver = ver /\ req[r].in.kind \in Reporting
        /\ k \in usedKws
    BY <1>3, <1>7 DEF RowOK, Reporting, Locked
  <2> HIDE DEF ver
  <2>3. /\ x.pc = "get" /\ x.wrote = ver /\ x.in = req[r].in /\ x.id = k /\ x.locks = {}
    BY <1>3 DEF Request
  <2> HIDE DEF x
  <2>4. Said(x, kws', usedKws')
    BY <1>1, <1>4, <2>2, <2>3 DEF Said
  <2>5. ASSUME NEW q \in Requests, q # r PROVE Fresh(x, req[q]) /\ Fresh(req[q], x)
    <3>1. req[q].id = k => "row" \notin req[q].locks
      BY <1>3, <2>5 DEF IInv, Apart
    <3> QED
      BY <2>3, <3>1 DEF Fresh
  <2> QED
    BY <1>5, <2>1, <2>4, <2>5, SaidStep
<1> QED
  BY <1>6, <1>7 DEF Commit, LoseCommit

LEMMA PatchSaid ==
  ASSUME IInv, AnswerInv, NEW r \in Requests, PatchEnabled(r)
  PROVE  AnswerInv'
<1> DEFINE k == req[r].id
           ver == kws[k].ver
           x == [req[r] EXCEPT !.pc = "get", !.wrote = ver]
<1>1. req[r].pc = "patch" /\ UNCHANGED usedKws
  BY DEF PatchEnabled
<1>2. req[r].pc \in Steps
  BY <1>1 DEF Steps
<1>3. /\ req[r] \in Request /\ k \in KwIds /\ req[r].in.org \in Orgs /\ req[r].in.org # NoOrg
      /\ req[r].in.kind = "patch" /\ req[r].locks = {}
  BY <1>1, <1>2, Facts DEF Control
<1>4. CASE Answer(r, 404) /\ UNCHANGED kws
  BY <1>1, <1>4, OthersSaid, AnswerSaid
<1>5. CASE /\ kws[k].org = req[r].in.org
           /\ kws' = [kws EXCEPT ![k].enabled = req[r].in.enabled]
           /\ Become(r, x)
  <2>1. k \in usedKws /\ ver \in Nat \ {0} /\ kws[k] # NoKeyword /\ kws[k] \in Keyword
    BY <1>3, <1>5, RowThere DEF RowOK
  <2>2. kws'[k].ver = ver /\ \A j \in KwIds : j # k => kws'[j] = kws[j]
    <3>1. kws'[k] = [kws[k] EXCEPT !.enabled = req[r].in.enabled]
      BY <1>3, <1>5 DEF IInv, TypeOK
    <3>2. kws'[k].ver = kws[k].ver
      BY <2>1, <3>1 DEF Keyword
    <3> QED
      BY <1>3, <1>5, <3>2 DEF IInv, TypeOK
  <2> HIDE DEF ver
  <2>3. /\ x.pc = "get" /\ x.wrote = ver /\ x.in = req[r].in /\ x.id = k /\ x.locks = {}
    BY <1>3 DEF Request
  <2>4. Become(r, x)
    BY <1>5
  <2> HIDE DEF x
  <2>5. Said(x, kws', usedKws')
    BY <1>1, <1>3, <2>1, <2>2, <2>3 DEF Said, Reporting
  <2>6. ASSUME NEW q \in Requests, q # r PROVE Said(req[q], kws', usedKws')
    <3>1. Said(req[q], kws, usedKws)
      BY <2>6, SaidFacts
    <3>2. req[q].pc = "get" => req[q].id \in KwIds
      <4>1. req[q].pc = "get" => req[q].pc \in Steps
        BY DEF Steps
      <4> QED BY <4>1, Facts DEF Control
    <3> QED
      BY <1>1, <2>1, <2>2, <3>1, <3>2 DEF Said, ver
  <2>7. ASSUME NEW q \in Requests, q # r PROVE Fresh(x, req[q]) /\ Fresh(req[q], x)
    <3>1. "row" \in req[q].locks /\ req[q].in.kind = "create" => kws[req[q].id] = NoKeyword
      BY DEF IInv, RequestOK, Locked
    <3> QED
      BY <2>1, <2>3, <3>1 DEF Fresh
  <2> QED
    BY <2>4, <2>5, <2>6, <2>7, SaidStep
<1> QED
  BY <1>4, <1>5 DEF PatchEnabled

LEMMA ReadsSaid ==
  ASSUME IInv, AnswerInv, NEW r \in Requests, ReadKeywords(r)
  PROVE  AnswerInv'
<1>0. /\ req[r].pc \in {"get", "count", "items", "getScopes"}
      /\ UNCHANGED <<kws, usedKws>>
  BY DEF ReadKeywords, getKeyword, CountKeywords, ListKeywords, ListByIDs, listScopes,
         tables
<1>1. req[r] \in Request /\ Said(req[r], kws, usedKws) /\ req[r].pc \in Steps
      /\ req[r].locks = {} /\ Control(req[r])
  <2>1. req[r].pc \in Steps
    BY <1>0 DEF Steps
  <2> QED
    BY <1>0, <2>1, SaidFacts, Facts
<1>2. \A q \in Requests : Said(req[q], kws', usedKws')
  BY <1>0, OthersSaid
<1>3. ASSUME NEW x, Become(r, x), x.locks = {}, x.pc # "get", Said(x, kws, usedKws)
      PROVE  AnswerInv'
  <2>1. \A q \in Requests : Fresh(x, req[q]) /\ Fresh(req[q], x)
    BY <1>3 DEF Fresh
  <2> QED
    BY <1>0, <1>2, <1>3, <2>1, SaidStep
<1>4. CASE getKeyword(r)
  <2> DEFINE k == req[r].id
             got == Rows({k})
             x == [req[r] EXCEPT !.pc = "getScopes", !.got = got]
  <2>1. req[r].pc = "get" /\ k \in KwIds
    BY <1>1, <1>4 DEF getKeyword, Control
  <2>2. CASE Answer(r, 404)
    BY <1>2, <2>2, AnswerSaid
  <2>3. CASE k \in keywordQuery(req[r].in.org) /\ Become(r, x)
    <3>1. got[k] = kws[k] /\ kws[k] # NoKeyword
      BY <2>1, <2>3 DEF Rows, keywordQuery, NoKeyword
    <3> HIDE DEF got
    <3>2. /\ x.pc = "getScopes" /\ x.got = got /\ x.in = req[r].in /\ x.id = k
          /\ x.wrote = req[r].wrote /\ x.locks = {}
      BY <1>1 DEF Request
    <3>3. Become(r, x)
      BY <2>3
    <3> HIDE DEF x
    <3>4. Said(x, kws, usedKws)
      BY <1>1, <2>1, <3>1, <3>2 DEF Said
    <3> QED
      BY <1>3, <3>2, <3>3, <3>4
  <2> QED
    BY <1>4, <2>2, <2>3 DEF getKeyword
<1>5. CASE CountKeywords(r)
  <2> DEFINE total == Cardinality({k \in KwIds : Matches(req[r].in, kws[k])})
             x == [req[r] EXCEPT !.pc = "items", !.total = total]
  <2>1. req[r].pc = "count" /\ Become(r, x)
    BY <1>5 DEF CountKeywords
  <2> HIDE DEF total
  <2>2. x.pc = "items" /\ x.wrote = req[r].wrote /\ x.locks = {}
    BY <1>1 DEF Request
  <2> HIDE DEF x
  <2>3. Said(x, kws, usedKws)
    BY <1>1, <2>1, <2>2 DEF Said
  <2> QED
    BY <1>3, <2>1, <2>2, <2>3
<1>6. ASSUME req[r].pc = "items", req[r].in.kind \in {"list", "task"},
             NEW ids, Become(r, [req[r] EXCEPT !.pc = "getScopes", !.got = Rows(ids)])
      PROVE  AnswerInv'
  <2> DEFINE got == Rows(ids)
             x == [req[r] EXCEPT !.pc = "getScopes", !.got = got]
  <2>1. Become(r, x)
    BY <1>6
  <2> HIDE DEF got
  <2>2. x.pc = "getScopes" /\ x.wrote = req[r].wrote /\ x.locks = {} /\ x.in = req[r].in
    BY <1>1 DEF Request
  <2> HIDE DEF x
  <2>3. Said(x, kws, usedKws)
    BY <1>1, <1>6, <2>2 DEF Said, Reporting
  <2> QED
    BY <1>3, <2>1, <2>2, <2>3
<1>7. CASE ListKeywords(r)
  <2>1. req[r].pc = "items" /\ req[r].in.kind = "list"
    BY <1>7 DEF ListKeywords
  <2>2. CASE Answer(r, 200)
    BY <1>2, <2>1, <2>2, AnswerSaid DEF Reporting
  <2> QED
    BY <1>6, <1>7, <2>1, <2>2 DEF ListKeywords
<1>8. CASE ListByIDs(r)
  BY <1>6, <1>8 DEF ListByIDs
<1>9. CASE listScopes(r)
  <2> DEFINE in == req[r].in
             found(k) == {y \in scopes[k] : y.org = in.org}
             short == in.kind = "task" /\ Read(r) # in.ids
             status == IF short THEN 400 ELSE 200
             gotScopes == [k \in KwIds |->
                             IF ~short /\ k \in Read(r) THEN found(k) ELSE {}]
             got == IF short THEN NothingRead ELSE req[r].got
             x == [req[r] EXCEPT !.pc = "done", !.status = status,
                                 !.gotScopes = gotScopes, !.got = got]
  <2>1. req[r].pc = "getScopes"
    BY <1>9 DEF listScopes
  <2>2. Become(r, x)
    <3> HIDE DEF short, found
    <3>1. Become(r, [req[r] EXCEPT
            !.pc = "done", !.status = IF short THEN 400 ELSE 200,
            !.gotScopes = [k \in KwIds |->
                             IF ~short /\ k \in Read(r) THEN found(k) ELSE {}],
            !.got = IF short THEN NothingRead ELSE @])
      BY <1>9 DEF listScopes, short, found
    <3> QED
      BY <3>1, <1>1 DEF Request
  <2>3. in.kind \in Reporting => status = 200 /\ got = req[r].got
    BY DEF Reporting
  <2>4. status \in {200, 400}
    OBVIOUS
  <2> HIDE DEF status, gotScopes, got
  <2>5. /\ x.pc = "done" /\ x.in = in /\ x.id = req[r].id /\ x.wrote = req[r].wrote
        /\ x.status = status /\ x.got = got /\ x.locks = {}
    BY <1>1 DEF Request
  <2> HIDE DEF x
  <2>6. Said(x, kws, usedKws)
    BY <1>1, <2>1, <2>3, <2>4, <2>5 DEF Said, SaidOK
  <2> QED
    BY <1>3, <2>2, <2>5, <2>6
<1> QED
  BY <1>4, <1>5, <1>7, <1>8, <1>9 DEF ReadKeywords

LEMMA CategoriesSaid ==
  ASSUME IInv, AnswerInv, NEW r \in Requests, ServeCategory(r)
  PROVE  AnswerInv'
<1>0. /\ req[r].pc \in {"catWrite", "catGet", "catCount", "catItems"}
      /\ UNCHANGED <<kws, usedKws>>
  BY DEF ServeCategory, CreateCategory, UpdateCategory, DeleteCategory, GetCategory,
         CountCategories, ListCategories, tables
<1>1. req[r] \in Request /\ req[r].in.kind \notin Reporting /\ req[r].wrote = 0
      /\ req[r].locks = {}
  <2>1. req[r].pc \in Steps /\ req[r].pc \notin {"get", "getScopes"}
    BY <1>0 DEF Steps
  <2> QED
    BY <1>0, <2>1, SaidFacts, Facts DEF Said
<1>2. ASSUME NEW s \in {200, 404, 500}, Answer(r, s) PROVE AnswerInv'
  BY <1>0, <1>1, <1>2, OthersSaid, AnswerSaid
<1>3. ASSUME NEW x, Become(r, x), x.in = req[r].in, x.wrote = 0, x.locks = {},
             x.pc \in {"catGet", "catItems"}
      PROVE  AnswerInv'
  <2>1. \A q \in Requests : Fresh(x, req[q])
    BY <1>3 DEF Fresh
  <2> QED
    BY <1>0, <1>1, <1>3, <2>1, WorkSaid
<1>4. CASE CreateCategory(r)
  <2>1. ASSUME NEW c, Become(r, [req[r] EXCEPT !.pc = "catGet", !.id = c]) PROVE AnswerInv'
    <3> DEFINE x == [req[r] EXCEPT !.pc = "catGet", !.id = c]
    <3>1. x.pc = "catGet" /\ x.in = req[r].in /\ x.wrote = 0 /\ x.locks = {}
      BY <1>1 DEF Request
    <3>2. Become(r, x)
      BY <2>1
    <3> HIDE DEF x
    <3> QED BY <1>3, <3>1, <3>2
  <2> QED
    BY <1>2, <1>4, <2>1 DEF CreateCategory
<1>5. CASE UpdateCategory(r)
  <2> DEFINE x == [req[r] EXCEPT !.pc = "catGet"]
  <2>1. Answer(r, 404) \/ Become(r, x)
    BY <1>5 DEF UpdateCategory, Goto
  <2>2. x.pc = "catGet" /\ x.in = req[r].in /\ x.wrote = 0 /\ x.locks = {}
    BY <1>1 DEF Request
  <2> HIDE DEF x
  <2> QED BY <1>2, <1>3, <2>1, <2>2
<1>6. CASE CountCategories(r)
  <2>1. PICK n : Become(r, [req[r] EXCEPT !.pc = "catItems", !.total = n])
    BY <1>6 DEF CountCategories
  <2> DEFINE x == [req[r] EXCEPT !.pc = "catItems", !.total = n]
  <2>2. x.pc = "catItems" /\ x.in = req[r].in /\ x.wrote = 0 /\ x.locks = {}
    BY <1>1 DEF Request
  <2>3. Become(r, x)
    BY <2>1
  <2> HIDE DEF x
  <2> QED BY <1>3, <2>2, <2>3
<1>7. CASE DeleteCategory(r) \/ GetCategory(r) \/ ListCategories(r)
  BY <1>2, <1>7 DEF DeleteCategory, GetCategory, ListCategories
<1> QED
  BY <1>4, <1>5, <1>6, <1>7 DEF ServeCategory

LEMMA AnswerInductive == IInv /\ AnswerInv /\ [Next]_vars => AnswerInv'
<1> SUFFICES ASSUME IInv, AnswerInv, [Next]_vars PROVE AnswerInv'
  OBVIOUS
<1>1. CASE UNCHANGED vars
  BY <1>1 DEF vars, AnswerInv
<1>2. ASSUME NEW r \in Requests, NEW in \in Inputs, Handle(r, in) PROVE AnswerInv'
  BY <1>2, HandleSaid
<1>3. ASSUME NEW r \in Requests, WriteKeyword(r) PROVE AnswerInv'
  BY <1>3, WritesSaid, CommitSaid, PatchSaid DEF WriteKeyword
<1>4. ASSUME NEW r \in Requests, ReadKeywords(r) \/ ServeCategory(r) PROVE AnswerInv'
  BY <1>4, ReadsSaid, CategoriesSaid
<1>5. ASSUME NEW r \in Requests, GiveUp(r) \/ Fail(r) PROVE AnswerInv'
  <2>1. Answer(r, 500) /\ UNCHANGED <<kws, usedKws>>
    BY <1>5 DEF GiveUp, Fail, tables
  <2> QED
    BY <2>1, OthersSaid, AnswerSaid
<1>6. ASSUME NEW r \in Requests, LoseCommit(r) PROVE AnswerInv'
  BY <1>6, CommitSaid
<1>7. CASE Crash
  <2>1. req' = [r \in Requests |-> NoRequest]
    BY <1>7 DEF Crash
  <2>2. NoRequest.pc = "idle" /\ NoRequest.wrote = 0
    BY DEF NoRequest, NewRequest
  <2> QED
    BY <2>1, <2>2 DEF AnswerInv, Said, Fresh
<1> QED
  BY <1>1, <1>2, <1>3, <1>4, <1>5, <1>6, <1>7 DEF Next, Serve

(* An answer is true: success of a create, an update or a status change is  *)
(* reported after the commit and with that version of the rule or a later   *)
(* one, although the rule is read back outside the transaction, and a       *)
(* refusal means that nothing was changed.                                  *)
THEOREM AnswerTrueHolds == Spec => []AnswerTrue
<1>1. Init => AnswerInv
  <2>1. NoRequest.pc = "idle" /\ NoRequest.wrote = 0
    BY DEF NoRequest, NewRequest
  <2> QED
    BY <2>1 DEF Init, AnswerInv, Said, Fresh
<1>2. AnswerInv => AnswerTrue
  BY DEF AnswerInv, Said, SaidOK, AnswerTrue, Reporting
<1> QED
  BY <1>1, <1>2, AnswerInductive, Invariance, PTL DEF Spec
=============================================================================
