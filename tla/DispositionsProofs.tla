------------------------- MODULE DispositionsProofs -------------------------
(***************************************************************************)
(* Proofs about Dispositions, for any results, articles and requests, any  *)
(* batches and any number of faults, crashes and deletes.                  *)
(***************************************************************************)
EXTENDS Dispositions, FiniteSetTheorems, NatExtrema, TLAPS

Tx == [mode : {"none", "open", "auto"},
       article : [Articles -> States] \cup {<<>>},
       result : [Results -> ResultRow] \cup {<<>>},
       logs : SUBSET Log, held : SUBSET (Results \cup Articles),
       wrote : SUBSET Results]

Delete == [pc : {"idle", "results", "logs", "gone"}, held : SUBSET Results]

(* What a request x, in transaction t, needs to go on. *)
HasItem(x, t) ==
  /\ x.pc = "idle" => x.kind = "ignored" /\ x.ids = {}
  /\ x.pc \in {"article", "state", "log", "update"} =>
       x.cur \in Results /\ t.mode # "none"
  /\ x.kind = "offlined" /\ x.pc \in {"state", "log", "update"} =>
       x.after \in States

Typed ==
  /\ article \in [Articles -> States] /\ result \in [Results -> ResultRow]
  /\ action \in [Requests -> ActionRow] /\ logs \subseteq Log
  /\ req \in [Requests -> Request] /\ tx \in [Requests -> Tx]
  /\ effects \in [Requests -> SUBSET Results]
  /\ counted \in [Requests -> SUBSET Results] /\ lost \subseteq Requests
  /\ del \in [Tasks -> Delete]
  /\ faults \in Nat /\ crashes \in Nat /\ edits \in Nat /\ deletes \in Nat
  /\ \A q \in Requests : TxTypeOK(tx[q]) /\ HasItem(req[q], tx[q])

-----------------------------------------------------------------------------
LEMMA NoTxOK == NoTx \in Tx /\ TxTypeOK(NoTx)
  BY DEF NoTx, Tx, TxTypeOK

LEMMA OutsideOK == Outside \in Tx /\ TxTypeOK(Outside) /\ Outside.mode = "auto"
                   /\ Outside.held = {} /\ Outside.wrote = {} /\ Outside.logs = {}
  BY DEF Outside, NoTx, Tx, TxTypeOK

(* A step of request q: its locals become x, its transaction t. *)
StepTo(q, x, t) == req' = [req EXCEPT ![q] = x] /\ tx' = [tx EXCEPT ![q] = t]

LEMMA Stepped ==
  ASSUME Typed, NEW q \in Requests, NEW x, NEW t, StepTo(q, x, t)
  PROVE  /\ req'[q] = x /\ tx'[q] = t
         /\ \A p \in Requests : p # q => req'[p] = req[p] /\ tx'[p] = tx[p]
  BY DEF Typed, StepTo

LEMMA TypeStep ==
  ASSUME Typed, NEW q \in Requests, NEW x \in Request, NEW t \in Tx, TxTypeOK(t),
         HasItem(x, t), StepTo(q, x, t),
         article' \in [Articles -> States], result' \in [Results -> ResultRow],
         action' \in [Requests -> ActionRow], logs' \subseteq Log,
         effects' \in [Requests -> SUBSET Results],
         counted' \in [Requests -> SUBSET Results],
         lost' \subseteq Requests, UNCHANGED del,
         faults' \in Nat, crashes' \in Nat, edits' \in Nat, deletes' \in Nat
  PROVE  Typed'
<1>1. req' \in [Requests -> Request] /\ tx' \in [Requests -> Tx]
  BY DEF StepTo, Typed
<1>2. \A p \in Requests : TxTypeOK(tx'[p]) /\ HasItem(req'[p], tx'[p])
  BY Stepped DEF Typed
<1> QED
  BY <1>1, <1>2 DEF Typed

LEMMA FaultOK ==
  ASSUME faults \in Nat PROVE /\ NoFault => faults' \in Nat
                              /\ \A s : Fault(s) => faults' \in Nat
  BY DEF NoFault, Fault

-----------------------------------------------------------------------------
(* What each step of a request does to its locals x and its transaction t. *)
LEMMA ItemOK ==
  ASSUME NEW q \in Requests, req[q] \in Request, NEW r \in Results
  PROVE  /\ Item(q, r) \in Request /\ Item(q, r).kind = req[q].kind
         /\ Item(q, r).todo = req[q].todo \ {r} /\ Item(q, r).cur = r
         /\ Item(q, r).ok = req[q].ok /\ Item(q, r).ids = req[q].ids
  BY DEF Item, Request

LEMMA SkippedOK ==
  ASSUME NEW x \in Request
  PROVE  /\ Skipped(x) \in Request /\ Skipped(x).pc = "next"
         /\ Skipped(x).kind = x.kind /\ Skipped(x).todo = x.todo
         /\ Skipped(x).cur = x.cur /\ Skipped(x).ok = x.ok
         /\ Skipped(x).ids = x.ids
<1> DEFINE n == x.skip + 1
<1>1. n \in Nat
  BY DEF Request
<1>2. Skipped(x) = [x EXCEPT !.pc = "next", !.skip = n]
  BY DEF Skipped
<1> HIDE DEF n
<1> QED
  BY <1>1, <1>2 DEF Request, PCs

LEMMA FailedOK ==
  ASSUME NEW x \in Request
  PROVE  /\ Failed(x) \in Request /\ Failed(x).pc = "next"
         /\ Failed(x).kind = x.kind /\ Failed(x).todo = x.todo
         /\ Failed(x).cur = x.cur /\ Failed(x).ok = x.ok
         /\ Failed(x).ids = x.ids
<1> DEFINE n == x.fail + 1
<1>1. n \in Nat
  BY DEF Request
<1>2. Failed(x) = [x EXCEPT !.pc = "next", !.fail = n]
  BY DEF Failed
<1> HIDE DEF n
<1> QED
  BY <1>1, <1>2 DEF Request, PCs

LEMMA ReadFacts ==
  ASSUME Typed, NEW q \in Requests, ReadResult(q)
  PROVE  \E r \in Results, x \in Request, t \in Tx :
           /\ StepTo(q, x, t) /\ NextId(req[q].todo, r) /\ TxTypeOK(t)
           /\ x.kind = req[q].kind /\ x.todo = req[q].todo \ {r} /\ x.cur = r
           /\ x.ok = req[q].ok /\ x.ids = req[q].ids
           /\ \/ x.pc = "next"
              \/ x.pc = "article" /\ x.kind = "offlined"
              \/ x.pc = "log" /\ x.log = "skipped" /\ x.kind # "offlined"
              \/ x.pc = "update" /\ x.log = "success" /\ x.kind # "offlined"
           /\ t.mode # "none" /\ t.held = tx[q].held
           /\ t.wrote = tx[q].wrote /\ t.logs = tx[q].logs
           /\ \/ t = tx[q]
              \/ /\ tx[q].mode = "none" /\ t.mode = "open"
                 /\ t.article = article /\ t.result = result
<1> DEFINE t == IF tx[q].mode # "none" THEN tx[q]
                ELSE [NoTx EXCEPT !.mode = "open",
                                  !.article = article, !.result = result]
           kind == req[q].kind
           After(r, disp) ==
             CASE disp = "absent" -> Skipped(Item(q, r))
               [] disp = kind /\ kind = "offlined" -> Skipped(Item(q, r))
               [] disp = kind /\ kind # "offlined" ->
                    [Item(q, r) EXCEPT !.pc = "log", !.before = disp, !.after = kind,
                                       !.log = "skipped", !.skip = @ + 1]
               [] disp \notin {"absent", kind} ->
                    [Item(q, r) EXCEPT !.before = disp, !.after = kind, !.log = "success",
                       !.pc = IF kind = "offlined" THEN "article" ELSE "update"]
           disp(r) == IF t.mode = "open" THEN t.result[r].disp ELSE result[r].disp
<1>1. /\ req[q] \in Request /\ tx[q] \in Tx /\ TxTypeOK(tx[q])
      /\ result \in [Results -> ResultRow] /\ article \in [Articles -> States]
  BY DEF Typed
<1>2. /\ t \in Tx /\ TxTypeOK(t) /\ t.mode # "none" /\ t.held = tx[q].held
      /\ t.wrote = tx[q].wrote /\ t.logs = tx[q].logs
      /\ \/ t = tx[q]
         \/ /\ tx[q].mode = "none" /\ t.mode = "open"
            /\ t.article = article /\ t.result = result
  <2>1. CASE tx[q].mode # "none"
    BY <1>1, <2>1
  <2>2. CASE tx[q].mode = "none"
    <3>1. t = [NoTx EXCEPT !.mode = "open", !.article = article, !.result = result]
      BY <2>2
    <3> HIDE DEF t
    <3>2. /\ t.mode = "open" /\ t.article = article /\ t.result = result
          /\ t.held = {} /\ t.wrote = {} /\ t.logs = {} /\ t \in Tx
      BY <1>1, <3>1 DEF NoTx, Tx
    <3> QED
      BY <1>1, <2>2, <3>2 DEF TxTypeOK
  <2> QED
    BY <2>1, <2>2
<1>3. PICK r \in Results :
        /\ NextId(req[q].todo, r) /\ tx' = [tx EXCEPT ![q] = t]
        /\ \/ Become(q, After(r, disp(r)))
           \/ Become(q, Failed(Item(q, r)))
  BY DEF ReadResult
<1>4. disp(r) \in Dispositions
  BY <1>1, <1>2 DEF TxTypeOK, ResultRow
<1> HIDE DEF t, disp
<1> DEFINE y == Item(q, r)
<1>5. /\ y \in Request /\ y.kind = kind /\ y.todo = req[q].todo \ {r}
      /\ y.cur = r /\ y.ok = req[q].ok /\ y.ids = req[q].ids
      /\ kind \in {"ignored", "processed", "offlined"}
  BY <1>1, ItemOK DEF Request
<1>6. \E x \in Request :
        /\ Become(q, x) /\ x.kind = kind /\ x.todo = y.todo /\ x.cur = r
        /\ x.ok = req[q].ok /\ x.ids = req[q].ids
        /\ \/ x.pc = "next"
           \/ x.pc = "article" /\ x.kind = "offlined"
           \/ x.pc = "log" /\ x.log = "skipped" /\ x.kind # "offlined"
           \/ x.pc = "update" /\ x.log = "success" /\ x.kind # "offlined"
  <2>1. CASE Become(q, Failed(y))
    <3> DEFINE x == Failed(y)
    <3>1. /\ x \in Request /\ x.kind = kind /\ x.todo = y.todo /\ x.cur = r
          /\ x.ok = req[q].ok /\ x.ids = req[q].ids /\ x.pc = "next"
      BY <1>5, FailedOK
    <3>2. Become(q, x)
      BY <2>1
    <3> HIDE DEF x
    <3> QED
      BY <3>1, <3>2
  <2>2. CASE Become(q, After(r, disp(r)))
    <3>1. CASE disp(r) = "absent" \/ (disp(r) = kind /\ kind = "offlined")
      <4> DEFINE x == Skipped(y)
      <4>1. After(r, disp(r)) = x
        BY <1>5, <3>1
      <4>2. /\ x \in Request /\ x.kind = kind /\ x.todo = y.todo /\ x.cur = r
            /\ x.ok = req[q].ok /\ x.ids = req[q].ids /\ x.pc = "next"
        BY <1>5, SkippedOK
      <4>3. Become(q, x)
        BY <2>2, <4>1
      <4> HIDE DEF x
      <4> QED
        BY <4>2, <4>3
    <3>2. CASE disp(r) # "absent" /\ disp(r) = kind /\ kind # "offlined"
      <4> DEFINE x == [y EXCEPT !.pc = "log", !.before = disp(r), !.after = kind,
                                !.log = "skipped", !.skip = @ + 1]
      <4>1. After(r, disp(r)) = x
        BY <3>2
      <4>2. /\ x \in Request /\ x.kind = kind /\ x.todo = y.todo /\ x.cur = r
            /\ x.ok = req[q].ok /\ x.ids = req[q].ids /\ x.pc = "log" /\ x.log = "skipped"
        <5> DEFINE n == y.skip + 1
        <5>1. n \in Nat
          BY <1>5 DEF Request
        <5>2. x = [y EXCEPT !.pc = "log", !.before = disp(r), !.after = kind,
                            !.log = "skipped", !.skip = n]
          OBVIOUS
        <5> HIDE DEF y, kind, n, x
        <5> QED
          BY <1>4, <1>5, <3>2, <5>1, <5>2 DEF Request, PCs, Dispositions
      <4> QED
        BY <2>2, <3>2, <4>1, <4>2
    <3>3. CASE disp(r) \notin {"absent", kind}
      <4> DEFINE x == [y EXCEPT !.before = disp(r), !.after = kind, !.log = "success",
                         !.pc = IF kind = "offlined" THEN "article" ELSE "update"]
      <4>1. After(r, disp(r)) = x
        BY <3>3
      <4>2. /\ x \in Request /\ x.kind = kind /\ x.todo = y.todo /\ x.cur = r
            /\ x.ok = req[q].ok /\ x.ids = req[q].ids
            /\ x.pc = IF kind = "offlined" THEN "article" ELSE "update"
            /\ x.log = "success"
        <5> HIDE DEF y, kind
        <5> QED
          BY <1>4, <1>5, <3>3 DEF Request, PCs, Dispositions
      <4> QED
        BY <2>2, <3>3, <4>1, <4>2
    <3> QED
      BY <3>1, <3>2, <3>3
  <2> QED
    BY <1>3, <2>1, <2>2
<1> QED
  BY <1>2, <1>3, <1>5, <1>6 DEF StepTo, Become

SameItem(x, y) ==
  x.kind = y.kind /\ x.ids = y.ids /\ x.todo = y.todo /\ x.cur = y.cur

LEMMA GotoOK ==
  ASSUME NEW x \in Request, NEW l \in PCs
  PROVE  LET y == [x EXCEPT !.pc = l] IN
         /\ y \in Request /\ y.pc = l /\ SameItem(y, x)
         /\ y.ok = x.ok /\ y.log = x.log /\ y.after = x.after
  BY DEF Request, SameItem

LEMMA KeepTx ==
  ASSUME Typed, NEW q \in Requests, NEW x, Become(q, x), UNCHANGED tx
  PROVE  StepTo(q, x, tx[q])
  BY DEF Typed, StepTo, Become

Off == {"offline", "offline_sync"}

LEMMA ReadArticleFacts ==
  ASSUME Typed, NEW q \in Requests, ReadArticle(q)
  PROVE  \E x \in Request :
           /\ StepTo(q, x, tx[q]) /\ SameItem(x, req[q]) /\ x.ok = req[q].ok
           /\ \/ x.pc = "next"
              \/ x.pc = "state" /\ x.after \in States
              \/ /\ x.pc = "log" /\ x.after \in States
                 /\ ArticleSeen(q, ArticleOf[req[q].cur]) \in Off
<1> DEFINE y == req[q]
           s == ArticleSeen(q, ArticleOf[y.cur])
<1>1. /\ y \in Request /\ UNCHANGED tx /\ y.pc = "article" /\ y.cur \in Results
      /\ TxTypeOK(tx[q])
  BY DEF Typed, ReadArticle, HasItem
<1>2. s \in States
  BY <1>1, DispositionAssumption DEF Typed, ArticleSeen, TxTypeOK
<1>3. Become(q, Failed(y)) \/ Become(q, OfflineFrom(y, s))
  BY DEF ReadArticle
<1> HIDE DEF y, s
<1>4. \E x \in Request :
           /\ Become(q, x) /\ SameItem(x, y) /\ x.ok = y.ok
           /\ \/ x.pc = "next"
              \/ x.pc = "state" /\ x.after \in States
              \/ x.pc = "log" /\ x.after \in States /\ s \in Off
  <2>1. /\ Failed(y) \in Request /\ SameItem(Failed(y), y) /\ Failed(y).ok = y.ok
        /\ Failed(y).pc = "next"
    BY <1>1, FailedOK DEF SameItem
  <2>2. CASE Become(q, Failed(y))
    BY <2>1, <2>2
  <2>3. CASE Become(q, OfflineFrom(y, s))
    <3>1. CASE s = "other"
      <4>1. OfflineFrom(y, s) = Failed(y)
        BY <3>1 DEF OfflineFrom
      <4> QED
        BY <2>1, <2>3, <4>1
    <3>2. CASE s = "online"
      <4> DEFINE x == [y EXCEPT !.pc = "state", !.before = s, !.after = "offline"]
      <4>1. x = OfflineFrom(y, s)
        BY <3>2 DEF OfflineFrom
      <4>2. /\ x \in Request /\ SameItem(x, y) /\ x.ok = y.ok /\ x.pc = "state"
            /\ x.after \in States
        BY <1>1, <1>2 DEF Request, PCs, States, SameItem
      <4> QED
        BY <2>3, <4>1, <4>2
    <3>3. CASE s \in Off
      <4> DEFINE x == [y EXCEPT !.pc = "log", !.before = s, !.after = s,
                                !.log = "skipped"]
      <4>1. x = OfflineFrom(y, s)
        BY <3>3 DEF OfflineFrom, Off
      <4>2. /\ x \in Request /\ SameItem(x, y) /\ x.ok = y.ok /\ x.pc = "log"
            /\ x.after \in States
        BY <1>1, <1>2 DEF Request, PCs, States, SameItem
      <4> QED
        BY <2>3, <3>3, <4>1, <4>2
    <3> QED
      BY <1>2, <3>1, <3>2, <3>3 DEF States, Off
  <2> QED
    BY <1>3, <2>2, <2>3
<1> QED
  BY <1>1, <1>4, KeepTx DEF y, s

LEMMA OfflineFacts ==
  ASSUME Typed, NEW q \in Requests, OfflineArticle(q)
  PROVE  \E x \in Request, t \in Tx :
           /\ StepTo(q, x, t) /\ TxTypeOK(t) /\ SameItem(x, req[q]) /\ x.ok = req[q].ok
           /\ t.mode = tx[q].mode
           /\ LET a == ArticleOf[req[q].cur] IN
              \/ x.pc = "next" /\ t = tx[q] /\ UNCHANGED article
              \/ /\ x.pc = "log" /\ x.after = req[q].after
                 /\ tx[q].mode = "open" /\ UNCHANGED article
                 /\ t.article = [tx[q].article EXCEPT ![a] = "offline"]
                 /\ t.held = tx[q].held \cup {a} /\ t.result = tx[q].result
                 /\ t.logs = tx[q].logs
              \/ /\ x.pc = "log" /\ x.after = req[q].after
                 /\ tx[q].mode = "auto" /\ t = tx[q]
                 /\ article' = [article EXCEPT ![a] = "offline"]
<1> DEFINE y == req[q]
           a == ArticleOf[y.cur]
           u == tx[q]
<1>1. /\ y \in Request /\ u \in Tx /\ TxTypeOK(u) /\ y.cur \in Results
      /\ a \in Articles /\ u.mode \in {"open", "auto"}
  BY DispositionAssumption DEF Typed, HasItem, OfflineArticle, TxTypeOK
<1>2. \/ SetArticle(q, a, "offline") /\ Goto(q, "log")
      \/ Become(q, Failed(y)) /\ UNCHANGED <<article, tx>>
  BY DEF OfflineArticle
<1>3. CASE Become(q, Failed(y)) /\ UNCHANGED <<article, tx>>
  <2>1. StepTo(q, Failed(y), u)
    BY <1>3, KeepTx
  <2>2. /\ Failed(y) \in Request /\ SameItem(Failed(y), y) /\ Failed(y).ok = y.ok
        /\ Failed(y).pc = "next"
    BY <1>1, FailedOK DEF SameItem
  <2> QED
    BY <1>1, <1>3, <2>1, <2>2
<1>4. CASE SetArticle(q, a, "offline") /\ Goto(q, "log")
  <2> DEFINE x == [y EXCEPT !.pc = "log"]
  <2>1. /\ x \in Request /\ SameItem(x, y) /\ x.ok = y.ok /\ x.pc = "log"
        /\ x.after = y.after
    BY <1>1, GotoOK DEF PCs
  <2>2. req' = [req EXCEPT ![q] = x]
    BY <1>4 DEF Goto, Become
  <2> HIDE DEF x
  <2>3. CASE u.mode = "auto"
    <3>1. article' = [article EXCEPT ![a] = "offline"] /\ UNCHANGED tx
      BY <1>4, <2>3 DEF SetArticle
    <3>2. StepTo(q, x, u)
      BY <2>2, <3>1 DEF StepTo, Typed
    <3> QED
      BY <1>1, <2>1, <2>3, <3>1, <3>2
  <2>4. CASE u.mode = "open"
    <3> DEFINE t == [u EXCEPT !.article = [@ EXCEPT ![a] = "offline"],
                              !.held = @ \cup {a}]
    <3>1. /\ tx' = [tx EXCEPT ![q].article[a] = "offline", ![q].held = @ \cup {a}]
          /\ UNCHANGED article
      BY <1>4, <2>4 DEF SetArticle
    <3>2. tx' = [tx EXCEPT ![q] = t]
      BY <1>1, <3>1 DEF Typed, Tx
    <3>3. u.article \in [Articles -> States]
      BY <1>1, <2>4 DEF TxTypeOK
    <3>4. /\ t.article = [u.article EXCEPT ![a] = "offline"]
          /\ t.held = u.held \cup {a} /\ t.result = u.result
          /\ t.mode = u.mode /\ t.wrote = u.wrote /\ t.logs = u.logs
      BY <1>1 DEF Tx
    <3>5. t.article \in [Articles -> States]
      BY <1>1, <3>3, <3>4 DEF States
    <3>6. t \in Tx
      BY <1>1, <3>4, <3>5 DEF Tx
    <3> HIDE DEF t
    <3>7. TxTypeOK(t)
      BY <1>1, <2>4, <3>4, <3>5 DEF TxTypeOK
    <3>8. StepTo(q, x, t)
      BY <2>2, <3>2 DEF StepTo
    <3> QED
      BY <2>1, <2>4, <3>1, <3>4, <3>6, <3>7, <3>8
  <2> QED
    BY <1>1, <2>3, <2>4
<1> QED
  BY <1>2, <1>3, <1>4

LogTo(q, x, t) ==
  /\ StepTo(q, x, t) /\ TxTypeOK(t) /\ SameItem(x, req[q]) /\ x.ok = req[q].ok
  /\ LogEntry(q) \in Log /\ x.after = req[q].after
  /\ \/ /\ x.pc = IF req[q].kind = "offlined" THEN "update" ELSE "next"
        /\ \/ /\ tx[q].mode = "open" /\ UNCHANGED logs
              /\ t = [tx[q] EXCEPT !.logs = @ \cup {LogEntry(q)}]
           \/ /\ tx[q].mode = "auto" /\ t = tx[q]
              /\ logs' = logs \cup {LogEntry(q)}
     \/ /\ req[q].kind = "offlined" /\ x.pc = "update"
        /\ t = tx[q] /\ UNCHANGED logs
     \/ /\ req[q].kind # "offlined" /\ x.pc = "ended"
        /\ t = NoTx /\ UNCHANGED logs

LEMMA LogFacts ==
  ASSUME Typed, NEW q \in Requests, WriteOperationLog(q)
  PROVE  \E x \in Request, t \in Tx : LogTo(q, x, t)
<1> DEFINE y == req[q]
           u == tx[q]
           l == LogEntry(q)
           after == IF y.kind = "offlined" THEN "update" ELSE "next"
<1>1. /\ y \in Request /\ u \in Tx /\ TxTypeOK(u) /\ y.cur \in Results
      /\ u.mode \in {"open", "auto"}
  BY DEF Typed, HasItem, WriteOperationLog, TxTypeOK
<1>2. l \in Log
  BY <1>1 DEF LogEntry, Log, Request
<1>3. /\ \/ CreateOperationLog(q, l) /\ Goto(q, after)
         \/ LogFailure(q) /\ UNCHANGED logs
  BY DEF WriteOperationLog
<1>4. ASSUME NEW p \in PCs
      PROVE  LET x == [y EXCEPT !.pc = p] IN
             /\ x \in Request /\ SameItem(x, y) /\ x.ok = y.ok
             /\ x.after = y.after /\ x.pc = p
  BY <1>1, GotoOK
<1> DEFINE x(p) == [y EXCEPT !.pc = p]
<1>5. \A p \in PCs : /\ x(p) \in Request /\ SameItem(x(p), y) /\ x(p).ok = y.ok
                     /\ x(p).after = y.after /\ x(p).pc = p
  BY <1>4
<1>6. \A p : Goto(q, p) => req' = [req EXCEPT ![q] = x(p)]
  BY DEF Goto, Become
<1> HIDE DEF x, l
<1>7. after \in PCs /\ "update" \in PCs /\ "ended" \in PCs
  BY DEF PCs
<1>8. CASE CreateOperationLog(q, l) /\ Goto(q, after)
  <2>1. CASE u.mode = "open"
    <3> DEFINE t == [u EXCEPT !.logs = @ \cup {l}]
    <3>1. tx' = [tx EXCEPT ![q].logs = @ \cup {l}] /\ UNCHANGED logs
      BY <1>8, <2>1 DEF CreateOperationLog
    <3>2. tx' = [tx EXCEPT ![q] = t]
      BY <1>1, <3>1 DEF Typed, Tx
    <3>3. t \in Tx /\ TxTypeOK(t)
      BY <1>1, <1>2, <2>1 DEF Tx, TxTypeOK
    <3>4. StepTo(q, x(after), t)
      BY <1>6, <1>8, <3>2 DEF StepTo
    <3> QED
      BY <1>2, <1>5, <1>7, <2>1, <3>1, <3>3, <3>4 DEF l, LogTo
  <2>2. CASE u.mode = "auto"
    <3>1. logs' = logs \cup {l} /\ UNCHANGED tx
      BY <1>8, <2>2 DEF CreateOperationLog
    <3>2. StepTo(q, x(after), u)
      BY <1>6, <1>8, <3>1 DEF StepTo, Typed
    <3> QED
      BY <1>1, <1>2, <1>5, <1>7, <2>2, <3>1, <3>2 DEF l, LogTo
  <2> QED
    BY <1>1, <2>1, <2>2
<1>9. CASE LogFailure(q) /\ UNCHANGED logs
  <2>1. CASE y.kind = "offlined"
    <3>1. StepTo(q, x("update"), u)
      BY <1>6, <1>9, <2>1 DEF StepTo, Typed, LogFailure
    <3> QED
      BY <1>1, <1>2, <1>5, <1>7, <1>9, <2>1, <3>1 DEF l, LogTo
  <2>2. CASE y.kind # "offlined"
    <3>1. StepTo(q, x("ended"), NoTx)
      BY <1>6, <1>9, <2>2 DEF StepTo, LogFailure, Rollback
    <3> QED
      BY <1>2, <1>5, <1>7, <1>9, <2>2, <3>1, NoTxOK DEF l, LogTo
  <2> QED
    BY <2>1, <2>2
<1> QED
  BY <1>3, <1>8, <1>9

UpdateTo(q, x, t, row) ==
  LET r == req[q].cur IN
     /\ StepTo(q, x, t) /\ TxTypeOK(t) /\ SameItem(x, req[q])
     /\ row.disp = req[q].kind /\ t.mode = tx[q].mode /\ r \in Results
     /\ \/ /\ x.pc = "next" /\ x.ok = req[q].ok /\ t = tx[q]
           /\ UNCHANGED <<result, effects, counted>>
        \/ /\ x.pc = IF req[q].kind = "offlined" THEN "next" ELSE "log"
           /\ x.ok = req[q].ok + 1 /\ x.log = req[q].log
           /\ counted' = [counted EXCEPT ![q] = @ \cup {r}] /\ Free(q, r)
           /\ \/ /\ ResultNow(q, r).disp = "absent" /\ t = tx[q]
                 /\ UNCHANGED <<result, effects>>
              \/ /\ ResultNow(q, r).disp # "absent" /\ tx[q].mode = "open"
                 /\ t.result = [tx[q].result EXCEPT ![r] = row]
                 /\ t.held = tx[q].held \cup {r} /\ t.wrote = tx[q].wrote \cup {r}
                 /\ t.article = tx[q].article /\ t.logs = tx[q].logs
                 /\ UNCHANGED <<result, effects>>
              \/ /\ ResultNow(q, r).disp # "absent" /\ tx[q].mode = "auto"
                 /\ t = tx[q] /\ result' = [result EXCEPT ![r] = row]
                 /\ effects' = [effects EXCEPT ![q] = @ \cup {r}]

LEMMA UpdateFacts ==
  ASSUME Typed, NEW q \in Requests, UpdateResult(q)
  PROVE  \E x \in Request, t \in Tx, row \in ResultRow : UpdateTo(q, x, t, row)
<1> DEFINE y == req[q]
           u == tx[q]
           r == y.cur
           row == [disp |-> y.kind,
                   state |-> IF y.kind = "offlined" THEN y.after
                             ELSE ResultNow(q, r).state]
<1>1. /\ y \in Request /\ u \in Tx /\ TxTypeOK(u) /\ r \in Results
      /\ u.mode \in {"open", "auto"} /\ y.pc = "update" /\ HasItem(y, u)
      /\ result \in [Results -> ResultRow]
  BY DEF Typed, HasItem, UpdateResult, TxTypeOK
<1>2. row \in ResultRow /\ row.disp = y.kind
  <2>1. ResultNow(q, r) \in ResultRow
    BY <1>1 DEF ResultNow, TxTypeOK
  <2>2. ResultNow(q, r).state \in States
    BY <2>1 DEF ResultRow
  <2>3. y.kind = "offlined" => y.after \in States
    BY <1>1 DEF HasItem
  <2>4. y.kind \in Dispositions
    BY <1>1 DEF Request, Dispositions
  <2> QED
    BY <2>2, <2>3, <2>4 DEF ResultRow
<1>3. \/ /\ SetResult(q, r, row) /\ Free(q, r)
         /\ Become(q, [y EXCEPT !.ok = @ + 1,
                         !.pc = IF y.kind = "offlined" THEN "next" ELSE "log"])
         /\ counted' = [counted EXCEPT ![q] = @ \cup {r}]
      \/ Become(q, Failed(y)) /\ UNCHANGED <<result, effects, tx, counted>>
  BY DEF UpdateResult
<1> HIDE DEF row
<1>4. CASE Become(q, Failed(y)) /\ UNCHANGED <<result, effects, tx, counted>>
  <2>1. StepTo(q, Failed(y), u)
    BY <1>4, KeepTx
  <2>2. /\ Failed(y) \in Request /\ SameItem(Failed(y), y) /\ Failed(y).ok = y.ok
        /\ Failed(y).pc = "next"
    BY <1>1, FailedOK DEF SameItem
  <2> QED
    BY <1>1, <1>2, <1>4, <2>1, <2>2 DEF UpdateTo
<1>5. ASSUME SetResult(q, r, row), counted' = [counted EXCEPT ![q] = @ \cup {r}],
             Become(q, [y EXCEPT !.ok = @ + 1,
                          !.pc = IF y.kind = "offlined" THEN "next" ELSE "log"])
      PROVE  \E x \in Request, t \in Tx :
               /\ StepTo(q, x, t) /\ TxTypeOK(t) /\ SameItem(x, y)
               /\ t.mode = u.mode
               /\ x.pc = IF y.kind = "offlined" THEN "next" ELSE "log"
               /\ x.ok = y.ok + 1 /\ x.log = y.log
               /\ \/ /\ ResultNow(q, r).disp = "absent" /\ t = u
                     /\ UNCHANGED <<result, effects>>
                  \/ /\ ResultNow(q, r).disp # "absent" /\ u.mode = "open"
                     /\ t.result = [u.result EXCEPT ![r] = row]
                     /\ t.held = u.held \cup {r} /\ t.wrote = u.wrote \cup {r}
                     /\ t.article = u.article /\ t.logs = u.logs
                     /\ UNCHANGED <<result, effects>>
                  \/ /\ ResultNow(q, r).disp # "absent" /\ u.mode = "auto"
                     /\ t = u /\ result' = [result EXCEPT ![r] = row]
                     /\ effects' = [effects EXCEPT ![q] = @ \cup {r}]
  <2> DEFINE n == y.ok + 1
             p == IF y.kind = "offlined" THEN "next" ELSE "log"
             x == [y EXCEPT !.ok = n, !.pc = p]
  <2>1. n \in Nat /\ p \in PCs
    BY <1>1 DEF Request, PCs
  <2>2. req' = [req EXCEPT ![q] = x]
    BY <1>5 DEF Become
  <2> HIDE DEF n, p
  <2>3. x \in Request /\ SameItem(x, y) /\ x.ok = n /\ x.pc = p /\ x.log = y.log
    BY <1>1, <2>1 DEF Request, SameItem
  <2> HIDE DEF x
  <2> USE DEF n, p
  <2>4. CASE ResultNow(q, r).disp = "absent"
    <3>1. UNCHANGED <<tx, result, effects>>
      BY <1>5, <2>4 DEF SetResult
    <3>2. StepTo(q, x, u)
      BY <2>2, <3>1 DEF StepTo, Typed
    <3> QED
      BY <1>1, <2>3, <2>4, <3>1, <3>2
  <2>5. CASE ResultNow(q, r).disp # "absent" /\ u.mode = "auto"
    <3>1. /\ result' = [result EXCEPT ![r] = row] /\ UNCHANGED tx
          /\ effects' = [effects EXCEPT ![q] = @ \cup {r}]
      BY <1>5, <2>5 DEF SetResult
    <3>2. StepTo(q, x, u)
      BY <2>2, <3>1 DEF StepTo, Typed
    <3> QED
      BY <1>1, <2>3, <2>5, <3>1, <3>2
  <2>6. CASE ResultNow(q, r).disp # "absent" /\ u.mode = "open"
    <3> DEFINE t == [u EXCEPT !.result = [@ EXCEPT ![r] = row],
                              !.held = @ \cup {r}, !.wrote = @ \cup {r}]
    <3>1. /\ tx' = [tx EXCEPT ![q].result[r] = row, ![q].held = @ \cup {r},
                              ![q].wrote = @ \cup {r}]
          /\ UNCHANGED <<result, effects>>
      BY <1>5, <2>6 DEF SetResult
    <3>2. tx' = [tx EXCEPT ![q] = t]
      BY <1>1, <3>1 DEF Typed, Tx
    <3>3. u.result \in [Results -> ResultRow]
      BY <1>1, <2>6 DEF TxTypeOK
    <3>4. /\ t.result = [u.result EXCEPT ![r] = row] /\ t.article = u.article
          /\ t.held = u.held \cup {r} /\ t.wrote = u.wrote \cup {r}
          /\ t.mode = u.mode /\ t.logs = u.logs
      BY <1>1 DEF Tx
    <3>5. t.result \in [Results -> ResultRow]
      BY <1>1, <1>2, <3>3, <3>4
    <3>6. t \in Tx
      BY <1>1, <3>4, <3>5 DEF Tx
    <3> HIDE DEF t
    <3>7. TxTypeOK(t)
      BY <1>1, <2>6, <3>4, <3>5 DEF TxTypeOK
    <3>8. StepTo(q, x, t)
      BY <2>2, <3>2 DEF StepTo
    <3> QED
      BY <2>3, <2>6, <3>1, <3>4, <3>6, <3>7, <3>8
  <2> QED
    BY <1>1, <2>4, <2>5, <2>6
<1>6. CASE /\ SetResult(q, r, row) /\ Free(q, r)
           /\ Become(q, [y EXCEPT !.ok = @ + 1,
                           !.pc = IF y.kind = "offlined" THEN "next" ELSE "log"])
           /\ counted' = [counted EXCEPT ![q] = @ \cup {r}]
  <2>1. row \in ResultRow /\ row.disp = y.kind /\ r \in Results /\ Free(q, r)
    BY <1>1, <1>2, <1>6
  <2> QED
    BY <1>5, <1>6, <2>1 DEF UpdateTo
<1> QED
  BY <1>3, <1>4, <1>6

LEMMA CreateFacts ==
  ASSUME Typed, NEW q \in Requests, CreateAction(q)
  PROVE  \E x \in Request :
           /\ StepTo(q, x, tx[q]) /\ x.pc = "next" /\ x.kind \in Kinds
           /\ x.cur = 0 /\ x.ok = 0 /\ x.todo = x.ids
           /\ action' = [action EXCEPT ![q].status = "running"]
<1>1. PICK kind \in Kinds, ids \in Batches, task \in Scopes :
        Become(q, [Idle EXCEPT !.pc = "next", !.kind = kind, !.ids = ids,
                               !.task = task, !.todo = ids])
  BY DEF CreateAction
<1> DEFINE x == [Idle EXCEPT !.pc = "next", !.kind = kind, !.ids = ids,
                             !.task = task, !.todo = ids]
<1>2. /\ x \in Request /\ x.pc = "next" /\ x.kind = kind /\ x.cur = 0 /\ x.ok = 0
      /\ x.todo = x.ids
  BY DispositionAssumption DEF Idle, Request, PCs, Dispositions
<1>3. StepTo(q, x, tx[q])
  BY <1>1, KeepTx DEF CreateAction
<1> HIDE DEF x
<1> QED
  BY <1>2, <1>3 DEF CreateAction

LEMMA EndFacts ==
  ASSUME Typed, NEW q \in Requests,
         CommitAction(q) \/ UpdateActionSummary(q) \/ Crash(q)
  PROVE  \E x \in Request, t \in {NoTx, tx[q]} :
           /\ StepTo(q, x, t) /\ SameItem(x, req[q]) /\ x.ok = req[q].ok
           /\ \/ /\ CommitAction(q) /\ t = NoTx /\ Commit(q)
                 /\ x.pc \in {"summary", "ended"}
              \/ x.pc = "ended" /\ t = NoTx /\ UNCHANGED <<tables, action>>
              \/ UpdateActionSummary(q) /\ x.pc = "ended" /\ t = tx[q]
<1> DEFINE y == req[q]
           x(p) == [y EXCEPT !.pc = p]
<1>1. y \in Request
  BY DEF Typed
<1>2. /\ x("ended") \in Request /\ SameItem(x("ended"), y) /\ x("ended").ok = y.ok
      /\ x("ended").pc = "ended"
  BY <1>1, GotoOK DEF PCs
<1>3. /\ x("summary") \in Request /\ SameItem(x("summary"), y)
      /\ x("summary").ok = y.ok /\ x("summary").pc = "summary"
  BY <1>1, GotoOK DEF PCs
<1>4. \A p : Goto(q, p) => req' = [req EXCEPT ![q] = x(p)]
  BY DEF Goto, Become
<1> HIDE DEF x
<1>5. CASE CommitAction(q)
  <2>1. CASE Commit(q) /\ Goto(q, "summary")
    <3>1. StepTo(q, x("summary"), NoTx)
      BY <1>4, <2>1 DEF Commit, StepTo
    <3> QED
      BY <1>3, <1>5, <2>1, <3>1
  <2>2. CASE Commit(q) /\ Goto(q, "ended")
    <3>1. StepTo(q, x("ended"), NoTx)
      BY <1>4, <2>2 DEF Commit, StepTo
    <3> QED
      BY <1>2, <1>5, <2>2, <3>1
  <2>3. CASE Rollback(q) /\ UNCHANGED tables /\ Goto(q, "ended")
    <3>1. StepTo(q, x("ended"), NoTx)
      BY <1>4, <2>3 DEF Rollback, StepTo
    <3>2. UNCHANGED action
      BY <1>5 DEF CommitAction
    <3> QED
      BY <1>2, <2>3, <3>1, <3>2
  <2> QED
    BY <1>5, <2>1, <2>2, <2>3 DEF CommitAction
<1>6. CASE UpdateActionSummary(q)
  <2>1. StepTo(q, x("ended"), tx[q])
    BY <1>4, <1>6 DEF UpdateActionSummary, StepTo, Typed
  <2> QED
    BY <1>2, <1>6, <2>1
<1>7. CASE Crash(q)
  <2>1. StepTo(q, x("ended"), NoTx)
    BY <1>4, <1>7 DEF Crash, Rollback, StepTo
  <2> QED
    BY <1>2, <1>7, <2>1 DEF Crash
<1> QED
  BY <1>5, <1>6, <1>7

LEMMA VictimFacts ==
  ASSUME Typed, NEW q \in Requests, DeadlockVictim(q)
  PROVE  \E x \in Request : /\ StepTo(q, x, Outside) /\ SameItem(x, req[q])
                            /\ x.pc = "next" /\ x.ok = req[q].ok
<1>1. req[q] \in Request
  BY DEF Typed
<1>2. /\ Failed(req[q]) \in Request /\ Failed(req[q]).pc = "next"
      /\ Failed(req[q]).ok = req[q].ok /\ SameItem(Failed(req[q]), req[q])
  BY <1>1, FailedOK DEF SameItem
<1>3. StepTo(q, Failed(req[q]), Outside)
  BY DEF DeadlockVictim, Become, StepTo
<1> QED
  BY <1>2, <1>3

-----------------------------------------------------------------------------
(* Types. *)
LEMMA RequestTypes ==
  ASSUME Typed, NEW q \in Requests,
         CreateAction(q) \/ ReadResult(q) \/ ReadArticle(q) \/ OfflineArticle(q)
         \/ WriteOperationLog(q)
  PROVE  Typed'
<1> USE DEF Typed
<1>1. CASE CreateAction(q)
  <2>1. PICK x \in Request :
           /\ StepTo(q, x, tx[q]) /\ x.pc = "next"
           /\ action' = [action EXCEPT ![q].status = "running"]
    BY <1>1, CreateFacts
  <2>2. action' \in [Requests -> ActionRow]
    BY <2>1 DEF ActionRow, ActionStatus
  <2>3. HasItem(x, tx[q])
    BY <2>1 DEF HasItem
  <2> QED
    BY <1>1, <2>1, <2>2, <2>3, TypeStep DEF CreateAction, tables, env
<1>2. CASE ReadResult(q)
  <2>1. PICK r \in Results, x \in Request, t \in Tx :
           /\ StepTo(q, x, t) /\ TxTypeOK(t) /\ x.cur = r
           /\ \/ x.pc = "next"
              \/ x.pc = "article" /\ x.kind = "offlined"
              \/ x.pc = "log" /\ x.log = "skipped" /\ x.kind # "offlined"
              \/ x.pc = "update" /\ x.kind # "offlined"
           /\ t.mode # "none"
    BY <1>2, ReadFacts
  <2>2. HasItem(x, t)
    BY <2>1 DEF HasItem
  <2> QED
    BY <1>2, <2>1, <2>2, TypeStep, FaultOK DEF ReadResult, tables, env
<1>3. CASE ReadArticle(q)
  <2>1. PICK x \in Request :
           /\ StepTo(q, x, tx[q]) /\ SameItem(x, req[q])
           /\ x.pc = "next" \/ (x.pc \in {"state", "log"} /\ x.after \in States)
    BY <1>3, ReadArticleFacts
  <2>2. HasItem(x, tx[q])
    BY <1>3, <2>1 DEF HasItem, SameItem, ReadArticle
  <2> QED
    BY <1>3, <2>1, <2>2, TypeStep, FaultOK DEF ReadArticle, tables, env
<1>4. CASE OfflineArticle(q)
  <2> DEFINE a == ArticleOf[req[q].cur]
  <2>1. PICK x \in Request, t \in Tx :
           /\ StepTo(q, x, t) /\ TxTypeOK(t) /\ SameItem(x, req[q])
           /\ t.mode = tx[q].mode
           /\ x.pc = "next" \/ (x.pc = "log" /\ x.after = req[q].after)
           /\ article' = article \/ article' = [article EXCEPT ![a] = "offline"]
    BY <1>4, OfflineFacts
  <2>2. HasItem(x, t) /\ a \in Articles
    BY <1>4, <2>1, DispositionAssumption DEF HasItem, SameItem, OfflineArticle
  <2>3. article' \in [Articles -> States]
    BY <2>1, <2>2 DEF States
  <2> QED
    BY <1>4, <2>1, <2>2, <2>3, TypeStep, FaultOK DEF OfflineArticle, env
<1>5. CASE WriteOperationLog(q)
  <2>1. PICK x \in Request, t \in Tx :
           /\ StepTo(q, x, t) /\ TxTypeOK(t) /\ SameItem(x, req[q])
           /\ LogEntry(q) \in Log /\ x.after = req[q].after
           /\ \/ x.pc = "update" /\ t.mode = tx[q].mode
              \/ x.pc \in {"next", "ended"}
           /\ logs' = logs \/ logs' = logs \cup {LogEntry(q)}
    <3>1. \A l : [tx[q] EXCEPT !.logs = l].mode = tx[q].mode
      BY DEF Tx
    <3> HIDE DEF Typed
    <3>2. PICK x \in Request, t \in Tx : LogTo(q, x, t)
      BY <1>5, LogFacts
    <3> QED
      BY <3>1, <3>2 DEF LogTo
  <2>2. HasItem(x, t)
    BY <1>5, <2>1 DEF HasItem, SameItem, WriteOperationLog
  <2> QED
    BY <1>5, <2>1, <2>2, TypeStep, FaultOK DEF WriteOperationLog, env
<1> QED
  BY <1>1, <1>2, <1>3, <1>4, <1>5

LEMMA CommitTypes ==
  ASSUME Typed, NEW q \in Requests, Commit(q)
  PROVE  /\ article' \in [Articles -> States] /\ result' \in [Results -> ResultRow]
         /\ logs' \subseteq Log /\ effects' \in [Requests -> SUBSET Results]
<1> DEFINE t == tx[q]
<1>1. /\ article \in [Articles -> States] /\ result \in [Results -> ResultRow]
      /\ logs \subseteq Log /\ effects \in [Requests -> SUBSET Results]
      /\ TxTypeOK(t)
  BY DEF Typed
<1>2. CASE t.mode # "open"
  BY <1>1, <1>2 DEF Commit, tables
<1>3. CASE t.mode = "open"
  <2>1. /\ article' = [a \in Articles |->
                        IF a \in t.held THEN t.article[a] ELSE article[a]]
        /\ result' = [r \in Results |->
                       IF r \in t.held THEN t.result[r] ELSE result[r]]
        /\ logs' = logs \cup t.logs
        /\ effects' = [effects EXCEPT ![q] = @ \cup t.wrote]
    BY <1>3 DEF Commit
  <2>2. /\ t.article \in [Articles -> States] /\ t.result \in [Results -> ResultRow]
        /\ t.logs \subseteq Log /\ t.wrote \subseteq Results
    BY <1>1, <1>3 DEF Typed, TxTypeOK, Tx
  <2> HIDE DEF t
  <2> QED
    BY <1>1, <2>1, <2>2
<1> QED
  BY <1>2, <1>3

LEMMA ClosingTypes ==
  ASSUME Typed, NEW q \in Requests,
         UpdateResult(q) \/ DeadlockVictim(q) \/ CommitAction(q)
         \/ UpdateActionSummary(q) \/ Crash(q)
  PROVE  Typed'
<1> USE DEF Typed
<1>1. CASE UpdateResult(q)
  <2> DEFINE r == req[q].cur
  <2> HIDE DEF Typed
  <2>1. PICK x \in Request, t \in Tx, row \in ResultRow :
           /\ StepTo(q, x, t) /\ TxTypeOK(t) /\ SameItem(x, req[q])
           /\ t.mode = tx[q].mode
           /\ x.pc = "next" \/ (x.pc = "log" /\ req[q].kind # "offlined")
           /\ counted' = counted \/ counted' = [counted EXCEPT ![q] = @ \cup {r}]
           /\ result' = result \/ result' = [result EXCEPT ![r] = row]
           /\ effects' = effects \/ effects' = [effects EXCEPT ![q] = @ \cup {r}]
    <3>1. PICK x \in Request, t \in Tx, row \in ResultRow : UpdateTo(q, x, t, row)
      BY <1>1, UpdateFacts
    <3> QED
      BY <3>1 DEF UpdateTo
  <2> USE DEF Typed
  <2>2. HasItem(x, t) /\ r \in Results
    BY <1>1, <2>1 DEF HasItem, SameItem, UpdateResult
  <2>3. /\ counted' \in [Requests -> SUBSET Results]
        /\ result' \in [Results -> ResultRow]
        /\ effects' \in [Requests -> SUBSET Results]
    BY <2>1, <2>2
  <2> QED
    BY <1>1, <2>1, <2>2, <2>3, TypeStep, FaultOK DEF UpdateResult, env
<1>2. CASE DeadlockVictim(q)
  <2>1. PICK x \in Request : StepTo(q, x, Outside) /\ x.pc = "next"
    BY <1>2, VictimFacts
  <2>2. HasItem(x, Outside)
    BY <2>1 DEF HasItem
  <2> QED
    BY <1>2, <2>1, <2>2, TypeStep, OutsideOK DEF DeadlockVictim, tables, env
<1>3. CASE CommitAction(q) \/ UpdateActionSummary(q) \/ Crash(q)
  <2>1. PICK x \in Request, t \in {NoTx, tx[q]} :
           StepTo(q, x, t) /\ x.pc \in {"summary", "ended"}
    BY <1>3, EndFacts
  <2>2. HasItem(x, t) /\ t \in Tx /\ TxTypeOK(t)
    BY <2>1, NoTxOK DEF HasItem
  <2>3. /\ article' \in [Articles -> States] /\ result' \in [Results -> ResultRow]
        /\ logs' \subseteq Log /\ effects' \in [Requests -> SUBSET Results]
    BY <1>3, CommitTypes DEF CommitAction, UpdateActionSummary, Crash, tables
  <2>4. action' \in [Requests -> ActionRow]
    <3>1. CASE WriteSummary(q)
      <4>1. /\ req[q].ok \in Nat /\ req[q].fail \in Nat /\ req[q].skip \in Nat
            /\ SummaryStatus(req[q].ok, req[q].fail) \in ActionStatus
        BY DEF Request, SummaryStatus, ActionStatus
      <4> QED
        BY <3>1, <4>1 DEF WriteSummary, ActionRow
    <3>2. CASE UNCHANGED action
      BY <3>2
    <3> QED
      BY <1>3, <3>1, <3>2 DEF CommitAction, UpdateActionSummary, Crash
  <2>5. counted' = counted /\ lost' = lost /\ del' = del /\ edits' = edits
        /\ deletes' = deletes
    BY <1>3 DEF CommitAction, UpdateActionSummary, Crash, env
  <2>6. faults' \in Nat /\ crashes' \in Nat
    BY <1>3, FaultOK DEF CommitAction, UpdateActionSummary, Crash, env
  <2> QED
    BY <2>1, <2>2, <2>3, <2>4, <2>5, <2>6, TypeStep
<1> QED
  BY <1>1, <1>2, <1>3

LEMMA EditTypes ==
  ASSUME Typed, NEW a \in Articles, Edit(a)
  PROVE  Typed'
  BY DEF Typed, Edit

LEMMA DeleteTypes ==
  ASSUME Typed, NEW k \in Tasks, DeleteTask(k) \/ DeleteStep(k)
  PROVE  Typed'
<1>1. NoResult \in ResultRow /\ NoAction \in ActionRow /\ NoDelete \in Delete
  BY DEF NoResult, ResultRow, Dispositions, States, NoAction, ActionRow, ActionStatus,
         NoDelete, Delete
<1>2. del[k] \in Delete /\ [pc |-> "gone", held |-> {}] \in Delete
  BY DEF Typed, Delete
<1>3. CASE DeleteTask(k)
  <2>1. [del[k] EXCEPT !.pc = "results"] \in Delete
    BY <1>2 DEF Delete
  <2> QED
    BY <1>3, <2>1 DEF Typed, DeleteTask, tables
<1>4. CASE DeleteResult(k)
  <2>1. \A r \in Results : [del[k] EXCEPT !.held = @ \cup {r}] \in Delete
    BY <1>2 DEF Delete
  <2>2. del' \in [Tasks -> Delete]
    BY <1>4, <2>1 DEF Typed, DeleteResult
  <2> QED
    BY <1>4, <2>2 DEF Typed, DeleteResult, tables
<1>5. CASE DeleteLogs(k)
  <2>1. [del[k] EXCEPT !.pc = "logs"] \in Delete
    BY <1>2 DEF Delete
  <2> QED
    BY <1>5, <2>1 DEF Typed, DeleteLogs, tables
<1>6. CASE CommitDelete(k)
  BY <1>1, <1>2, <1>6 DEF Typed, CommitDelete
<1>7. CASE AbortDelete(k)
  BY <1>1, <1>7, FaultOK DEF Typed, AbortDelete, tables
<1> QED
  BY <1>3, <1>4, <1>5, <1>6, <1>7 DEF DeleteStep

LEMMA InitTypes == Init => Typed
<1> SUFFICES ASSUME Init PROVE Typed
  OBVIOUS
<1>1. /\ Idle \in Request /\ NoAction \in ActionRow
      /\ [disp |-> "pending", state |-> "online"] \in ResultRow
  BY DEF Idle, Request, PCs, Dispositions, NoAction, ActionRow, ActionStatus,
         ResultRow, States
<1>2. HasItem(Idle, NoTx)
  BY DEF HasItem, Idle
<1>3. NoDelete \in Delete
  BY DEF NoDelete, Delete
<1>4. article \in [Articles -> States]
  BY DispositionAssumption DEF Init, States
<1> QED
  BY <1>1, <1>2, <1>3, <1>4, NoTxOK DEF Init, Typed

-----------------------------------------------------------------------------
(* Offline batches.  While nobody else changes articles an article that is *)
(* offline stays so; what a transaction t holds for offline is offline at  *)
(* COMMIT, and so is the article of every result it holds for offlined.    *)
OffOK(x, t, A) ==
  /\ t.mode = "open" =>
       /\ \A a \in Articles \cap t.held : t.article[a] = "offline"
       /\ \A a \in Articles : t.article[a] \in Off => a \in t.held \/ A[a] \in Off
       /\ \A r \in Results \cap t.held : t.result[r].disp = "offlined" =>
            t.article[ArticleOf[r]] \in Off
  /\ x.kind = "offlined" /\ x.pc \in {"log", "update"} =>
       IF t.mode = "open" THEN t.article[ArticleOf[x.cur]] \in Off
                          ELSE A[ArticleOf[x.cur]] \in Off

RowsOff(R, A) ==
  \A r \in Results : R[r].disp = "offlined" => A[ArticleOf[r]] \in Off

OffInv == edits = 0 =>
  RowsOff(result, article) /\ \A q \in Requests : OffOK(req[q], tx[q], article)

StaysOff(A, B) == \A a \in Articles : A[a] \in Off => B[a] \in Off

LEMMA OffKept ==
  ASSUME NEW x, NEW t, NEW A, NEW B, OffOK(x, t, A), HasItem(x, t), StaysOff(A, B)
  PROVE  OffOK(x, t, B)
  BY DispositionAssumption DEF OffOK, HasItem, StaysOff

LEMMA NoTxOff ==
  ASSUME NEW x, NEW t, NEW A, t.mode # "open", x.pc \notin {"log", "update"}
  PROVE  OffOK(x, t, A)
  BY DEF OffOK

LEMMA OffStep ==
  ASSUME Typed, OffInv, UNCHANGED edits, NEW q \in Requests, NEW x, NEW t,
         StepTo(q, x, t),
         edits = 0 => /\ StaysOff(article, article') /\ OffOK(x, t, article')
                      /\ RowsOff(result', article')
  PROVE  OffInv'
<1> SUFFICES ASSUME edits = 0
             PROVE  /\ RowsOff(result', article')
                    /\ \A p \in Requests : OffOK(req'[p], tx'[p], article')
  BY DEF OffInv
<1>1. ASSUME NEW p \in Requests PROVE OffOK(req'[p], tx'[p], article')
  <2>1. CASE p = q
    BY <2>1, Stepped
  <2>2. CASE p # q
    <3>1. OffOK(req[p], tx[p], article) /\ HasItem(req[p], tx[p])
      BY DEF OffInv, Typed
    <3>2. req'[p] = req[p] /\ tx'[p] = tx[p]
      BY <2>2, Stepped
    <3> QED
      BY <3>1, <3>2, OffKept
  <2> QED
    BY <2>1, <2>2
<1> QED
  BY <1>1

LEMMA SameOff == ASSUME NEW A PROVE StaysOff(A, A)
  BY DEF StaysOff

LEMMA ReadOff ==
  ASSUME Typed, OffInv, NEW q \in Requests,
         CreateAction(q) \/ ReadResult(q) \/ ReadArticle(q)
  PROVE  OffInv'
<1> DEFINE y == req[q]
           u == tx[q]
<1>1. /\ UNCHANGED <<article, result, edits>> /\ u \in Tx /\ TxTypeOK(u)
      /\ HasItem(y, u)
      /\ edits = 0 => OffOK(y, u, article) /\ RowsOff(result, article)
  BY DEF CreateAction, ReadResult, ReadArticle, tables, env, Typed, OffInv
<1>2. CASE CreateAction(q)
  <2>1. PICK x \in Request : StepTo(q, x, u) /\ x.pc = "next"
    BY <1>2, CreateFacts
  <2>2. edits = 0 => OffOK(x, u, article)
    BY <1>1, <2>1 DEF OffOK
  <2> QED
    BY <1>1, <2>1, <2>2, OffStep, SameOff
<1>3. CASE ReadResult(q)
  <2>1. PICK r \in Results, x \in Request, t \in Tx :
           /\ StepTo(q, x, t)
           /\ \/ x.pc = "next"
              \/ x.pc = "article" /\ x.kind = "offlined"
              \/ x.pc = "log" /\ x.log = "skipped" /\ x.kind # "offlined"
              \/ x.pc = "update" /\ x.kind # "offlined"
           /\ t.held = u.held
           /\ \/ t = u
              \/ /\ u.mode = "none" /\ t.mode = "open"
                 /\ t.article = article /\ t.result = result
    BY <1>3, ReadFacts
  <2>2. ASSUME edits = 0 PROVE OffOK(x, t, article)
    <3>1. u.mode = "none" => t.held = {}
      BY <1>1, <2>1 DEF TxTypeOK
    <3> QED
      BY <1>1, <2>1, <2>2, <3>1 DEF OffOK
  <2> QED
    BY <1>1, <2>1, <2>2, OffStep, SameOff
<1>4. CASE ReadArticle(q)
  <2>1. PICK x \in Request :
           /\ StepTo(q, x, u) /\ SameItem(x, y)
           /\ \/ x.pc \in {"next", "state"}
              \/ x.pc = "log" /\ ArticleSeen(q, ArticleOf[y.cur]) \in Off
    BY <1>4, ReadArticleFacts
  <2>2. edits = 0 => OffOK(x, u, article)
    BY <1>1, <2>1 DEF OffOK, SameItem, ArticleSeen
  <2> QED
    BY <1>1, <2>1, <2>2, OffStep, SameOff
<1> QED
  BY <1>2, <1>3, <1>4

LEMMA OfflineOff ==
  ASSUME Typed, OffInv, NEW q \in Requests, OfflineArticle(q)
  PROVE  OffInv'
<1> DEFINE y == req[q]
           u == tx[q]
           a == ArticleOf[y.cur]
<1>1. /\ UNCHANGED <<result, edits>> /\ u \in Tx /\ TxTypeOK(u) /\ a \in Articles
      /\ edits = 0 => OffOK(y, u, article) /\ RowsOff(result, article)
      /\ article \in [Articles -> States] /\ a \notin Results
  BY DispositionAssumption DEF OfflineArticle, Typed, OffInv, HasItem, env
<1>2. PICK x \in Request, t \in Tx :
           /\ StepTo(q, x, t) /\ SameItem(x, y) /\ t.mode = u.mode
           /\ \/ x.pc = "next" /\ t = u /\ UNCHANGED article
              \/ /\ x.pc = "log" /\ u.mode = "open" /\ UNCHANGED article
                 /\ t.article = [u.article EXCEPT ![a] = "offline"]
                 /\ t.held = u.held \cup {a} /\ t.result = u.result
              \/ /\ x.pc = "log" /\ u.mode = "auto" /\ t = u
                 /\ article' = [article EXCEPT ![a] = "offline"]
  BY OfflineFacts
<1>3. StaysOff(article, article')
  BY <1>1, <1>2 DEF StaysOff, Off
<1>4. edits = 0 => RowsOff(result', article')
  BY <1>1, <1>3, DispositionAssumption DEF RowsOff, StaysOff
<1>5. ASSUME edits = 0 PROVE OffOK(x, t, article')
  <2>1. CASE x.pc = "next" /\ t = u /\ UNCHANGED article
    BY <1>1, <1>5, <2>1 DEF OffOK
  <2>2. CASE /\ x.pc = "log" /\ u.mode = "open" /\ UNCHANGED article
             /\ t.article = [u.article EXCEPT ![a] = "offline"]
             /\ t.held = u.held \cup {a} /\ t.result = u.result
    <3>1. u.article \in [Articles -> States]
      BY <1>1, <2>2 DEF TxTypeOK
    <3>2. /\ t.article[a] = "offline"
          /\ \A b \in Articles : b # a => t.article[b] = u.article[b]
      BY <1>1, <2>2, <3>1
    <3>3. \A r \in Results : ArticleOf[r] \in Articles
      BY DispositionAssumption
    <3>4. OffOK(y, u, article)
      BY <1>1, <1>5
    <3>5. \A b \in Articles \cap t.held : t.article[b] = "offline"
      BY <2>2, <3>2, <3>4 DEF OffOK
    <3>6. \A b \in Articles : t.article[b] \in Off => b \in t.held \/ article'[b] \in Off
      BY <2>2, <3>2, <3>4 DEF OffOK
    <3>7. \A r \in Results \cap t.held : t.result[r].disp = "offlined" =>
            t.article[ArticleOf[r]] \in Off
      BY <1>1, <2>2, <3>2, <3>3, <3>4 DEF OffOK, Off
    <3>8. x.cur = y.cur /\ t.article[ArticleOf[x.cur]] \in Off /\ t.mode = "open"
      BY <1>2, <2>2, <3>2 DEF SameItem, Off
    <3> QED
      BY <3>5, <3>6, <3>7, <3>8 DEF OffOK
  <2>3. CASE /\ x.pc = "log" /\ u.mode = "auto" /\ t = u
             /\ article' = [article EXCEPT ![a] = "offline"]
    <3>1. article'[a] \in Off /\ x.cur = y.cur
      BY <1>1, <1>2, <2>3 DEF Off, SameItem
    <3> QED
      BY <2>3, <3>1 DEF OffOK
  <2> QED
    BY <1>2, <2>1, <2>2, <2>3
<1> QED
  BY <1>1, <1>2, <1>3, <1>4, <1>5, OffStep

LEMMA LogOff ==
  ASSUME Typed, OffInv, NEW q \in Requests, WriteOperationLog(q)
  PROVE  OffInv'
<1> DEFINE y == req[q]
           u == tx[q]
<1>1. /\ UNCHANGED <<article, result, edits>> /\ u \in Tx /\ TxTypeOK(u)
      /\ edits = 0 => OffOK(y, u, article) /\ RowsOff(result, article)
      /\ y.pc = "log"
  BY DEF WriteOperationLog, Typed, OffInv, env
<1>2. PICK x \in Request, t \in Tx : LogTo(q, x, t)
  BY LogFacts
<1>3.   /\ StepTo(q, x, t) /\ SameItem(x, y)
        /\ \/ x.pc \in {"next", "ended"} /\ t = NoTx
           \/ /\ x.pc \in {"update", "next"}
              /\ t.mode = u.mode /\ t.held = u.held /\ t.article = u.article
              /\ t.result = u.result
  <2>1. \A L : LET v == [u EXCEPT !.logs = L] IN
               /\ v.mode = u.mode /\ v.held = u.held /\ v.article = u.article
               /\ v.result = u.result
    BY <1>1 DEF Tx
  <2> QED
    BY <1>2, <2>1 DEF LogTo
<1>4. edits = 0 => OffOK(x, t, article)
  BY <1>1, <1>3 DEF OffOK, SameItem, NoTx
<1> QED
  BY <1>1, <1>3, <1>4, OffStep, SameOff

LEMMA UpdateOff ==
  ASSUME Typed, OffInv, NEW q \in Requests, UpdateResult(q)
  PROVE  OffInv'
<1> DEFINE y == req[q]
           u == tx[q]
           r == y.cur
<1>1. /\ UNCHANGED <<article, edits>> /\ u \in Tx /\ TxTypeOK(u) /\ r \in Results
      /\ r \notin Articles /\ y.pc = "update" /\ result \in [Results -> ResultRow]
      /\ edits = 0 => OffOK(y, u, article) /\ RowsOff(result, article)
  BY DispositionAssumption DEF UpdateResult, Typed, OffInv, HasItem, env
<1>0. PICK x \in Request, t \in Tx, row \in ResultRow : UpdateTo(q, x, t, row)
  BY UpdateFacts
<1>2.   /\ StepTo(q, x, t) /\ SameItem(x, y) /\ row.disp = y.kind
        /\ x.pc = "next" \/ (x.pc = "log" /\ y.kind # "offlined")
        /\ \/ t = u /\ UNCHANGED result
           \/ /\ u.mode = "open" /\ t.mode = "open" /\ UNCHANGED result
              /\ t.result = [u.result EXCEPT ![r] = row]
              /\ t.held = u.held \cup {r} /\ t.article = u.article
           \/ /\ u.mode = "auto" /\ t = u
              /\ result' = [result EXCEPT ![r] = row]
  BY <1>0 DEF UpdateTo
<1>3. ASSUME edits = 0 PROVE OffOK(x, t, article) /\ RowsOff(result', article)
  <2>1. x.kind = y.kind /\ OffOK(y, u, article) /\ RowsOff(result, article)
    BY <1>1, <1>2, <1>3 DEF SameItem
  <2>2. CASE t = u /\ UNCHANGED result
    BY <1>2, <2>1, <2>2 DEF OffOK
  <2>3. CASE /\ u.mode = "open" /\ t.mode = "open" /\ UNCHANGED result
             /\ t.result = [u.result EXCEPT ![r] = row]
             /\ t.held = u.held \cup {r} /\ t.article = u.article
    <3>1. u.result \in [Results -> ResultRow]
      BY <1>1, <2>3 DEF TxTypeOK
    <3>2. /\ t.result[r].disp = y.kind
          /\ \A s \in Results : s # r => t.result[s] = u.result[s]
      BY <1>1, <1>2, <2>3, <3>1
    <3>3. y.kind = "offlined" => t.article[ArticleOf[r]] \in Off
      BY <1>1, <2>1, <2>3 DEF OffOK
    <3>4. \A s \in Results \cap t.held : t.result[s].disp = "offlined" =>
            t.article[ArticleOf[s]] \in Off
      BY <2>1, <2>3, <3>2, <3>3 DEF OffOK
    <3> QED
      BY <1>1, <1>2, <2>1, <2>3, <3>4 DEF OffOK
  <2>4. CASE u.mode = "auto" /\ t = u /\ result' = [result EXCEPT ![r] = row]
    <3>1. y.kind = "offlined" => article[ArticleOf[r]] \in Off
      BY <1>1, <2>1, <2>4 DEF OffOK
    <3>2. RowsOff(result', article)
      BY <1>1, <1>2, <2>1, <2>4, <3>1 DEF RowsOff
    <3> QED
      BY <1>2, <2>1, <2>4, <3>2 DEF OffOK
  <2> QED
    BY <1>2, <2>2, <2>3, <2>4
<1> QED
  BY <1>1, <1>2, <1>3, OffStep, SameOff

LEMMA EndOff ==
  ASSUME Typed, OffInv, NEW q \in Requests,
         CommitAction(q) \/ UpdateActionSummary(q) \/ Crash(q) \/ DeadlockVictim(q)
  PROVE  OffInv'
<1> DEFINE u == tx[q]
<1>1. /\ UNCHANGED edits /\ u \in Tx /\ TxTypeOK(u) /\ article \in [Articles -> States]
      /\ edits = 0 => OffOK(req[q], u, article) /\ RowsOff(result, article)
      /\ HasItem(req[q], u)
  BY DEF CommitAction, UpdateActionSummary, Crash, DeadlockVictim, env, Typed, OffInv
<1>2. CASE Commit(q) /\ CommitAction(q)
  <2>1. PICK x \in Request, t \in {NoTx, u} :
           StepTo(q, x, t) /\ t = NoTx /\ x.pc \in {"summary", "ended"}
    <3>1. ~UpdateActionSummary(q)
      BY <1>2 DEF CommitAction, UpdateActionSummary
    <3> QED
      BY <1>2, <3>1, EndFacts
  <2>2. OffOK(x, t, article')
    BY <2>1, NoTxOff DEF NoTx
  <2>3. CASE u.mode # "open"
    <3>1. UNCHANGED <<article, result>>
      BY <1>2, <2>3 DEF Commit, tables
    <3> QED
      BY <1>1, <2>1, <2>2, <3>1, OffStep, SameOff
  <2>4. CASE u.mode = "open"
    <3>1. /\ article' = [a \in Articles |->
                           IF a \in u.held THEN u.article[a] ELSE article[a]]
          /\ result' = [r \in Results |->
                           IF r \in u.held THEN u.result[r] ELSE result[r]]
      BY <1>2, <2>4 DEF Commit
    <3>2. ASSUME edits = 0
          PROVE  StaysOff(article, article') /\ RowsOff(result', article')
      <4>1. OffOK(req[q], u, article) /\ RowsOff(result, article)
        BY <1>1, <3>2
      <4>2. StaysOff(article, article')
        BY <2>4, <3>1, <4>1 DEF StaysOff, OffOK, Off
      <4>3. ASSUME NEW r \in Results, result'[r].disp = "offlined"
            PROVE  article'[ArticleOf[r]] \in Off
        <5> DEFINE a == ArticleOf[r]
        <5>1. a \in Articles
          BY DispositionAssumption
        <5>2. CASE r \in u.held
          <6>1. u.article[a] \in Off
            BY <2>4, <3>1, <4>1, <4>3, <5>2 DEF OffOK
          <6> QED
            BY <2>4, <3>1, <4>1, <5>1, <6>1 DEF OffOK
        <5>3. CASE r \notin u.held
          <6>1. article[a] \in Off
            BY <3>1, <4>1, <4>3, <5>3 DEF RowsOff
          <6> QED
            BY <4>2, <5>1, <6>1 DEF StaysOff
        <5> QED
          BY <5>2, <5>3
      <4> QED
        BY <4>2, <4>3 DEF RowsOff
    <3> QED
      BY <1>1, <2>1, <2>2, <3>2, OffStep
  <2> QED
    BY <2>3, <2>4
<1>3. CASE ~(Commit(q) /\ CommitAction(q)) /\ ~DeadlockVictim(q)
  <2>1. PICK x \in Request, t \in {NoTx, u} : StepTo(q, x, t) /\ x.pc = "ended"
    BY <1>3, EndFacts
  <2>2. UNCHANGED <<article, result>>
    BY <1>3 DEF CommitAction, UpdateActionSummary, Crash, tables
  <2>3. edits = 0 => OffOK(x, t, article)
    BY <1>1, <2>1 DEF OffOK, NoTx
  <2> QED
    BY <1>1, <2>1, <2>2, <2>3, OffStep, SameOff
<1>4. CASE DeadlockVictim(q)
  <2>1. PICK x \in Request : StepTo(q, x, Outside) /\ x.pc = "next"
    BY <1>4, VictimFacts
  <2>2. UNCHANGED <<article, result>>
    BY <1>4 DEF DeadlockVictim, tables
  <2>3. OffOK(x, Outside, article)
    BY <2>1, OutsideOK, NoTxOff
  <2> QED
    BY <1>1, <2>1, <2>2, <2>3, OffStep, SameOff
<1> QED
  BY <1>2, <1>3, <1>4

LEMMA OtherOff ==
  ASSUME Typed, OffInv,
         \/ \E a \in Articles : Edit(a)
         \/ \E k \in Tasks : DeleteTask(k) \/ DeleteStep(k)
  PROVE  OffInv'
<1>1. CASE \E a \in Articles : Edit(a)
  <2>1. edits' # 0
    BY <1>1 DEF Typed, Edit
  <2> QED
    BY <2>1 DEF OffInv
<1>2. CASE \E k \in Tasks : CommitDelete(k)
  BY <1>2 DEF Typed, OffInv, CommitDelete, RowsOff, NoResult
<1>3. CASE \E k \in Tasks : DeleteTask(k) \/ DeleteResult(k) \/ DeleteLogs(k)
                           \/ AbortDelete(k)
  BY <1>3 DEF OffInv, DeleteTask, DeleteResult, DeleteLogs, AbortDelete, tables
<1> QED
  BY <1>1, <1>2, <1>3 DEF DeleteStep

LEMMA InitOff == Init => OffInv
  BY DEF Init, OffInv, RowsOff, OffOK, NoTx, Idle

-----------------------------------------------------------------------------
(* Rows and locks.  A row that a transaction holds is there, and no delete *)
(* holds it too; a delete holds the lowest rows of its task, and all of    *)
(* them before it goes on to the logs.                                     *)
Absent(R, r) == R[r].disp = "absent"

HeldOK(q, t, R) ==
  /\ \A y \in Results \cap t.held : ~Absent(R, y) /\ ~Absent(t.result, y)
  /\ \A l \in t.logs : l.by = q

DeleteOK(k, d, n, R) ==
  /\ d.pc # "idle" => n # 0
  /\ d.held # {} => d.pc \in {"results", "logs"}
  /\ \A r \in d.held : TaskOf[r] = k /\ ~Absent(R, r)
  /\ \A s \in Results : TaskOf[s] = k /\ ~Absent(R, s) =>
       /\ d.pc = "logs" => s \in d.held
       /\ \A r \in d.held : s < r => s \in d.held

LockInv ==
  /\ \A q \in Requests : HeldOK(q, tx[q], result)
  /\ \A k \in Tasks : DeleteOK(k, del[k], deletes, result)
  /\ \A q \in Requests, k \in Tasks : tx[q].held \cap del[k].held = {}

(* Ignore and process batches: a request has written only results of its   *)
(* list below the one it waits for, and counted each of them once.         *)
Loop == {"next", "log", "update"}
Marking(x) == x.kind # "offlined"

OrderOK(x, t, C) ==
  /\ x.pc \notin {"article", "state"} /\ t.held = t.wrote
  /\ x.pc = "idle" => C = {} /\ t.mode = "none"
  /\ t.wrote \subseteq x.ids /\ x.todo \subseteq x.ids
  /\ x.pc \in {"log", "update"} => x.cur \in x.ids
  /\ \A y \in t.wrote \cup C : y <= x.cur /\ (x.pc = "update" => y < x.cur)
  /\ x.pc \in Loop => \A y \in x.todo : x.cur < y
  /\ IsFiniteSet(C) /\ x.ok = Cardinality(C)

OrderInv == \A q \in Requests : Marking(req[q]) => OrderOK(req[q], tx[q], counted[q])

(* Until a deadlock takes its transaction away, what a request has written *)
(* is logged in the same transaction.                                      *)
LogOK(x, t, R) ==
  /\ t.mode # "auto"
  /\ x.pc = "update" => x.log = "success"
  /\ \A y \in t.wrote : \/ x.pc = "log" /\ x.log = "success" /\ x.cur = y
                        \/ \E l \in t.logs : l.of = y /\ l.status = "success"
  /\ \A l \in t.logs : l.status = "success" => l.of \in t.wrote \/ Absent(R, l.of)
  /\ x.pc = "log" /\ x.log = "success" => x.cur \in t.wrote \/ Absent(R, x.cur)

LoggedOK(q, E, L, R) ==
  /\ \A r \in E : Absent(R, r) \/ \E l \in L : l.by = q /\ l.of = r /\ l.status = "success"
  /\ \A l \in L : l.by = q /\ l.status = "success" => l.of \in E \/ Absent(R, l.of)

LogInv == \A q \in Requests \ lost : Marking(req[q]) =>
  LogOK(req[q], tx[q], result) /\ LoggedOK(q, effects[q], logs, result)

(* Where batches and deletes are apart, what was counted is in the          *)
(* transaction, in the table, or deleted.                                   *)
CountOK(x, t, a, C, E, R) ==
  /\ x.pc \in Loop => \A y \in C : y \in t.wrote \/ y \in E \/ Absent(R, y)
  /\ a.status \notin {"none", "running"} => x.pc = "ended" /\ a.ok = Cardinality(C)
  /\ x.pc = "summary" \/ a.status \notin {"none", "running"} =>
       \A y \in C : y \in E \/ Absent(R, y)

SumInv == OnlyMarks /\ Apart => \A q \in Requests :
  CountOK(req[q], tx[q], action[q], counted[q], effects[q], result)

NoLoss == OnlyMarks /\ deletes = 0 => lost = {}

MarkInv == LockInv /\ OrderInv /\ LogInv /\ SumInv /\ NoLoss

-----------------------------------------------------------------------------
(* Requests neither add nor remove rows; a delete only removes them. *)
StaysAbsent(R, S) == \A r \in Results : Absent(R, r) => Absent(S, r)
SameRows(R, S) == \A r \in Results : Absent(R, r) <=> Absent(S, r)

LEMMA LogKept ==
  ASSUME NEW x, NEW t, NEW R, NEW S, t.logs \subseteq Log, HasItem(x, t),
         LogOK(x, t, R), StaysAbsent(R, S)
  PROVE  LogOK(x, t, S)
<1>1. x.pc = "log" => x.cur \in Results
  BY DEF HasItem
<1>2. \A l \in t.logs : l.of \in Results
  BY DEF Log
<1> QED
  BY <1>1, <1>2 DEF LogOK, StaysAbsent

LEMMA CountKept ==
  ASSUME NEW x, NEW t, NEW a, NEW C \in SUBSET Results, NEW E, NEW R, NEW S,
         CountOK(x, t, a, C, E, R), StaysAbsent(R, S)
  PROVE  CountOK(x, t, a, C, E, S)
  BY DEF CountOK, StaysAbsent

LEMMA LoggedKept ==
  ASSUME NEW q, NEW E \in SUBSET Results, NEW L, L \subseteq Log, NEW R, NEW S, NEW M,
         L \subseteq M, \A l \in M \ L : l.by # q,
         LoggedOK(q, E, L, R), StaysAbsent(R, S)
  PROVE  LoggedOK(q, E, M, S)
<1>1. \A l \in L : l.of \in Results
  BY DEF Log
<1> QED
  BY <1>1 DEF LoggedOK, StaysAbsent

LEMMA HeldKept ==
  ASSUME NEW q, NEW t, NEW R, NEW S, HeldOK(q, t, R),
         \A y \in Results \cap t.held : ~Absent(S, y)
  PROVE  HeldOK(q, t, S)
  BY DEF HeldOK

LEMMA DeleteKept ==
  ASSUME NEW k, NEW d \in Delete, NEW n, NEW R, NEW S, DeleteOK(k, d, n, R),
         \A r \in Results : TaskOf[r] = k => (Absent(R, r) <=> Absent(S, r))
  PROVE  DeleteOK(k, d, n, S)
<1>1. d.held \subseteq Results
  BY DEF Delete
<1> QED
  BY <1>1 DEF DeleteOK

(* What a step of request q, to x and t, leaves as it should be. *)
LEMMA LockStep ==
  ASSUME Typed, LockInv, NEW q \in Requests, NEW x, NEW t \in Tx, StepTo(q, x, t),
         UNCHANGED <<del, deletes>>, SameRows(result, result'),
         HeldOK(q, t, result), \A k \in Tasks : t.held \cap del[k].held = {}
  PROVE  LockInv'
<1>1. ASSUME NEW p \in Requests PROVE HeldOK(p, tx'[p], result')
  <2>1. HeldOK(p, tx'[p], result)
    BY Stepped DEF LockInv
  <2> QED
    BY <2>1, HeldKept DEF SameRows, HeldOK
<1>2. ASSUME NEW k \in Tasks PROVE DeleteOK(k, del'[k], deletes', result')
  <2>1. del[k] \in Delete /\ DeleteOK(k, del[k], deletes, result)
    BY DEF Typed, LockInv
  <2>2. \A r \in Results : TaskOf[r] = k => (Absent(result, r) <=> Absent(result', r))
    BY DEF SameRows
  <2> QED
    BY <2>1, <2>2, DeleteKept
<1>3. ASSUME NEW p \in Requests, NEW k \in Tasks PROVE tx'[p].held \cap del'[k].held = {}
  BY Stepped DEF LockInv
<1> QED
  BY <1>1, <1>2, <1>3 DEF LockInv

LEMMA OrderStep ==
  ASSUME Typed, OrderInv, NEW q \in Requests, NEW x, NEW t, StepTo(q, x, t),
         \A p \in Requests \ {q} : counted'[p] = counted[p],
         Marking(x) => OrderOK(x, t, counted'[q])
  PROVE  OrderInv'
<1>1. ASSUME NEW p \in Requests, Marking(req'[p])
      PROVE  OrderOK(req'[p], tx'[p], counted'[p])
  <2>1. CASE p = q
    BY <1>1, <2>1, Stepped
  <2>2. CASE p # q
    <3>1. req'[p] = req[p] /\ tx'[p] = tx[p] /\ counted'[p] = counted[p]
      BY <2>2, Stepped
    <3> QED
      BY <1>1, <3>1 DEF OrderInv
  <2> QED
    BY <2>1, <2>2
<1> QED
  BY <1>1 DEF OrderInv

LEMMA LogStep ==
  ASSUME Typed, LogInv, NEW q \in Requests, NEW x, NEW t, StepTo(q, x, t),
         SameRows(result, result'), lost \subseteq lost',
         logs \subseteq logs', \A l \in logs' \ logs : l.by = q,
         \A p \in Requests \ {q} : effects'[p] = effects[p],
         Marking(x) /\ q \notin lost' =>
           LogOK(x, t, result') /\ LoggedOK(q, effects'[q], logs', result')
  PROVE  LogInv'
<1>1. ASSUME NEW p \in Requests \ lost', Marking(req'[p])
      PROVE  LogOK(req'[p], tx'[p], result') /\ LoggedOK(p, effects'[p], logs', result')
  <2>1. CASE p = q
    BY <1>1, <2>1, Stepped
  <2>2. CASE p # q
    <3>1. req'[p] = req[p] /\ tx'[p] = tx[p] /\ effects'[p] = effects[p]
      BY <2>2, Stepped
    <3>2. LogOK(req[p], tx[p], result) /\ LoggedOK(p, effects[p], logs, result)
      BY <1>1, <3>1 DEF LogInv
    <3>3. /\ TxTypeOK(tx[p]) /\ HasItem(req[p], tx[p]) /\ logs \subseteq Log
          /\ effects[p] \in SUBSET Results
      BY DEF Typed
    <3>4. StaysAbsent(result, result') /\ tx[p].logs \subseteq Log
      BY <3>3 DEF SameRows, StaysAbsent, TxTypeOK
    <3>5. LogOK(req[p], tx[p], result')
      BY <3>2, <3>3, <3>4, LogKept
    <3>6. \A l \in logs' \ logs : l.by # p
      BY <2>2
    <3>7. LoggedOK(p, effects[p], logs', result')
      BY <3>2, <3>3, <3>4, <3>6, LoggedKept
    <3> QED
      BY <3>1, <3>5, <3>7
  <2> QED
    BY <2>1, <2>2
<1> QED
  BY <1>1 DEF LogInv

(* A request keeps its kind and its ids once it has begun. *)
KeepsTask(x, y) == \/ x.kind = y.kind /\ x.ids = y.ids
                   \/ y.kind # "offlined" /\ y.ids = {}

LEMMA ApartKept ==
  ASSUME Typed, NEW q \in Requests, NEW x, NEW t, StepTo(q, x, t),
         KeepsTask(x, req[q]), UNCHANGED deletes
  PROVE  (OnlyMarks' => OnlyMarks) /\ (Apart' => Apart)
<1>1. ASSUME NEW p \in Requests
      PROVE  /\ req'[p].kind # "offlined" => req[p].kind # "offlined"
             /\ OneTask(p)' => OneTask(p)
  <2>1. KeepsTask(req'[p], req[p])
    BY Stepped DEF KeepsTask
  <2> QED
    BY <2>1 DEF KeepsTask, OneTask
<1> QED
  BY <1>1 DEF OnlyMarks, Apart

LEMMA SumStep ==
  ASSUME Typed, SumInv, NEW q \in Requests, NEW x, NEW t, StepTo(q, x, t),
         KeepsTask(x, req[q]), UNCHANGED deletes, SameRows(result, result'),
         \A p \in Requests \ {q} : /\ counted'[p] = counted[p] /\ action'[p] = action[p]
                                   /\ effects'[p] = effects[p],
         OnlyMarks /\ Apart =>
           CountOK(x, t, action'[q], counted'[q], effects'[q], result')
  PROVE  SumInv'
<1> SUFFICES ASSUME OnlyMarks', Apart', NEW p \in Requests
             PROVE  CountOK(req'[p], tx'[p], action'[p], counted'[p], effects'[p], result')
  BY DEF SumInv
<1>1. OnlyMarks /\ Apart
  BY ApartKept
<1>2. CASE p = q
  BY <1>1, <1>2, Stepped
<1>3. CASE p # q
  <2>1. /\ req'[p] = req[p] /\ tx'[p] = tx[p] /\ counted'[p] = counted[p]
        /\ action'[p] = action[p] /\ effects'[p] = effects[p]
    BY <1>3, Stepped
  <2>2. CountOK(req[p], tx[p], action[p], counted[p], effects[p], result)
    BY <1>1 DEF SumInv
  <2>3. StaysAbsent(result, result') /\ counted[p] \in SUBSET Results
    BY DEF SameRows, StaysAbsent, Typed
  <2> QED
    BY <2>1, <2>2, <2>3, CountKept
<1> QED
  BY <1>2, <1>3

LEMMA LossStep ==
  ASSUME Typed, NoLoss, NEW q \in Requests, NEW x, NEW t, StepTo(q, x, t),
         KeepsTask(x, req[q]), UNCHANGED <<deletes, lost>>
  PROVE  NoLoss'
  BY ApartKept DEF NoLoss

(* Steps of offline batches and of ignore and process batches, put together. *)
LEMMA MarkStep ==
  ASSUME Typed, MarkInv, NEW q \in Requests, NEW x \in Request, NEW t \in Tx,
         StepTo(q, x, t), UNCHANGED <<del, deletes, lost>>, KeepsTask(x, req[q]),
         SameRows(result, result'),
         HeldOK(q, t, result), \A k \in Tasks : t.held \cap del[k].held = {},
         logs \subseteq logs', \A l \in logs' \ logs : l.by = q,
         \A p \in Requests \ {q} : /\ counted'[p] = counted[p] /\ action'[p] = action[p]
                                   /\ effects'[p] = effects[p],
         Marking(x) => OrderOK(x, t, counted'[q]),
         Marking(x) /\ q \notin lost =>
           LogOK(x, t, result') /\ LoggedOK(q, effects'[q], logs', result'),
         OnlyMarks /\ Apart =>
           CountOK(x, t, action'[q], counted'[q], effects'[q], result')
  PROVE  MarkInv'
<1>1. LockInv'
  BY LockStep DEF MarkInv
<1>2. OrderInv'
  BY OrderStep DEF MarkInv
<1>3. LogInv'
  BY LogStep DEF MarkInv
<1>4. SumInv'
  BY SumStep DEF MarkInv
<1>5. NoLoss'
  BY LossStep DEF MarkInv
<1> QED
  BY <1>1, <1>2, <1>3, <1>4, <1>5 DEF MarkInv

(* The same for a step that leaves the tables alone. *)
LEMMA LocalMark ==
  ASSUME Typed, MarkInv, NEW q \in Requests, NEW x \in Request, NEW t \in Tx,
         StepTo(q, x, t), UNCHANGED <<del, deletes, lost, result, logs, effects>>,
         KeepsTask(x, req[q]),
         HeldOK(q, t, result), \A k \in Tasks : t.held \cap del[k].held = {},
         \A p \in Requests \ {q} : counted'[p] = counted[p] /\ action'[p] = action[p],
         Marking(x) => OrderOK(x, t, counted'[q]),
         Marking(x) /\ q \notin lost => LogOK(x, t, result) /\ Marking(req[q]),
         OnlyMarks /\ Apart => CountOK(x, t, action'[q], counted'[q], effects[q], result)
  PROVE  MarkInv'
<1>1. SameRows(result, result')
  BY DEF SameRows
<1>2. Marking(x) /\ q \notin lost => LoggedOK(q, effects[q], logs, result)
  BY DEF MarkInv, LogInv
<1> QED
  BY <1>1, <1>2, MarkStep

LEMMA SameLocks ==
  ASSUME Typed, MarkInv, NEW q \in Requests, NEW t,
         \/ t.held = {} /\ t.logs = {}
         \/ /\ t.held = tx[q].held /\ t.result = tx[q].result
            /\ \A l \in t.logs : l.by = q
  PROVE  HeldOK(q, t, result) /\ \A k \in Tasks : t.held \cap del[k].held = {}
<1>1. HeldOK(q, tx[q], result) /\ \A k \in Tasks : tx[q].held \cap del[k].held = {}
  BY DEF MarkInv, LockInv
<1> QED
  BY <1>1 DEF HeldOK

-----------------------------------------------------------------------------
(* Deadlocks.  Of the members of a deadlock that have written something,   *)
(* the one that waits for the greatest result waits for nobody: a request  *)
(* that holds it waits for a greater one, and a delete that holds it holds *)
(* the lower results of the task too.                                      *)
LEMMA NothingWritten ==
  ASSUME Typed, MarkInv, OnlyMarks, Apart,
         NEW S \in SUBSET Requests, NEW D \in SUBSET Tasks, Deadlocked(S, D),
         NEW q \in S
  PROVE  tx[q].wrote = {}
<1> SUFFICES ASSUME tx[q].wrote # {} PROVE FALSE
  OBVIOUS
<1> DEFINE W == {p \in S : tx[p].wrote # {}}
           T == {req[p].cur : p \in W}
<1>1. \A p \in Requests : OrderOK(req[p], tx[p], counted[p])
  BY DEF MarkInv, OrderInv, OnlyMarks, Marking
<1>2. ASSUME NEW p \in S
      PROVE  req[p].pc = "update" /\ req[p].cur \in Results
  <2>1. req[p].pc \in {"update", "state"}
    BY DEF Deadlocked, WaitsFor, WaitsForDelete, Wants
  <2>2. req[p].pc = "update"
    BY <1>1, <2>1 DEF OrderOK
  <2> QED
    BY <2>2 DEF Typed, HasItem
<1>0. Results \subseteq 1 .. MaxId /\ MaxId \in Nat /\ Results \subseteq Nat
  BY DispositionAssumption
<1>3. T \in SUBSET (1 .. MaxId) /\ T # {}
  <2>1. T \subseteq Results
    BY <1>2
  <2>2. req[q].cur \in T
    OBVIOUS
  <2> QED
    BY <1>0, <2>1, <2>2
<1>4. PICK most \in T : \A y \in T : y <= most
  <2> HIDE DEF T
  <2> QED BY <1>0, <1>3, GreatestIndex
<1>5. PICK p \in W : most = req[p].cur
  BY <1>4
<1> DEFINE r == req[p].cur
<1>6. /\ p \in Requests /\ r \in Results /\ r \in Nat /\ req[p].pc = "update"
      /\ tx[p].wrote # {} /\ tx[p].wrote \subseteq Results
      /\ \A x : Wants(p, x) => x = r
  <2>1. /\ p \in S /\ tx[p].wrote # {} /\ TxTypeOK(tx[p])
    BY <1>5 DEF Typed
  <2> QED
    BY <1>0, <1>2, <2>1 DEF Wants, TxTypeOK
<1>7. ASSUME NEW o \in S, WaitsFor(p, o) PROVE FALSE
  <2>1. o \in Requests /\ r \in tx[o].wrote
    BY <1>1, <1>6, <1>7 DEF WaitsFor, OrderOK
  <2>2. r < req[o].cur
    BY <1>1, <1>2, <2>1 DEF OrderOK
  <2>3. req[o].cur \in T /\ req[o].cur \in Nat
    BY <1>2, <2>1, DispositionAssumption
  <2> QED
    BY <1>4, <1>5, <1>6, <2>2, <2>3
<1>8. ASSUME NEW k \in D, WaitsForDelete(p, k) PROVE FALSE
  <2>1. /\ k \in Tasks /\ r \in del[k].held /\ DeleteOK(k, del[k], deletes, result)
        /\ HeldOK(p, tx[p], result) /\ tx[p].held \cap del[k].held = {}
    BY <1>6, <1>8 DEF WaitsForDelete, MarkInv, LockInv
  <2>2. OneTask(p)
    BY <1>6, <2>1 DEF DeleteOK, Apart
  <2>3. PICK y \in tx[p].wrote : TRUE
    BY <1>6
  <2>4. y \in Results /\ y \in req[p].ids /\ r \in req[p].ids /\ y < r /\ y \in tx[p].held
    BY <1>1, <1>6, <2>3 DEF OrderOK
  <2>5. TaskOf[y] = k /\ ~Absent(result, y)
    BY <2>1, <2>2, <2>4 DEF OneTask, DeleteOK, HeldOK
  <2>6. y \in del[k].held
    BY <2>1, <2>4, <2>5 DEF DeleteOK
  <2> QED
    BY <2>1, <2>4, <2>6
<1> QED
  BY <1>5, <1>7, <1>8 DEF Deadlocked

(* Without a delete there is no deadlock at all. *)
LEMMA NoDeadlock ==
  ASSUME Typed, MarkInv, OnlyMarks, deletes = 0,
         NEW S \in SUBSET Requests, NEW D \in SUBSET Tasks, Deadlocked(S, D),
         NEW q \in S
  PROVE  FALSE
<1>1. ASSUME NEW k \in D, WaitsForDelete(q, k) PROVE FALSE
  BY <1>1 DEF WaitsForDelete, MarkInv, LockInv, DeleteOK
<1>2. PICK o \in S : WaitsFor(q, o)
  BY <1>1 DEF Deadlocked
<1>3. tx[o].held # {} /\ OrderOK(req[o], tx[o], counted[o])
  BY <1>2 DEF WaitsFor, MarkInv, OrderInv, OnlyMarks, Marking
<1>4. tx[o].wrote = {}
  BY NothingWritten DEF Apart
<1> QED
  BY <1>3, <1>4 DEF OrderOK

LEMMA VictimMark ==
  ASSUME Typed, MarkInv, NEW q \in Requests, DeadlockVictim(q)
  PROVE  MarkInv'
<1> DEFINE z == req[q]
           u == tx[q]
           C == counted[q]
<1>1. PICK x \in Request :
        StepTo(q, x, Outside) /\ SameItem(x, z) /\ x.pc = "next" /\ x.ok = z.ok
  BY VictimFacts
<1>2. PICK S \in SUBSET Requests, D \in SUBSET Tasks : q \in S /\ Deadlocked(S, D)
  BY DEF DeadlockVictim
<1>3. /\ UNCHANGED <<result, logs, effects, action, counted, del, deletes>>
      /\ lost' = lost \cup {q} /\ SameRows(result, result')
  BY DEF DeadlockVictim, tables, env, SameRows
<1>4. KeepsTask(x, z) /\ z.pc \in {"update", "state"}
  BY <1>1, <1>2 DEF KeepsTask, SameItem, Deadlocked, WaitsFor, WaitsForDelete, Wants
<1>5. HeldOK(q, Outside, result) /\ \A k \in Tasks : Outside.held \cap del[k].held = {}
  BY OutsideOK, SameLocks
<1>6. ASSUME Marking(x) PROVE OrderOK(x, Outside, C) /\ z.pc = "update"
  <2>1. OrderOK(z, u, C)
    BY <1>1, <1>6 DEF MarkInv, OrderInv, Marking, SameItem
  <2>2. z.pc = "update"
    BY <1>4, <2>1 DEF OrderOK
  <2> QED
    BY <1>1, <2>1, <2>2, OutsideOK DEF OrderOK, SameItem, Loop
<1>7. ASSUME OnlyMarks, Apart
      PROVE  CountOK(x, Outside, action[q], C, effects[q], result)
  <2>1. CountOK(z, u, action[q], C, effects[q], result) /\ Marking(x)
    BY <1>1, <1>7 DEF MarkInv, SumInv, OnlyMarks, Marking, SameItem
  <2>2. u.wrote = {}
    BY <1>2, <1>7, NothingWritten
  <2> QED
    BY <1>1, <1>6, <2>1, <2>2 DEF CountOK, Loop
<1>8. LockInv'
  BY <1>1, <1>3, <1>5, LockStep, OutsideOK DEF MarkInv
<1>9. OrderInv'
  BY <1>1, <1>3, <1>6, OrderStep DEF MarkInv
<1>10. LogInv'
  BY <1>1, <1>3, LogStep DEF MarkInv
<1>11. SumInv'
  BY <1>1, <1>3, <1>4, <1>7, SumStep DEF MarkInv
<1>12. NoLoss'
  <2>1. OnlyMarks' => OnlyMarks
    BY <1>1, <1>3, <1>4, ApartKept
  <2>2. ~(OnlyMarks /\ deletes = 0)
    BY <1>2, NoDeadlock
  <2> QED
    BY <1>3, <2>1, <2>2 DEF NoLoss
<1> QED
  BY <1>8, <1>9, <1>10, <1>11, <1>12 DEF MarkInv

LEMMA CreateMark ==
  ASSUME Typed, MarkInv, NEW q \in Requests, CreateAction(q)
  PROVE  MarkInv'
<1> DEFINE u == tx[q]
           z == req[q]
           C == counted[q]
<1>1. PICK x \in Request :
        /\ StepTo(q, x, u) /\ x.pc = "next" /\ x.cur = 0 /\ x.ok = 0
        /\ x.todo = x.ids
        /\ action' = [action EXCEPT ![q].status = "running"]
  BY CreateFacts
<1>2. /\ UNCHANGED <<result, logs, effects, counted, del, deletes, lost>>
      /\ z.pc = "idle" /\ z.kind = "ignored" /\ z.ids = {} /\ TxTypeOK(u) /\ u \in Tx
  BY DEF CreateAction, tables, env, Typed, HasItem
<1>3. /\ OrderOK(z, u, C) /\ Marking(z)
  BY <1>2 DEF MarkInv, OrderInv, Marking
<1>4. u.wrote = {} /\ u.held = {} /\ u.logs = {} /\ C = {} /\ u.mode = "none"
  BY <1>2, <1>3 DEF TxTypeOK, OrderOK
<1>5. \A y \in x.todo : x.cur < y
  BY <1>1, DispositionAssumption DEF Request
<1>6. IsFiniteSet(C) /\ x.ok = Cardinality(C)
  BY <1>1, <1>4, FS_EmptySet
<1>7. OrderOK(x, u, C) /\ LogOK(x, u, result)
  BY <1>1, <1>4, <1>5, <1>6 DEF OrderOK, LogOK
<1>8. action'[q].status = "running" /\ \A p \in Requests \ {q} : action'[p] = action[p]
  BY <1>1 DEF Typed, ActionRow
<1>9. CountOK(x, u, action'[q], C, effects[q], result)
  BY <1>1, <1>4, <1>8 DEF CountOK
<1>10. KeepsTask(x, z)
  BY <1>2 DEF KeepsTask
<1>11. HeldOK(q, u, result) /\ \A k \in Tasks : u.held \cap del[k].held = {}
  BY <1>4, SameLocks
<1> QED
  BY <1>1, <1>2, <1>3, <1>7, <1>8, <1>9, <1>10, <1>11, LocalMark

(* The steps that only offline batches take. *)
LEMMA OfflineMark ==
  ASSUME Typed, MarkInv, NEW q \in Requests, ReadArticle(q) \/ OfflineArticle(q)
  PROVE  MarkInv'
<1> DEFINE u == tx[q]
           z == req[q]
<1>1. /\ UNCHANGED <<result, logs, effects, counted, action, del, deletes, lost>>
      /\ z.pc \in {"article", "state"} /\ u \in Tx /\ z.cur \in Results
      /\ \A k \in Tasks : del[k].held \subseteq Results
  BY DEF ReadArticle, OfflineArticle, tables, env, Typed, Delete, HasItem
<1>2. ~Marking(z) /\ ~OnlyMarks
  BY <1>1 DEF MarkInv, OrderInv, OrderOK, OnlyMarks, Marking
<1>3. /\ HeldOK(q, u, result) /\ \A k \in Tasks : u.held \cap del[k].held = {}
  BY DEF MarkInv, LockInv
<1>4. \E x \in Request, t \in Tx :
        /\ StepTo(q, x, t) /\ SameItem(x, z) /\ HeldOK(q, t, result)
        /\ \A k \in Tasks : t.held \cap del[k].held = {}
  <2>1. CASE ReadArticle(q)
    BY <1>1, <1>3, <2>1, ReadArticleFacts
  <2>2. CASE OfflineArticle(q)
    <3> DEFINE a == ArticleOf[z.cur]
    <3>1. a \in Articles /\ a \notin Results
      BY <1>1, DispositionAssumption
    <3>2. PICK x \in Request, t \in Tx :
            /\ StepTo(q, x, t) /\ SameItem(x, z)
            /\ \/ t = u
               \/ /\ t.held = u.held \cup {a} /\ t.result = u.result
                  /\ t.logs = u.logs
      BY <2>2, OfflineFacts
    <3>3. HeldOK(q, t, result) /\ \A k \in Tasks : t.held \cap del[k].held = {}
      BY <1>1, <1>3, <3>1, <3>2 DEF HeldOK
    <3> QED
      BY <3>2, <3>3
  <2> QED
    BY <2>1, <2>2
<1>5. PICK x \in Request, t \in Tx :
        /\ StepTo(q, x, t) /\ SameItem(x, z) /\ HeldOK(q, t, result)
        /\ \A k \in Tasks : t.held \cap del[k].held = {}
  BY <1>4
<1>6. ~Marking(x) /\ KeepsTask(x, z)
  BY <1>2, <1>5 DEF SameItem, Marking, KeepsTask
<1> QED
  BY <1>1, <1>2, <1>5, <1>6, LocalMark

(* The item in hand, if any, is an id. *)
LEMMA ItemIsNat ==
  ASSUME NEW i \in Results \cup {0}
  PROVE  i \in Nat
BY DispositionAssumption

LEMMA ReadMark ==
  ASSUME Typed, MarkInv, NEW q \in Requests, ReadResult(q)
  PROVE  MarkInv'
<1> DEFINE u == tx[q]
           z == req[q]
           C == counted[q]
           E == effects[q]
<1>1. PICK r \in Results, x \in Request, t \in Tx :
        /\ StepTo(q, x, t) /\ NextId(z.todo, r) /\ TxTypeOK(t)
        /\ x.kind = z.kind /\ x.todo = z.todo \ {r} /\ x.cur = r
        /\ x.ok = z.ok /\ x.ids = z.ids
        /\ \/ x.pc = "next"
           \/ x.pc = "article" /\ x.kind = "offlined"
           \/ x.pc = "log" /\ x.log = "skipped" /\ x.kind # "offlined"
           \/ x.pc = "update" /\ x.log = "success" /\ x.kind # "offlined"
        /\ t.mode # "none" /\ t.held = u.held
        /\ t.wrote = u.wrote /\ t.logs = u.logs
        /\ \/ t = u
           \/ /\ u.mode = "none" /\ t.mode = "open"
              /\ t.article = article /\ t.result = result
  BY ReadFacts
<1>2. /\ UNCHANGED <<result, logs, effects, counted, action, del, deletes, lost>>
      /\ z.pc = "next" /\ z \in Request /\ TxTypeOK(u) /\ C \subseteq Results
      /\ u.wrote \subseteq Results
  BY DEF ReadResult, tables, env, Typed, TxTypeOK
<1>3. HeldOK(q, t, result) /\ \A k \in Tasks : t.held \cap del[k].held = {}
  <2>1. HeldOK(q, u, result)
    BY DEF MarkInv, LockInv
  <2>2. u.mode = "none" => t.held = {} /\ t.logs = {}
    BY <1>1, <1>2 DEF TxTypeOK
  <2> QED
    BY <1>1, <2>1, <2>2, SameLocks DEF HeldOK
<1>4. KeepsTask(x, z) /\ (Marking(x) <=> Marking(z))
  BY <1>1 DEF KeepsTask, Marking
<1>5. ASSUME Marking(x) PROVE OrderOK(x, t, C)
  <2>1. OrderOK(z, u, C)
    BY <1>4, <1>5 DEF MarkInv, OrderInv
  <2>2. /\ z.cur \in Nat /\ r \in Nat /\ u.wrote \cup C \subseteq Nat
        /\ z.todo \subseteq Nat
    <3>1. Results \subseteq Nat
      BY DispositionAssumption
    <3>2. z.cur \in Results \cup {0} /\ z.todo \subseteq Results
      BY <1>2 DEF Request
    <3>3. z.cur \in Nat
      BY <3>2, ItemIsNat
    <3>4. u.wrote \cup C \subseteq Nat /\ z.todo \subseteq Nat
      BY <1>2, <3>1, <3>2
    <3>5. r \in Nat
      BY <3>1
    <3> QED
      BY <3>3, <3>4, <3>5
  <2>3. z.cur < r /\ r \in z.todo
    BY <1>1, <1>2, <2>1 DEF OrderOK, NextId, Loop
  <2>4. \A y \in t.wrote \cup C : y <= x.cur /\ y < x.cur
    BY <1>1, <2>1, <2>2, <2>3 DEF OrderOK
  <2>5. \A y \in x.todo : x.cur < y
    BY <1>1, <2>2 DEF NextId
  <2>6. x.cur \in x.ids /\ t.wrote \subseteq x.ids /\ x.todo \subseteq x.ids
    BY <1>1, <2>1, <2>3 DEF OrderOK
  <2> QED
    BY <1>1, <1>5, <2>1, <2>4, <2>5, <2>6 DEF OrderOK, Marking
<1>6. ASSUME Marking(x), q \notin lost PROVE LogOK(x, t, result)
  <2>1. LogOK(z, u, result)
    BY <1>4, <1>6 DEF MarkInv, LogInv
  <2> QED
    BY <1>1, <1>2, <2>1 DEF LogOK
<1>7. ASSUME OnlyMarks, Apart PROVE CountOK(x, t, action[q], C, E, result)
  <2>1. CountOK(z, u, action[q], C, E, result) /\ Marking(x)
    BY <1>4, <1>7 DEF MarkInv, SumInv, OnlyMarks, Marking
  <2> QED
    BY <1>1, <1>2, <2>1 DEF CountOK, Loop, Marking
<1> QED
  BY <1>1, <1>2, <1>3, <1>4, <1>5, <1>6, <1>7, LocalMark

LEMMA LogMark ==
  ASSUME Typed, MarkInv, NEW q \in Requests, WriteOperationLog(q)
  PROVE  MarkInv'
<1> DEFINE u == tx[q]
           z == req[q]
           C == counted[q]
           E == effects[q]
           l == LogEntry(q)
<1>1. /\ UNCHANGED <<result, effects, counted, action, del, deletes, lost>>
      /\ z.pc = "log" /\ u \in Tx /\ TxTypeOK(u)
  BY DEF WriteOperationLog, Typed, env
<1>2. PICK x \in Request, t \in Tx : LogTo(q, x, t)
  BY LogFacts
<1>3. /\ StepTo(q, x, t) /\ SameItem(x, z) /\ x.ok = z.ok
      /\ \/ /\ x.pc = (IF z.kind = "offlined" THEN "update" ELSE "next")
            /\ \/ /\ u.mode = "open" /\ UNCHANGED logs
                  /\ t = [u EXCEPT !.logs = @ \cup {l}]
               \/ u.mode = "auto" /\ t = u /\ logs' = logs \cup {l}
         \/ z.kind = "offlined" /\ t = u /\ UNCHANGED logs
         \/ /\ z.kind # "offlined" /\ x.pc = "ended"
            /\ t = NoTx /\ UNCHANGED logs
  BY <1>2 DEF LogTo
<1>4. l.by = q /\ l.of = z.cur /\ l.status = z.log
  BY DEF LogEntry
<1> HIDE DEF l
<1>5. /\ NoTx.held = {} /\ NoTx.wrote = {} /\ NoTx.logs = {} /\ NoTx.mode = "none"
      /\ LET v == [u EXCEPT !.logs = @ \cup {l}] IN
         /\ v.mode = u.mode /\ v.held = u.held /\ v.wrote = u.wrote
         /\ v.result = u.result /\ v.logs = u.logs \cup {l}
  BY <1>1 DEF NoTx, Tx
<1>6. HeldOK(q, t, result) /\ \A k \in Tasks : t.held \cap del[k].held = {}
  <2>1. HeldOK(q, u, result)
    BY DEF MarkInv, LockInv
  <2>2. \A m \in t.logs : m.by = q
    BY <1>3, <1>4, <1>5, <2>1 DEF HeldOK
  <2>3. t = NoTx \/ (t.held = u.held /\ t.result = u.result)
    BY <1>3, <1>5
  <2> QED
    BY <1>5, <2>2, <2>3, SameLocks
<1>7. /\ logs \subseteq logs' /\ \A m \in logs' \ logs : m.by = q
      /\ KeepsTask(x, z) /\ (Marking(x) <=> Marking(z)) /\ SameRows(result, result')
  BY <1>1, <1>3, <1>4 DEF SameItem, KeepsTask, Marking, SameRows
<1>8. ASSUME Marking(x) PROVE OrderOK(x, t, C)
  <2>1. OrderOK(z, u, C)
    BY <1>7, <1>8 DEF MarkInv, OrderInv
  <2>2. /\ x.pc \in {"next", "ended"} /\ x.cur = z.cur /\ x.todo = z.todo /\ x.ids = z.ids
        /\ \/ t.held = {} /\ t.wrote = {}
           \/ t.held = u.held /\ t.wrote = u.wrote
    BY <1>3, <1>5, <1>7, <1>8 DEF SameItem, Marking
  <2> QED
    BY <1>1, <1>3, <2>1, <2>2 DEF OrderOK, Loop
<1>9. ASSUME Marking(x), q \notin lost
      PROVE  LogOK(x, t, result) /\ LoggedOK(q, E, logs', result)
  <2>1. LogOK(z, u, result) /\ LoggedOK(q, E, logs, result) /\ z.kind # "offlined"
    BY <1>7, <1>9 DEF MarkInv, LogInv, Marking
  <2>2. UNCHANGED logs
    BY <1>3, <2>1 DEF LogOK
  <2>3. CASE x.pc = "ended" /\ t = NoTx
    BY <1>5, <2>1, <2>2, <2>3 DEF LogOK
  <2>4. CASE x.pc = "next" /\ t = [u EXCEPT !.logs = @ \cup {l}]
    <3>1. /\ t.mode = u.mode /\ t.wrote = u.wrote /\ t.logs = u.logs \cup {l}
      BY <1>5, <2>4
    <3>2. \A y \in t.wrote : \E m \in t.logs : m.of = y /\ m.status = "success"
      BY <1>4, <2>1, <3>1 DEF LogOK
    <3>3. \A m \in t.logs : m.status = "success" => m.of \in t.wrote \/ Absent(result, m.of)
      BY <1>1, <1>4, <2>1, <3>1 DEF LogOK
    <3> QED
      BY <2>1, <2>2, <2>4, <3>1, <3>2, <3>3 DEF LogOK
  <2> QED
    BY <1>3, <2>1, <2>3, <2>4 DEF LogOK
<1>10. ASSUME OnlyMarks, Apart PROVE CountOK(x, t, action[q], C, E, result)
  <2>1. CountOK(z, u, action[q], C, E, result) /\ z.kind # "offlined"
    BY <1>10 DEF MarkInv, SumInv, OnlyMarks
  <2>2. x.pc = "ended" \/ (x.pc = "next" /\ t.wrote = u.wrote)
    BY <1>3, <1>5, <2>1
  <2> QED
    BY <1>1, <2>1, <2>2 DEF CountOK, Loop
<1> QED
  BY <1>1, <1>3, <1>6, <1>7, <1>8, <1>9, <1>10, MarkStep

LEMMA UpdateMark ==
  ASSUME Typed, MarkInv, NEW q \in Requests, UpdateResult(q)
  PROVE  MarkInv'
<1> DEFINE u == tx[q]
           z == req[q]
           r == z.cur
           C == counted[q]
           E == effects[q]
<1>1. /\ UNCHANGED <<logs, action, del, deletes, lost>> /\ z.pc = "update"
      /\ u \in Tx /\ TxTypeOK(u) /\ z \in Request /\ r \in Results /\ r \in Nat
      /\ counted \in [Requests -> SUBSET Results]
      /\ effects \in [Requests -> SUBSET Results]
      /\ result \in [Results -> ResultRow] /\ u.mode \in {"open", "auto"}
  BY DispositionAssumption DEF UpdateResult, Typed, HasItem, env, TxTypeOK
<1>2. PICK x \in Request, t \in Tx, row \in ResultRow : UpdateTo(q, x, t, row)
  BY UpdateFacts
<1> DEFINE Kept == t = u /\ UNCHANGED <<result, effects>>
           Failing == x.pc = "next" /\ x.ok = z.ok /\ Kept /\ UNCHANGED counted
           Counts == /\ x.pc = (IF z.kind = "offlined" THEN "next" ELSE "log")
                     /\ x.ok = z.ok + 1 /\ x.log = z.log
                     /\ counted' = [counted EXCEPT ![q] = @ \cup {r}] /\ Free(q, r)
           Nothing == ResultNow(q, r).disp = "absent" /\ Kept
           Writes == /\ ResultNow(q, r).disp # "absent" /\ u.mode = "open"
                     /\ t.result = [u.result EXCEPT ![r] = row]
                     /\ t.held = u.held \cup {r} /\ t.wrote = u.wrote \cup {r}
                     /\ t.logs = u.logs /\ UNCHANGED <<result, effects>>
           Commits == /\ ResultNow(q, r).disp # "absent" /\ u.mode = "auto"
                      /\ t = u /\ result' = [result EXCEPT ![r] = row]
                      /\ effects' = [effects EXCEPT ![q] = @ \cup {r}]
<1>3. /\ StepTo(q, x, t) /\ SameItem(x, z) /\ row.disp = z.kind /\ t.mode = u.mode
      /\ Failing \/ (Counts /\ (Nothing \/ Writes \/ Commits))
  BY <1>2 DEF UpdateTo
<1>4. /\ x.cur = r /\ x.todo = z.todo /\ x.kind = z.kind /\ x.ids = z.ids
      /\ KeepsTask(x, z) /\ (Marking(x) <=> Marking(z)) /\ row.disp # "absent"
  BY <1>1, <1>3 DEF SameItem, KeepsTask, Marking, Request
<1>5. HeldOK(q, u, result) /\ \A k \in Tasks : u.held \cap del[k].held = {}
  BY DEF MarkInv, LockInv
<1>6. \A p \in Requests \ {q} : counted'[p] = counted[p] /\ effects'[p] = effects[p]
  BY <1>1, <1>3
<1>7. ~Absent(result, r) <=> ResultNow(q, r).disp # "absent"
  BY <1>1, <1>5 DEF ResultNow, HeldOK, Absent
<1>8. SameRows(result, result')
  BY <1>1, <1>3, <1>4, <1>7 DEF SameRows, Absent
<1>9. HeldOK(q, t, result) /\ \A k \in Tasks : t.held \cap del[k].held = {}
  <2>1. CASE t = u
    BY <1>5, <2>1
  <2>2. CASE Counts /\ Writes
    <3>1. u.result \in [Results -> ResultRow]
      BY <1>1, <2>2 DEF TxTypeOK
    <3>2. t.result[r] = row /\ \A y \in Results : y # r => t.result[y] = u.result[y]
      BY <1>1, <2>2, <3>1
    <3>3. \A y \in Results \cap t.held : ~Absent(result, y) /\ ~Absent(t.result, y)
      BY <1>4, <1>5, <1>7, <2>2, <3>2 DEF HeldOK, Absent
    <3>4. \A k \in Tasks : t.held \cap del[k].held = {}
      BY <1>5, <2>2 DEF Free
    <3> QED
      BY <1>5, <2>2, <3>3, <3>4 DEF HeldOK
  <2> QED
    BY <1>3, <2>1, <2>2
<1>10. ASSUME Marking(x)
       PROVE  /\ OrderOK(x, t, counted'[q])
              /\ Counts => C \cup {r} = counted'[q] /\ r \notin u.wrote
  <2>1. OrderOK(z, u, C)
    BY <1>4, <1>10 DEF MarkInv, OrderInv
  <2>2. CASE Failing
    <3>1. ~Counts
      BY <1>1, <2>2 DEF Request
    <3> QED
      BY <1>1, <1>4, <2>1, <2>2, <3>1 DEF OrderOK, Loop
  <2>3. CASE Counts /\ (Nothing \/ Writes \/ Commits)
    <3>1. counted'[q] = C \cup {r} /\ x.pc = "log"
      BY <1>1, <1>4, <1>10, <2>3 DEF Marking
    <3>2. r \notin u.wrote /\ r \notin C /\ r \in x.ids
      BY <1>1, <1>4, <2>1 DEF OrderOK
    <3>3. IsFiniteSet(C \cup {r}) /\ x.ok = Cardinality(C \cup {r})
      <4>1. IsFiniteSet(C) /\ z.ok = Cardinality(C)
        BY <2>1 DEF OrderOK
      <4>2. IsFiniteSet(C \cup {r}) /\ Cardinality(C \cup {r}) = Cardinality(C) + 1
        BY <3>2, <4>1, FS_AddElement
      <4> QED
        BY <2>3, <4>1, <4>2
    <3>4. t.wrote \subseteq u.wrote \cup {r} /\ t.held = t.wrote
      BY <2>1, <2>3 DEF OrderOK
    <3>5. \A y \in t.wrote \cup C \cup {r} : y <= r
      BY <1>1, <2>1, <3>4 DEF OrderOK
    <3>6. t.wrote \subseteq x.ids /\ x.todo \subseteq x.ids /\ \A y \in x.todo : x.cur < y
      BY <1>1, <1>4, <2>1, <3>2, <3>4 DEF OrderOK, Loop
    <3>7. OrderOK(x, t, C \cup {r})
      BY <1>4, <3>1, <3>2, <3>3, <3>4, <3>5, <3>6 DEF OrderOK
    <3> QED
      BY <3>1, <3>2, <3>7
  <2> QED
    BY <1>3, <2>2, <2>3
<1>11. ASSUME Marking(x), q \notin lost
       PROVE  LogOK(x, t, result') /\ LoggedOK(q, effects'[q], logs', result')
  <2>1. /\ LogOK(z, u, result) /\ LoggedOK(q, E, logs, result) /\ z.kind # "offlined"
        /\ OrderOK(z, u, C)
    BY <1>4, <1>11 DEF MarkInv, LogInv, OrderInv, Marking
  <2>2. u.mode # "auto" /\ UNCHANGED <<result, effects>>
    BY <1>3, <2>1 DEF LogOK
  <2>3. CASE Failing
    BY <1>1, <2>1, <2>2, <2>3 DEF LogOK
  <2>4. CASE Counts /\ Nothing
    BY <1>1, <1>4, <1>7, <2>1, <2>2, <2>4 DEF LogOK
  <2>5. CASE Counts /\ Writes
    <3>1. \A y \in t.wrote : \/ x.pc = "log" /\ x.log = "success" /\ x.cur = y
                             \/ \E l \in t.logs : l.of = y /\ l.status = "success"
      BY <1>1, <1>4, <2>1, <2>5 DEF LogOK
    <3> QED
      BY <1>1, <1>3, <1>4, <2>1, <2>2, <2>5, <3>1 DEF LogOK
  <2> QED
    BY <1>3, <2>2, <2>3, <2>4, <2>5
<1>12. ASSUME OnlyMarks, Apart
       PROVE  CountOK(x, t, action[q], counted'[q], effects'[q], result')
  <2>1. CountOK(z, u, action[q], C, E, result) /\ Marking(x)
    BY <1>4, <1>12 DEF MarkInv, SumInv, OnlyMarks, Marking
  <2>2. /\ action[q].status \in {"none", "running"} /\ x.pc # "summary"
        /\ \A y \in C : y \in u.wrote \/ y \in E \/ Absent(result, y)
        /\ C \subseteq Results
    BY <1>1, <1>3, <2>1 DEF CountOK, Loop
  <2>3. \A y \in C : y \in t.wrote \/ y \in effects'[q] \/ Absent(result', y)
    <3>1. u.wrote \subseteq t.wrote /\ E \subseteq effects'[q]
      BY <1>1, <1>3
    <3> QED
      BY <1>8, <2>2, <3>1 DEF SameRows
  <2>4. Counts => r \in t.wrote \/ r \in effects'[q] \/ Absent(result', r)
    <3>1. Counts => Nothing \/ Writes \/ Commits
      BY <1>1, <1>3 DEF Request
    <3> QED
      BY <1>1, <1>7, <1>8, <3>1 DEF SameRows
  <2>5. counted'[q] = C \/ (Counts /\ counted'[q] = C \cup {r})
    BY <1>1, <1>3
  <2> QED
    BY <2>2, <2>3, <2>4, <2>5 DEF CountOK
<1>13. /\ UNCHANGED <<del, deletes, lost, logs>> /\ action'[q] = action[q]
       /\ \A p \in Requests \ {q} : /\ counted'[p] = counted[p] /\ action'[p] = action[p]
                                    /\ effects'[p] = effects[p]
  BY <1>1, <1>6
<1>14. StepTo(q, x, t) /\ KeepsTask(x, req[q])
  BY <1>3, <1>4
<1> HIDE DEF u, z, C, E
<1> QED
  BY <1>8, <1>9, <1>10, <1>11, <1>12, <1>13, <1>14, MarkStep

LEMMA CommitMark ==
  ASSUME Typed, MarkInv, NEW q \in Requests, CommitAction(q), Commit(q)
  PROVE  MarkInv'
<1> DEFINE u == tx[q]
           z == req[q]
           C == counted[q]
           E == effects[q]
<1>1. /\ UNCHANGED <<counted, action, del, deletes, lost>> /\ z.pc = "next"
      /\ u \in Tx /\ TxTypeOK(u) /\ u.mode \in {"none", "open", "auto"}
      /\ effects \in [Requests -> SUBSET Results] /\ C \subseteq Results
      /\ logs \subseteq Log /\ result \in [Results -> ResultRow]
  BY DEF CommitAction, Typed, TxTypeOK, env
<1>2. PICK x \in Request :
        /\ StepTo(q, x, NoTx) /\ SameItem(x, z) /\ x.ok = z.ok
        /\ x.pc \in {"summary", "ended"}
  <2>1. ~UpdateActionSummary(q)
    BY <1>1 DEF UpdateActionSummary
  <2> QED
    BY <2>1, EndFacts
<1>3. /\ NoTx.held = {} /\ NoTx.wrote = {} /\ NoTx.logs = {} /\ NoTx.mode = "none"
      /\ NoTx \in Tx
  BY NoTxOK DEF NoTx
<1>4. /\ \A p \in Requests \ {q} : effects'[p] = effects[p]
      /\ effects'[q] = E \cup u.wrote /\ logs' = logs \cup u.logs
      /\ \A r \in Results : result'[r] = IF r \in u.held THEN u.result[r] ELSE result[r]
  <2>1. CASE u.mode = "open"
    BY <1>1, <2>1 DEF Commit
  <2>2. CASE u.mode # "open"
    BY <1>1, <2>2 DEF Commit, tables, TxTypeOK
  <2> QED
    BY <1>1, <2>1, <2>2
<1>5. /\ HeldOK(q, u, result) /\ u.wrote \subseteq Results /\ u.logs \subseteq Log
  BY <1>1 DEF MarkInv, LockInv, TxTypeOK
<1>6. SameRows(result, result')
  BY <1>4, <1>5 DEF SameRows, HeldOK, Absent
<1>7. HeldOK(q, NoTx, result) /\ \A k \in Tasks : NoTx.held \cap del[k].held = {}
  BY <1>3, SameLocks
<1>8. KeepsTask(x, z) /\ (Marking(x) <=> Marking(z))
  BY <1>2 DEF KeepsTask, SameItem, Marking
<1>9. ASSUME Marking(x) PROVE OrderOK(x, NoTx, C)
  <2>1. OrderOK(z, u, C)
    BY <1>8, <1>9 DEF MarkInv, OrderInv
  <2> QED
    BY <1>1, <1>2, <1>3, <2>1 DEF OrderOK, SameItem, Loop
<1>10. ASSUME Marking(x), q \notin lost
       PROVE  LogOK(x, NoTx, result') /\ LoggedOK(q, effects'[q], logs', result')
  <2>1. LogOK(z, u, result) /\ LoggedOK(q, E, logs, result)
    BY <1>8, <1>10 DEF MarkInv, LogInv
  <2>2. ASSUME NEW r \in effects'[q]
        PROVE  \/ Absent(result', r)
               \/ \E l \in logs' : l.by = q /\ l.of = r /\ l.status = "success"
    <3>1. CASE r \in E
      BY <1>1, <1>4, <1>6, <2>1, <3>1 DEF LoggedOK, SameRows
    <3>2. CASE r \in u.wrote
      <4>1. PICK l \in u.logs : l.of = r /\ l.status = "success"
        BY <1>1, <2>1, <3>2 DEF LogOK
      <4>2. l.by = q
        BY <1>5 DEF HeldOK
      <4> QED
        BY <1>4, <4>1, <4>2
    <3> QED
      BY <1>4, <3>1, <3>2
  <2>3. ASSUME NEW l \in logs', l.by = q, l.status = "success"
        PROVE  l.of \in effects'[q] \/ Absent(result', l.of)
    <3>1. l.of \in Results
      BY <1>1, <1>4, <1>5 DEF Log
    <3>2. l.of \in effects'[q] \/ Absent(result, l.of)
      BY <1>4, <2>1, <2>3 DEF LoggedOK, LogOK
    <3> QED
      BY <1>6, <3>1, <3>2 DEF SameRows
  <2>4. LogOK(x, NoTx, result')
    BY <1>2, <1>3 DEF LogOK
  <2> QED
    BY <2>2, <2>3, <2>4 DEF LoggedOK
<1>11. ASSUME OnlyMarks, Apart
       PROVE  CountOK(x, NoTx, action[q], C, effects'[q], result')
  <2>1. CountOK(z, u, action[q], C, E, result)
    BY <1>11 DEF MarkInv, SumInv
  <2>2. action[q].status \in {"none", "running"}
    BY <1>1, <2>1 DEF CountOK
  <2>3. \A y \in C : y \in effects'[q] \/ Absent(result', y)
    BY <1>1, <1>4, <1>6, <2>1 DEF CountOK, Loop, SameRows
  <2> QED
    BY <1>2, <2>2, <2>3 DEF CountOK, Loop
<1>12. logs \subseteq logs' /\ \A l \in logs' \ logs : l.by = q
  BY <1>4, <1>5 DEF HeldOK
<1>13. /\ UNCHANGED <<del, deletes, lost>> /\ counted'[q] = C /\ action'[q] = action[q]
       /\ \A p \in Requests \ {q} : /\ counted'[p] = counted[p] /\ action'[p] = action[p]
                                    /\ effects'[p] = effects[p]
  BY <1>1, <1>4
<1>14. StepTo(q, x, NoTx) /\ NoTx \in Tx /\ KeepsTask(x, req[q])
  BY <1>2, <1>3, <1>8
<1> HIDE DEF u, z, E
<1> QED
  BY <1>6, <1>7, <1>9, <1>10, <1>11, <1>12, <1>13, <1>14, MarkStep

LEMMA EndMark ==
  ASSUME Typed, MarkInv, NEW q \in Requests,
         CommitAction(q) \/ UpdateActionSummary(q) \/ Crash(q)
  PROVE  MarkInv'
<1> DEFINE u == tx[q]
           z == req[q]
           C == counted[q]
           E == effects[q]
<1>1. CASE CommitAction(q) /\ Commit(q)
  BY <1>1, CommitMark
<1>2. CASE ~(CommitAction(q) /\ Commit(q))
  <2>1. PICK x \in Request, t \in {NoTx, u} :
          /\ StepTo(q, x, t) /\ SameItem(x, z) /\ x.ok = z.ok /\ x.pc = "ended"
          /\ \/ t = NoTx /\ UNCHANGED action
             \/ UpdateActionSummary(q) /\ t = u
    BY <1>2, EndFacts
  <2>2. /\ UNCHANGED <<result, logs, effects, counted, del, deletes, lost>>
        /\ action \in [Requests -> ActionRow] /\ u \in Tx /\ TxTypeOK(u)
        /\ z.pc \notin {"idle", "ended"}
    BY <1>2 DEF CommitAction, UpdateActionSummary, Crash, tables, env, Typed
  <2>3. /\ NoTx.held = {} /\ NoTx.wrote = {} /\ NoTx.logs = {} /\ NoTx.mode = "none"
        /\ NoTx \in Tx /\ t \in Tx
    BY <2>2, NoTxOK DEF NoTx
  <2>4. HeldOK(q, t, result) /\ \A k \in Tasks : t.held \cap del[k].held = {}
    BY <2>3, SameLocks DEF MarkInv, LockInv, HeldOK
  <2>5. KeepsTask(x, z) /\ (Marking(x) <=> Marking(z))
    BY <2>1 DEF KeepsTask, SameItem, Marking
  <2>6. /\ \A p \in Requests \ {q} : action'[p] = action[p]
        /\ \/ action'[q] = action[q]
           \/ z.pc = "summary" /\ action'[q].ok = z.ok
    <3>1. CASE UpdateActionSummary(q)
      BY <2>2, <3>1 DEF UpdateActionSummary, WriteSummary
    <3>2. CASE UNCHANGED action
      BY <3>2
    <3> QED
      BY <2>1, <3>1, <3>2
  <2>7. ASSUME Marking(x) PROVE OrderOK(x, t, C)
    <3>1. OrderOK(z, u, C)
      BY <2>5, <2>7 DEF MarkInv, OrderInv
    <3> QED
      BY <2>1, <2>3, <3>1 DEF OrderOK, SameItem, Loop
  <2>8. ASSUME Marking(x), q \notin lost PROVE LogOK(x, t, result)
    <3>1. LogOK(z, u, result)
      BY <2>5, <2>8 DEF MarkInv, LogInv
    <3>2. CASE t = NoTx
      BY <2>1, <2>3, <3>2 DEF LogOK
    <3>3. CASE t = u /\ UpdateActionSummary(q)
      BY <2>1, <3>1, <3>3 DEF LogOK, UpdateActionSummary
    <3> QED
      BY <2>1, <3>2, <3>3
  <2>9. ASSUME OnlyMarks, Apart PROVE CountOK(x, t, action'[q], C, E, result)
    <3>1. CountOK(z, u, action[q], C, E, result) /\ OrderOK(z, u, C)
      BY <2>9 DEF MarkInv, SumInv, OrderInv, OnlyMarks, Marking
    <3>2. CASE action'[q] = action[q]
      BY <2>1, <2>2, <3>1, <3>2 DEF CountOK, Loop
    <3>3. CASE z.pc = "summary" /\ action'[q].ok = z.ok
      BY <2>1, <3>1, <3>3 DEF CountOK, OrderOK, Loop
    <3> QED
      BY <2>6, <3>2, <3>3
  <2> QED
    BY <2>1, <2>2, <2>3, <2>4, <2>5, <2>6, <2>7, <2>8, <2>9, LocalMark
<1> QED
  BY <1>1, <1>2

-----------------------------------------------------------------------------
(* Editors and deletes. *)
LEMMA EditMark ==
  ASSUME Typed, MarkInv, NEW a \in Articles, Edit(a)
  PROVE  MarkInv'
<1>1. UNCHANGED <<result, logs, effects, action, req, tx, counted, lost, del, deletes>>
  BY DEF Edit
<1> QED
  BY <1>1 DEF MarkInv, LockInv, OrderInv, LogInv, SumInv, NoLoss, OnlyMarks, Apart, OneTask

(* A delete before its COMMIT: only its locks change. *)
LEMMA PendingDelete ==
  ASSUME Typed, MarkInv, NEW k \in Tasks, NEW d \in Delete, del' = [del EXCEPT ![k] = d],
         UNCHANGED <<tables, action, req, tx, counted, lost>>,
         deletes' \in Nat, deletes <= deletes',
         DeleteOK(k, d, deletes', result),
         \A q \in Requests : tx[q].held \cap d.held = {}
  PROVE  MarkInv'
<1>1. /\ del'[k] = d /\ \A j \in Tasks : j # k => del'[j] = del[j]
      /\ deletes \in Nat /\ UNCHANGED <<result, logs, effects>>
  BY DEF Typed, tables
<1>2. LockInv'
  <2>1. ASSUME NEW j \in Tasks PROVE DeleteOK(j, del'[j], deletes', result)
    <3>1. DeleteOK(j, del[j], deletes, result)
      BY DEF MarkInv, LockInv
    <3> QED
      BY <1>1, <3>1 DEF DeleteOK
  <2>2. \A q \in Requests, j \in Tasks : tx[q].held \cap del'[j].held = {}
    BY <1>1 DEF MarkInv, LockInv
  <2> QED
    BY <1>1, <2>1, <2>2 DEF MarkInv, LockInv
<1>3. (OnlyMarks' => OnlyMarks) /\ (Apart' => Apart) /\ (deletes' = 0 => deletes = 0)
  BY <1>1 DEF OnlyMarks, Apart, OneTask
<1>4. OrderInv' /\ LogInv'
  BY <1>1 DEF MarkInv, OrderInv, LogInv
<1>5. SumInv' /\ NoLoss'
  BY <1>1, <1>3 DEF MarkInv, SumInv, NoLoss
<1> QED
  BY <1>2, <1>4, <1>5 DEF MarkInv

LEMMA PendingMark ==
  ASSUME Typed, MarkInv, NEW k \in Tasks,
         DeleteTask(k) \/ DeleteResult(k) \/ DeleteLogs(k) \/ AbortDelete(k)
  PROVE  MarkInv'
<1> DEFINE d == del[k]
<1>1. /\ d \in Delete /\ DeleteOK(k, d, deletes, result) /\ deletes \in Nat
      /\ \A q \in Requests : tx[q].held \cap d.held = {}
      /\ UNCHANGED <<tables, action, req, tx, counted, lost>>
      /\ del \in [Tasks -> Delete]
  BY DEF Typed, MarkInv, LockInv, DeleteTask, DeleteResult, DeleteLogs, AbortDelete
<1>2. CASE DeleteTask(k)
  <2> DEFINE e == [d EXCEPT !.pc = "results"]
  <2>1. /\ d.pc = "idle" /\ deletes' = deletes + 1 /\ del' = [del EXCEPT ![k] = e]
    BY <1>2 DEF DeleteTask
  <2>2. e \in Delete /\ e.pc = "results" /\ e.held = {}
    BY <1>1, <2>1 DEF Delete, DeleteOK
  <2>3. DeleteOK(k, e, deletes', result)
    BY <1>1, <2>1, <2>2 DEF DeleteOK
  <2>4. /\ deletes' \in Nat /\ deletes <= deletes'
        /\ \A q \in Requests : tx[q].held \cap e.held = {}
    BY <1>1, <2>1, <2>2
  <2> HIDE DEF e
  <2> QED
    BY <1>1, <2>1, <2>2, <2>3, <2>4, PendingDelete
<1>3. CASE DeleteResult(k)
  <2>1. PICK r \in Results :
          /\ Least(k, r) /\ \A q \in Requests : r \notin tx[q].held
          /\ del' = [del EXCEPT ![k].held = @ \cup {r}]
    BY <1>3 DEF DeleteResult
  <2> DEFINE e == [d EXCEPT !.held = @ \cup {r}]
  <2>2. d.pc = "results" /\ UNCHANGED deletes /\ del' = [del EXCEPT ![k] = e]
    BY <1>1, <1>3, <2>1 DEF DeleteResult
  <2>3. e \in Delete /\ e.pc = "results" /\ e.held = d.held \cup {r}
    BY <1>1, <2>2 DEF Delete
  <2>4. /\ TaskOf[r] = k /\ ~Absent(result, r) /\ r \in Nat /\ Results \subseteq Nat
        /\ \A s \in Results : TaskOf[s] = k /\ ~Absent(result, s) /\ s < r => s \in d.held
    <3>1. Results \subseteq Nat
      BY DispositionAssumption
    <3> QED
      BY <2>1, <3>1 DEF Least, Left, Absent
  <2>5. DeleteOK(k, e, deletes', result)
    BY <1>1, <2>2, <2>3, <2>4 DEF DeleteOK
  <2>6. /\ deletes' \in Nat /\ deletes <= deletes'
        /\ \A q \in Requests : tx[q].held \cap e.held = {}
    BY <1>1, <2>1, <2>2, <2>3
  <2> HIDE DEF e
  <2> QED
    BY <1>1, <2>2, <2>3, <2>5, <2>6, PendingDelete
<1>4. CASE DeleteLogs(k)
  <2> DEFINE e == [d EXCEPT !.pc = "logs"]
  <2>1. /\ d.pc = "results" /\ UNCHANGED deletes /\ del' = [del EXCEPT ![k] = e]
        /\ \A s \in Results : TaskOf[s] = k /\ ~Absent(result, s) => s \in d.held
    BY <1>4 DEF DeleteLogs, Left, Absent
  <2>2. e \in Delete /\ e.pc = "logs" /\ e.held = d.held
    BY <1>1 DEF Delete
  <2>3. DeleteOK(k, e, deletes', result)
    BY <1>1, <2>1, <2>2 DEF DeleteOK
  <2>4. /\ deletes' \in Nat /\ deletes <= deletes'
        /\ \A q \in Requests : tx[q].held \cap e.held = {}
    BY <1>1, <2>1, <2>2
  <2> HIDE DEF e
  <2> QED
    BY <1>1, <2>1, <2>2, <2>3, <2>4, PendingDelete
<1>5. CASE AbortDelete(k)
  <2>1. NoDelete \in Delete /\ NoDelete.pc = "idle" /\ NoDelete.held = {}
    BY DEF NoDelete, Delete
  <2>2. UNCHANGED deletes /\ del' = [del EXCEPT ![k] = NoDelete]
    BY <1>5 DEF AbortDelete
  <2>3. DeleteOK(k, NoDelete, deletes', result)
    BY <2>1 DEF DeleteOK
  <2>4. /\ deletes' \in Nat /\ deletes <= deletes'
        /\ \A q \in Requests : tx[q].held \cap NoDelete.held = {}
    BY <1>1, <2>1, <2>2
  <2> QED
    BY <1>1, <2>1, <2>2, <2>3, <2>4, PendingDelete
<1> QED
  BY <1>2, <1>3, <1>4, <1>5

LEMMA CommitDeleteMark ==
  ASSUME Typed, MarkInv, NEW k \in Tasks, CommitDelete(k)
  PROVE  MarkInv'
<1> DEFINE d == [pc |-> "gone", held |-> {}]
<1>1. /\ UNCHANGED <<effects, req, tx, counted, lost, deletes>> /\ del[k].pc = "logs"
      /\ result' = [r \in Results |-> IF TaskOf[r] = k THEN NoResult ELSE result[r]]
      /\ logs' = {l \in logs : TaskOf[l.of] # k}
      /\ del'[k] = d /\ \A j \in Tasks : j # k => del'[j] = del[j]
  BY DEF CommitDelete, Typed
<1>2. /\ StaysAbsent(result, result')
      /\ \A r \in Results : TaskOf[r] = k => Absent(result', r)
      /\ \A r \in Results : TaskOf[r] # k => result'[r] = result[r]
  BY <1>1 DEF StaysAbsent, Absent, NoResult
<1>3. /\ \A q \in Requests : HeldOK(q, tx[q], result)
      /\ \A j \in Tasks : DeleteOK(j, del[j], deletes, result)
      /\ \A q \in Requests, j \in Tasks : tx[q].held \cap del[j].held = {}
  BY DEF MarkInv, LockInv
<1>4. LockInv'
  <2>1. ASSUME NEW q \in Requests PROVE HeldOK(q, tx[q], result')
    <3>1. ASSUME NEW y \in Results \cap tx[q].held PROVE ~Absent(result', y)
      <4>1. ~Absent(result, y)
        BY <1>3 DEF HeldOK
      <4>2. TaskOf[y] # k
        BY <1>1, <1>3, <4>1 DEF DeleteOK
      <4> QED
        BY <1>2, <4>1, <4>2 DEF Absent
    <3> QED
      BY <1>3, <3>1, HeldKept
  <2>2. ASSUME NEW j \in Tasks PROVE DeleteOK(j, del'[j], deletes, result')
    <3>1. CASE j = k
      <4>1. deletes # 0
        BY <1>1, <1>3 DEF DeleteOK
      <4> QED
        BY <1>1, <3>1, <4>1 DEF DeleteOK
    <3>2. CASE j # k
      <4>1. del[j] \in Delete
        BY DEF Typed
      <4>2. \A r \in Results : TaskOf[r] = j => (Absent(result, r) <=> Absent(result', r))
        BY <1>2, <3>2 DEF Absent
      <4> QED
        BY <1>1, <1>3, <3>2, <4>1, <4>2, DeleteKept
    <3> QED
      BY <3>1, <3>2
  <2>3. \A q \in Requests, j \in Tasks : tx[q].held \cap del'[j].held = {}
    BY <1>1, <1>3
  <2> QED
    BY <1>1, <2>1, <2>2, <2>3 DEF LockInv
<1>5. LogInv'
  <2>1. ASSUME NEW q \in Requests \ lost, Marking(req[q])
        PROVE  LogOK(req[q], tx[q], result') /\ LoggedOK(q, effects[q], logs', result')
    <3>1. LogOK(req[q], tx[q], result) /\ LoggedOK(q, effects[q], logs, result)
      BY <2>1 DEF MarkInv, LogInv
    <3>2. /\ TxTypeOK(tx[q]) /\ HasItem(req[q], tx[q]) /\ logs \subseteq Log
          /\ effects[q] \in SUBSET Results
      BY DEF Typed
    <3>3. tx[q].logs \subseteq Log /\ \A l \in logs : l.of \in Results
      BY <3>2 DEF TxTypeOK, Log
    <3>4. LogOK(req[q], tx[q], result')
      BY <1>2, <3>1, <3>2, <3>3, LogKept
    <3>5. \A r \in effects[q] : \/ Absent(result', r)
                                \/ \E l \in logs' : l.by = q /\ l.of = r /\ l.status = "success"
      BY <1>1, <1>2, <3>1, <3>2 DEF LoggedOK, StaysAbsent
    <3>6. \A l \in logs' : l.by = q /\ l.status = "success" =>
            l.of \in effects[q] \/ Absent(result', l.of)
      BY <1>1, <1>2, <3>1, <3>3 DEF LoggedOK, StaysAbsent
    <3> QED
      BY <3>4, <3>5, <3>6 DEF LoggedOK
  <2> QED
    BY <1>1, <2>1 DEF LogInv
<1>6. SumInv'
  <2> SUFFICES ASSUME OnlyMarks, Apart, NEW q \in Requests
               PROVE  CountOK(req[q], tx[q], action'[q], counted[q], effects[q], result')
    BY <1>1 DEF SumInv, OnlyMarks, Apart, OneTask
  <2>1. /\ CountOK(req[q], tx[q], action[q], counted[q], effects[q], result)
        /\ counted[q] \in SUBSET Results
    BY DEF MarkInv, SumInv, Typed
  <2>2. CountOK(req[q], tx[q], action[q], counted[q], effects[q], result')
    BY <1>2, <2>1, CountKept
  <2>3. action'[q] = action[q] \/ action'[q].status = "none"
    BY DEF CommitDelete, NoAction
  <2> QED
    BY <2>2, <2>3 DEF CountOK
<1>7. OrderInv' /\ NoLoss'
  BY <1>1 DEF MarkInv, OrderInv, NoLoss, OnlyMarks
<1> QED
  BY <1>4, <1>5, <1>6, <1>7 DEF MarkInv

LEMMA InitMark == Init => MarkInv
<1> SUFFICES ASSUME Init PROVE MarkInv
  OBVIOUS
<1>1. /\ NoTx.held = {} /\ NoTx.wrote = {} /\ NoTx.logs = {} /\ NoTx.mode = "none"
      /\ Idle.pc = "idle" /\ Idle.kind = "ignored" /\ Idle.ok = 0
      /\ Idle.ids = {} /\ Idle.todo = {}
      /\ NoAction.status = "none" /\ IsFiniteSet({}) /\ Cardinality({}) = 0
      /\ NoDelete.pc = "idle" /\ NoDelete.held = {}
  BY FS_EmptySet DEF NoTx, Idle, NoAction, NoDelete
<1>2. \A q \in Requests : /\ req[q] = Idle /\ tx[q] = NoTx /\ counted[q] = {}
                          /\ action[q] = NoAction /\ effects[q] = {}
  BY DEF Init
<1>3. LockInv
  <2>1. HeldOK(0, NoTx, result) /\ \A q \in Requests : HeldOK(q, NoTx, result)
    BY <1>1 DEF HeldOK
  <2>2. \A k \in Tasks : DeleteOK(k, NoDelete, deletes, result) /\ del[k] = NoDelete
    BY <1>1 DEF Init, DeleteOK
  <2> QED
    BY <1>1, <1>2, <2>1, <2>2 DEF LockInv
<1>4. OrderOK(Idle, NoTx, {}) /\ LogOK(Idle, NoTx, result)
  BY <1>1 DEF OrderOK, LogOK, Loop
<1>5. /\ CountOK(Idle, NoTx, NoAction, {}, {}, result)
      /\ \A q \in Requests : LoggedOK(q, {}, {}, result)
  BY <1>1 DEF CountOK, LoggedOK, Loop
<1>6. lost = {} /\ logs = {}
  BY DEF Init
<1> QED
  BY <1>2, <1>3, <1>4, <1>5, <1>6 DEF MarkInv, OrderInv, LogInv, SumInv, NoLoss

-----------------------------------------------------------------------------
IInv == Typed /\ OffInv /\ MarkInv

LEMMA TypeNext == Typed /\ Next => Typed'
  BY RequestTypes, ClosingTypes, EditTypes, DeleteTypes DEF Next, RequestStep

LEMMA OffNext == Typed /\ OffInv /\ Next => OffInv'
  BY ReadOff, OfflineOff, LogOff, UpdateOff, EndOff, OtherOff DEF Next, RequestStep

LEMMA MarkNext == Typed /\ MarkInv /\ Next => MarkInv'
<1> SUFFICES ASSUME Typed, MarkInv, Next PROVE MarkInv'
  OBVIOUS
<1>1. CASE \E q \in Requests : CreateAction(q) \/ RequestStep(q) \/ Crash(q)
  BY <1>1, CreateMark, OfflineMark, ReadMark, LogMark, UpdateMark, VictimMark, EndMark
     DEF RequestStep
<1>2. CASE \E a \in Articles : Edit(a)
  BY <1>2, EditMark
<1>3. CASE \E k \in Tasks : DeleteTask(k) \/ DeleteStep(k)
  BY <1>3, PendingMark, CommitDeleteMark DEF DeleteStep
<1> QED
  BY <1>1, <1>2, <1>3 DEF Next

(* The invariant holds in every reachable state of the batch actions of     *)
(* actions/service.go and the deletes of tasks/service.go, whatever fails   *)
(* and however their statements interleave.                                 *)
THEOREM Invariance == Spec => []IInv
<1>1. Init => IInv
  BY InitTypes, InitOff, InitMark DEF IInv
<1>2. IInv /\ [Next]_vars => IInv'
  <2> SUFFICES ASSUME IInv, [Next]_vars PROVE IInv'
    OBVIOUS
  <2>1. CASE Next
    BY <2>1, TypeNext, OffNext, MarkNext DEF IInv
  <2>2. CASE UNCHANGED vars
    <3>1. UNCHANGED <<article, result, logs, effects, action, req, tx, counted, lost,
                      faults, del, crashes, edits, deletes>>
      BY <2>2 DEF vars, tables, env
    <3>2. Typed' /\ OffInv'
      BY <3>1 DEF IInv, Typed, OffInv
    <3>3. MarkInv'
      BY <3>1 DEF IInv, MarkInv, LockInv, OrderInv, LogInv, SumInv, NoLoss, OnlyMarks,
                  Apart, OneTask
    <3> QED
      BY <3>2, <3>3 DEF IInv
  <2> QED
    BY <2>1, <2>2
<1> QED
  BY <1>1, <1>2, PTL DEF Spec

(* Every statement of a batch works on rows, locks and locals of the right  *)
(* type: an offline batch always has an article state to write (service.go  *)
(* 104-131), and locks are held only in a transaction.                      *)
THEOREM TypeCorrect == Spec => []TypeOK
<1>1. IInv => TypeOK
  BY DEF IInv, Typed, TypeOK, HasItem, Delete
<1> QED
  BY <1>1, Invariance, PTL

(* While nobody edits articles or deletes tasks, no fault, rollback,        *)
(* deadlock victim or autocommitted statement of BatchOffline leaves a      *)
(* result offlined whose article is not offline.                            *)
THEOREM OfflinedIsOfflineHolds == Spec => []OfflinedIsOffline
<1>1. IInv => OfflinedIsOffline
  BY DEF IInv, OffInv, RowsOff, OfflinedIsOffline, Off
<1> QED
  BY <1>1, Invariance, PTL

(* Until a deadlock rolls its transaction back, applyDisposition has        *)
(* changed a result that is still there exactly when it has logged the      *)
(* change; deleteTaskGraph takes logs only with their results.              *)
THEOREM ChangesAreLoggedHolds == Spec => []ChangesAreLogged
<1>1. IInv => ChangesAreLogged
  BY DEF IInv, MarkInv, LogInv, LoggedOK, Absent, ChangesAreLogged, Marking, Gone
<1> QED
  BY <1>1, Invariance, PTL

(* The summary that applyDisposition writes counts what is in the table or  *)
(* was deleted: uniqueUint64s puts the ids in ascending order and the       *)
(* DELETE of a task locks its results in that order, so that a deadlock     *)
(* between them takes back nothing that was counted, as long as no batch    *)
(* mixes tasks while one is deleted.                                        *)
THEOREM SummaryTrueHolds == Spec => []SummaryTrue
<1>1. IInv => SummaryTrue
  BY DEF IInv, MarkInv, SumInv, CountOK, Absent, SummaryTrue, SummaryHolds, Closed, Gone
<1> QED
  BY <1>1, Invariance, PTL

(* While no task is deleted no ignore or process batch is ever the victim   *)
(* of a deadlock: each runs to its end in one transaction.                  *)
THEOREM NoBatchIsLost == Spec => [](OnlyMarks /\ deletes = 0 => lost = {})
<1>1. IInv => (OnlyMarks /\ deletes = 0 => lost = {})
  BY DEF IInv, MarkInv, NoLoss
<1> QED
  BY <1>1, Invariance, PTL
=============================================================================
