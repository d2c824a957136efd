----------------------- MODULE ArticleLifecycleProofs -----------------------
(* Proofs about ArticleLifecycle: types, that a text is never a mix, and the   *)
(* trail of a fresh save.                                                     *)
EXTENDS ArticleLifecycle, NatExtrema, TLAPS

(* The part of TypeOK about locks, and the rest. *)
OneLock == \A c, d \in Calls :
             call[c].pc = "locked" /\ call[d].pc = "locked" => c = d

LEMMA BecomeType ==
  ASSUME call \in [Calls -> Call], NEW c \in Calls, NEW x \in Call, Become(c, x)
  PROVE  /\ call' \in [Calls -> Call] /\ call'[c] = x
         /\ \A d \in Calls : d # c => call'[d] = call[d]
BY DEF Become

LEMMA GotoType ==
  ASSUME call \in [Calls -> Call], NEW c \in Calls, NEW p \in PCs, Goto(c, p)
  PROVE  /\ call' \in [Calls -> Call]
         /\ call'[c] = [call[c] EXCEPT !.pc = p] /\ call'[c].pc = p
         /\ call'[c].kind = call[c].kind /\ call'[c].new = call[c].new
         /\ \A d \in Calls : d # c => call'[d] = call[d]
<1>1. [call[c] EXCEPT !.pc = p] \in Call
  BY DEF Call
<1> QED
  BY <1>1, BecomeType DEF Goto, Call

(* The diff of two texts is a sequence of changes. *)
LEMMA DiffType ==
  ASSUME NEW old \in Text, NEW new \in Text
  PROVE  DiffEditableFields(old, new) \in Seq(Change)
<1>1. /\ <<>> \in Seq(Change)
      /\ [field |-> "title", before |-> old.title, after |-> new.title] \in Change
      /\ [field |-> "body", before |-> old.body, after |-> new.body] \in Change
  BY DEF Text, Change
<1>2. \A e \in Change : <<e>> \in Seq(Change)
  OBVIOUS
<1>3. \A s, t \in Seq(Change) : s \o t \in Seq(Change)
  OBVIOUS
<1> QED
  BY <1>1, <1>2, <1>3 DEF DiffEditableFields

(* The whole step of one call: what happens to the others' control points  *)
(* and who may enter the locked section.                                   *)
TextTypeOK == title \in Titles /\ body \in Bodies /\ changes \in Seq(Change)

LEMMA SaveType ==
  ASSUME TextTypeOK, call \in [Calls -> Call], NEW c \in Calls, Save(c)
  PROVE  TextTypeOK'
<1>1. call[c].old \in Text /\ call[c].new \in Text
  BY DEF Call
<1>2. DiffEditableFields(call[c].old, call[c].new) \in Seq(Change)
  BY <1>1, DiffType
<1>3. title' \in Titles /\ body' \in Bodies
  BY <1>1 DEF Save, Text
<1>4. changes' \in Seq(Change)
  BY <1>2 DEF Save, TextTypeOK
<1> QED
  BY <1>3, <1>4 DEF TextTypeOK

LEMMA TypeInductive == TypeOK /\ [Next]_vars => TypeOK'
<1> SUFFICES ASSUME TypeOK, [Next]_vars PROVE TypeOK'
  OBVIOUS
<1>t. /\ state \in States /\ TextTypeOK /\ call \in [Calls -> Call] /\ OneLock
      /\ first \in Text /\ submitted \subseteq Text
      /\ faults \in Nat /\ crashes \in Nat /\ edits \in Nat
  BY DEF TypeOK, TextTypeOK, OneLock
<1>c. ASSUME NEW c \in Calls PROVE call[c] \in Call
  BY <1>t
<1>q. ASSUME state' \in States, TextTypeOK', call' \in [Calls -> Call], OneLock',
             first' \in Text, submitted' \subseteq Text,
             faults' \in Nat, crashes' \in Nat, edits' \in Nat
      PROVE  TypeOK'
  BY <1>q DEF TypeOK, TextTypeOK, OneLock
<1>s. UNCHANGED text => TextTypeOK'
  BY <1>t DEF text, TextTypeOK
<1>f. (NoFault => faults' \in Nat) /\ \A s : Fault(s) => faults' \in Nat
  BY <1>t DEF NoFault, Fault
(* A call that moves to x, not into the lock, keeps OneLock. *)
<1>m. ASSUME NEW c \in Calls, NEW x \in Call, Become(c, x), x.pc # "locked"
      PROVE  call' \in [Calls -> Call] /\ OneLock'
  BY <1>m, <1>t, BecomeType DEF OneLock
<1>g. ASSUME NEW c \in Calls, NEW p \in PCs, Goto(c, p), p # "locked"
      PROVE  call' \in [Calls -> Call] /\ OneLock'
  <2> DEFINE x == [call[c] EXCEPT !.pc = p]
  <2>1. x \in Call /\ x.pc # "locked"
    BY <1>g, <1>c DEF Call
  <2>2. Become(c, x)
    BY <1>g DEF Goto
  <2> HIDE DEF x
  <2> QED
    BY <2>1, <2>2, <1>m
<1>1. ASSUME NEW c \in Calls, Request(c) PROVE TypeOK'
  <2>1. PICK kind \in Kinds, new \in Text :
          /\ Become(c, [call[c] EXCEPT !.pc = "read", !.kind = kind, !.new = new])
          /\ submitted' = IF kind = "rectify" THEN submitted \cup {new} ELSE submitted
    BY <1>1 DEF Request
  <2>2. [call[c] EXCEPT !.pc = "read", !.kind = kind, !.new = new] \in Call
    BY <1>c, LifecycleAssumption DEF Call, PCs
  <2>3. [call[c] EXCEPT !.pc = "read", !.kind = kind, !.new = new].pc = "read"
    BY <1>c DEF Call
  <2>4. call' \in [Calls -> Call] /\ OneLock'
    BY <2>1, <2>2, <2>3, <1>m
  <2> QED
    BY <1>1, <1>q, <1>s, <1>t, <2>1, <2>4 DEF Request, bounds
<1>2. ASSUME NEW c \in Calls, ReadArticle(c) PROVE TypeOK'
  <2> DEFINE p == AfterRead(call[c].kind, state)
             x == [call[c] EXCEPT !.old.title = title, !.pc = p]
  <2>1. p \in PCs \ {"locked"}
    BY <1>t, <1>c DEF AfterRead, PCs, Call, States
  <2>2. x \in Call /\ x.pc # "locked"
    BY <2>1, <1>t, <1>c DEF Call, Text, TextTypeOK
  <2>3. CASE NoFault /\ Become(c, x)
    BY <1>2, <1>m, <1>f, <1>q, <1>s, <1>t, <2>2, <2>3 DEF ReadArticle
  <2>4. CASE Fault("read") /\ Goto(c, "ended")
    BY <1>2, <1>g, <1>f, <1>q, <1>s, <1>t, <2>4 DEF ReadArticle, PCs
  <2> QED
    BY <1>2, <2>3, <2>4 DEF ReadArticle
<1>3. ASSUME NEW c \in Calls, UpdateState(c) PROVE TypeOK'
  <2>1. state' \in States
    BY <1>3, <1>t DEF UpdateState, TargetState, States
  <2>2. call' \in [Calls -> Call] /\ OneLock' /\ faults' \in Nat
    BY <1>3, <1>g, <1>f DEF UpdateState, PCs
  <2> QED
    BY <1>3, <1>q, <1>s, <1>t, <2>1, <2>2 DEF UpdateState
<1>4. ASSUME NEW c \in Calls, WriteOperationLog(c) PROVE TypeOK'
  BY <1>4, <1>g, <1>f, <1>q, <1>s, <1>t DEF WriteOperationLog, PCs
<1>5. ASSUME NEW c \in Calls, ReadInfo(c) PROVE TypeOK'
  <2> DEFINE old == [call[c].old EXCEPT !.body = body]
             p == IF DiffEditableFields(old, call[c].new) = <<>>
                    THEN "ended" ELSE "write"
             x == [call[c] EXCEPT !.old = old, !.pc = p]
  <2>1. old \in Text
    BY <1>t, <1>c DEF Call, Text, TextTypeOK
  <2>2. p \in PCs \ {"locked"}
    BY DEF PCs
  <2> HIDE DEF old, p
  <2>3. x \in Call /\ x.pc # "locked"
    BY <2>1, <2>2, <1>c DEF Call
  <2>4. CASE NoFault /\ Become(c, x)
    BY <1>5, <1>m, <1>f, <1>q, <1>s, <1>t, <2>3, <2>4 DEF ReadInfo
  <2>5. CASE Fault("read") /\ Goto(c, "ended")
    BY <1>5, <1>g, <1>f, <1>q, <1>s, <1>t, <2>5 DEF ReadInfo, PCs
  <2> QED
    BY <1>5, <2>4, <2>5 DEF ReadInfo, old, p
<1>6. ASSUME NEW c \in Calls, UpdateArticle(c) PROVE TypeOK'
  <2>1. UNCHANGED text /\ faults' \in Nat
    BY <1>6, <1>f DEF UpdateArticle, LockArticle
  <2>2. call' \in [Calls -> Call] /\ OneLock'
    <3>1. CASE Goto(c, "locked")
      <4>1. \A d \in Calls : call[d].pc # "locked"
        BY <1>6 DEF UpdateArticle, Locked
      <4> QED
        BY <3>1, <4>1, <1>t, GotoType DEF OneLock, PCs
    <3>2. CASE Goto(c, "ended")
      BY <3>2, <1>g DEF PCs
    <3> QED
      BY <1>6, <3>1, <3>2 DEF UpdateArticle
  <2> QED
    BY <1>6, <1>q, <1>s, <1>t, <2>1, <2>2 DEF UpdateArticle
<1>7. ASSUME NEW c \in Calls, UpdateInfo(c) PROVE TypeOK'
  <2>1. TextTypeOK' /\ faults' \in Nat
    BY <1>7, <1>t, <1>s, <1>f, SaveType DEF UpdateInfo
  <2>2. call' \in [Calls -> Call] /\ OneLock'
    BY <1>7, <1>g DEF UpdateInfo, PCs
  <2> QED
    BY <1>7, <1>q, <1>t, <2>1, <2>2 DEF UpdateInfo
<1>8. ASSUME NEW c \in Calls, Crash(c) PROVE TypeOK'
  BY <1>8, <1>g, <1>q, <1>s, <1>t DEF Crash, PCs
<1>9. CASE Edit
  BY <1>9, <1>q, <1>s, <1>t DEF Edit, OneLock
<1>10. CASE UNCHANGED vars
  BY <1>10, <1>q, <1>s, <1>t DEF vars, bounds, OneLock
<1> QED
  BY <1>1, <1>2, <1>3, <1>4, <1>5, <1>6, <1>7, <1>8, <1>9, <1>10 DEF Next, CallStep

LEMMA TypeInit == Init => TypeOK
<1> SUFFICES ASSUME Init PROVE TypeOK
  OBVIOUS
<1>1. first \in Text /\ changes \in Seq(Change)
  BY DEF Init, Text
<1>2. call \in [Calls -> Call] /\ \A c \in Calls : call[c].pc = "idle"
  BY <1>1 DEF Init, Call, PCs
<1> QED
  BY <1>1, <1>2 DEF Init, TypeOK

(* Every reachable state is well typed, and at most one rectification holds *)
(* the article row.                                                         *)
THEOREM TypeCorrect == Spec => []TypeOK
BY TypeInit, TypeInductive, PTL DEF Spec

-----------------------------------------------------------------------------
(* A call that saves text saves a submission. *)
SavesSubmitted ==
  \A c \in Calls :
    /\ call[c].pc \in {"info", "write", "locked"} => call[c].kind = "rectify"
    /\ call[c].kind = "rectify" /\ call[c].pc # "idle" => call[c].new \in submitted

TextInv == SavesSubmitted /\ NoTornEdit

LEMMA TextInductive == TypeOK /\ TextInv /\ [Next]_vars => TextInv'
<1> SUFFICES ASSUME TypeOK, TextInv, [Next]_vars PROVE TextInv'
  OBVIOUS
<1>t. call \in [Calls -> Call]
  BY DEF TypeOK
<1>c. ASSUME NEW c \in Calls PROVE call[c] \in Call
  BY <1>t
(* A call keeps its kind and text and goes to a place it may be in. *)
<1>m. ASSUME NEW c \in Calls, UNCHANGED submitted,
             call[c].pc # "idle",
             call'[c].kind = call[c].kind, call'[c].new = call[c].new,
             call'[c].pc \in {"info", "write", "locked"} => call[c].kind = "rectify",
             \A d \in Calls : d # c => call'[d] = call[d]
      PROVE  SavesSubmitted'
  BY <1>m DEF TextInv, SavesSubmitted
<1>g. ASSUME NEW c \in Calls, NEW p \in PCs, Goto(c, p), UNCHANGED submitted,
             call[c].pc # "idle",
             p \in {"info", "write", "locked"} => call[c].kind = "rectify"
      PROVE  SavesSubmitted'
  BY <1>g, <1>m, <1>t, GotoType
<1>s. UNCHANGED <<text, first, submitted>> => NoTornEdit'
  BY DEF TextInv, NoTornEdit, text
<1>1. ASSUME NEW c \in Calls, Request(c) PROVE TextInv'
  <2>1. PICK kind \in Kinds, new \in Text :
          /\ Become(c, [call[c] EXCEPT !.pc = "read", !.kind = kind, !.new = new])
          /\ submitted' = IF kind = "rectify" THEN submitted \cup {new} ELSE submitted
    BY <1>1 DEF Request
  <2> DEFINE x == [call[c] EXCEPT !.pc = "read", !.kind = kind, !.new = new]
  <2>2. x \in Call /\ x.pc = "read" /\ x.kind = kind /\ x.new = new
    BY <1>c, LifecycleAssumption DEF Call, PCs
  <2>3. call'[c] = x /\ \A d \in Calls : d # c => call'[d] = call[d]
    BY <2>1, <2>2, <1>t, BecomeType
  <2>4. submitted \subseteq submitted'
    BY <2>1
  <2>5. SavesSubmitted'
    BY <2>1, <2>2, <2>3, <2>4 DEF TextInv, SavesSubmitted
  <2>6. NoTornEdit'
    BY <1>1, <2>4 DEF TextInv, NoTornEdit, Request, text
  <2> QED
    BY <2>5, <2>6 DEF TextInv
<1>2. ASSUME NEW c \in Calls, ReadArticle(c) PROVE TextInv'
  <2> DEFINE p == AfterRead(call[c].kind, state)
             x == [call[c] EXCEPT !.old.title = title, !.pc = p]
  <2>1. p \in PCs /\ (p \in {"info", "write", "locked"} => call[c].kind = "rectify")
    BY <1>c DEF AfterRead, PCs, Call, TypeOK, States
  <2>2. x \in Call /\ x.pc = p /\ x.kind = call[c].kind /\ x.new = call[c].new
    BY <2>1, <1>c DEF Call, Text, TypeOK
  <2>3. CASE Become(c, x)
    BY <1>2, <1>m, <1>t, <2>1, <2>2, <2>3, BecomeType, <1>s DEF ReadArticle, TextInv
  <2>4. CASE Goto(c, "ended")
    BY <1>2, <1>g, <1>s, <2>4 DEF ReadArticle, PCs, TextInv
  <2> QED
    BY <1>2, <2>3, <2>4 DEF ReadArticle
<1>3. ASSUME NEW c \in Calls, UpdateState(c) PROVE TextInv'
  BY <1>3, <1>g, <1>s DEF UpdateState, PCs, TextInv
<1>4. ASSUME NEW c \in Calls, WriteOperationLog(c) PROVE TextInv'
  BY <1>4, <1>g, <1>s DEF WriteOperationLog, PCs, TextInv
<1>5. ASSUME NEW c \in Calls, ReadInfo(c) PROVE TextInv'
  <2>1. call[c].kind = "rectify" /\ call[c].pc # "idle"
    BY <1>5 DEF ReadInfo, TextInv, SavesSubmitted
  <2>2. PICK x \in Call : /\ Become(c, x)
                          /\ x.kind = call[c].kind /\ x.new = call[c].new
    <3> DEFINE old == [call[c].old EXCEPT !.body = body]
               p == IF DiffEditableFields(old, call[c].new) = <<>>
                      THEN "ended" ELSE "write"
               y == [call[c] EXCEPT !.old = old, !.pc = p]
               z == [call[c] EXCEPT !.pc = "ended"]
    <3>1. old \in Text /\ p \in PCs
      BY <1>c DEF Call, Text, TypeOK, PCs
    <3>2. Become(c, y) \/ Become(c, z)
      BY <1>5 DEF ReadInfo, Goto
    <3> HIDE DEF old, p
    <3>3. /\ y \in Call /\ y.kind = call[c].kind /\ y.new = call[c].new
          /\ z \in Call /\ z.kind = call[c].kind /\ z.new = call[c].new
      BY <3>1, <1>c DEF Call, PCs
    <3> QED
      BY <3>2, <3>3
  <2> QED
    BY <1>5, <1>m, <1>s, <1>t, <2>1, <2>2, BecomeType DEF ReadInfo, TextInv
<1>6. ASSUME NEW c \in Calls, UpdateArticle(c) PROVE TextInv'
  <2>1. call[c].kind = "rectify" /\ call[c].pc # "idle"
    BY <1>6 DEF UpdateArticle, TextInv, SavesSubmitted
  <2> QED
    BY <1>6, <1>g, <1>s, <2>1 DEF UpdateArticle, LockArticle, PCs, TextInv
<1>7. ASSUME NEW c \in Calls, UpdateInfo(c) PROVE TextInv'
  <2>1. call[c].new \in submitted /\ call[c].new \in Text
    BY <1>7, <1>c DEF UpdateInfo, TextInv, SavesSubmitted, Call
  <2>2. SavesSubmitted'
    BY <1>7, <1>g DEF UpdateInfo, PCs
  <2>3. CASE Save(c)
    <3>1. [title |-> title', body |-> body'] = call[c].new
      BY <2>1, <2>3 DEF Save, Text
    <3> QED
      BY <1>7, <2>1, <2>2, <3>1 DEF UpdateInfo, TextInv, NoTornEdit
  <2>4. CASE UNCHANGED text
    BY <1>7, <1>s, <2>2, <2>4 DEF UpdateInfo, TextInv
  <2> QED
    BY <1>7, <2>3, <2>4 DEF UpdateInfo
<1>8. ASSUME NEW c \in Calls, Crash(c) PROVE TextInv'
  BY <1>8, <1>g, <1>s DEF Crash, PCs, TextInv
<1>9. CASE Edit
  BY <1>9, <1>s DEF Edit, TextInv, SavesSubmitted
<1>10. CASE UNCHANGED vars
  BY <1>10, <1>s DEF vars, TextInv, SavesSubmitted
<1> QED
  BY <1>1, <1>2, <1>3, <1>4, <1>5, <1>6, <1>7, <1>8, <1>9, <1>10 DEF Next, CallStep

(* For any number of calls, faults and crashes, title and body are from one *)
(* submission.                                                              *)
THEOREM TextNeverTorn == Spec => []NoTornEdit
<1>1. Init => TextInv
  BY DEF Init, TextInv, SavesSubmitted, NoTornEdit
<1>2. TextInv => NoTornEdit
  BY DEF TextInv
<1> QED
  BY <1>1, <1>2, TypeCorrect, TextInductive, PTL DEF Spec

-----------------------------------------------------------------------------
(* The trail.  What the entries of a log s say of a field: the last one     *)
(* counts.                                                                  *)
Mine(s, field) == {i \in 1 .. Len(s) : s[i].field = field}
LastOf(s, field, v0) ==
  IF Mine(s, field) = {} THEN v0
  ELSE s[CHOOSE i \in Mine(s, field) : \A j \in Mine(s, field) : j <= i].after

(* The greatest index is the one that is chosen. *)
LEMMA LastChosen ==
  ASSUME NEW s \in Seq(Change), NEW field, NEW v0, NEW i \in Mine(s, field),
         \A j \in Mine(s, field) : j <= i
  PROVE  LastOf(s, field, v0) = s[i].after
<1> DEFINE k == CHOOSE k \in Mine(s, field) : \A j \in Mine(s, field) : j <= k
<1>1. k \in Mine(s, field) /\ \A j \in Mine(s, field) : j <= k
  OBVIOUS
<1>2. Mine(s, field) \subseteq Nat
  BY DEF Mine
<1>3. k = i
  <2> HIDE DEF k
  <2> QED BY <1>1, <1>2
<1> QED
  BY <1>3 DEF LastOf

(* One more entry tells its field's new value and leaves the others alone.  *)
LEMMA OneMore ==
  ASSUME NEW s \in Seq(Change), NEW e \in Change, NEW field, NEW v0
  PROVE  LastOf(s \o <<e>>, field, v0)
           = IF e.field = field THEN e.after ELSE LastOf(s, field, v0)
<1> DEFINE u == s \o <<e>>
<1>1. /\ u \in Seq(Change) /\ Len(u) = Len(s) + 1 /\ Len(s) \in Nat
      /\ u[Len(s) + 1] = e /\ \A i \in 1 .. Len(s) : u[i] = s[i]
  OBVIOUS
<1> HIDE DEF u
<1>2. CASE e.field = field
  <2>1. Len(u) \in Mine(u, field) /\ \A j \in Mine(u, field) : j <= Len(u)
    BY <1>1, <1>2 DEF Mine
  <2>2. LastOf(u, field, v0) = u[Len(u)].after
    BY <1>1, <2>1, LastChosen
  <2> QED
    BY <1>1, <1>2, <2>2 DEF u
<1>3. CASE e.field # field
  <2>1. Mine(u, field) = Mine(s, field)
    <3>1. ASSUME NEW i \in Mine(u, field) PROVE i \in Mine(s, field)
      <4>1. i \in 1 .. Len(u) /\ u[i].field = field
        BY DEF Mine
      <4>2. i # Len(s) + 1
        BY <1>1, <1>3, <4>1
      <4>3. i \in 1 .. Len(s)
        BY <1>1, <4>1, <4>2
      <4> QED BY <1>1, <4>1, <4>3 DEF Mine
    <3>2. ASSUME NEW i \in Mine(s, field) PROVE i \in Mine(u, field)
      BY <1>1 DEF Mine
    <3> QED BY <3>1, <3>2
  <2>2. CASE Mine(s, field) = {}
    BY <1>3, <2>1, <2>2 DEF LastOf, u
  <2>3. CASE Mine(s, field) # {}
    <3>1. Mine(s, field) \in SUBSET (1 .. Len(s))
      BY DEF Mine
    <3>2. PICK i \in Mine(s, field) : \A j \in Mine(s, field) : j <= i
      BY <1>1, <2>3, <3>1, GreatestIndex
    <3>3. LastOf(s, field, v0) = s[i].after
      BY <3>2, LastChosen
    <3>4. LastOf(u, field, v0) = u[i].after
      BY <1>1, <2>1, <3>2, LastChosen
    <3>5. u[i] = s[i]
      BY <1>1, <3>1, <3>2
    <3> QED BY <1>3, <3>3, <3>4, <3>5 DEF u
  <2> QED BY <2>2, <2>3
<1> QED
  BY <1>2, <1>3

(* A log that tells the text old, with the diff to new, tells new. *)
LEMMA DiffTells ==
  ASSUME NEW s \in Seq(Change), NEW old \in Text, NEW new \in Text, NEW v, NEW b,
         LastOf(s, "title", v) = old.title, LastOf(s, "body", b) = old.body
  PROVE  LET z == s \o DiffEditableFields(old, new)
         IN  LastOf(z, "title", v) = new.title /\ LastOf(z, "body", b) = new.body
<1> DEFINE p == [field |-> "title", before |-> old.title, after |-> new.title]
           q == [field |-> "body", before |-> old.body, after |-> new.body]
           z == s \o DiffEditableFields(old, new)
<1>1. /\ p \in Change /\ p.field = "title" /\ p.after = new.title
      /\ q \in Change /\ q.field = "body" /\ q.after = new.body
  BY DEF Text, Change
<1>2. DiffEditableFields(old, new)
        = (IF old.title = new.title THEN <<>> ELSE <<p>>)
          \o (IF old.body = new.body THEN <<>> ELSE <<q>>)
  BY DEF DiffEditableFields
<1> HIDE DEF p, q
<1>3. /\ \A r \in Seq(Change) : r \o <<>> = r /\ <<>> \o r = r
      /\ \A r \in Seq(Change) : \A e \in Change : <<e>> \in Seq(Change) /\ r \o <<e>> \in Seq(Change)
      /\ s \o (<<p>> \o <<q>>) = (s \o <<p>>) \o <<q>>
  BY <1>1
<1>4. CASE old.title = new.title /\ old.body = new.body
  <2>1. z = s
    BY <1>2, <1>3, <1>4
  <2> QED BY <1>4, <2>1
<1>5. CASE old.title = new.title /\ old.body # new.body
  <2>1. z = s \o <<q>>
    BY <1>1, <1>2, <1>3, <1>5
  <2> QED BY <1>1, <1>5, <2>1, OneMore
<1>6. CASE old.title # new.title /\ old.body = new.body
  <2>1. z = s \o <<p>>
    BY <1>1, <1>2, <1>3, <1>6
  <2> QED BY <1>1, <1>6, <2>1, OneMore
<1>7. CASE old.title # new.title /\ old.body # new.body
  <2> DEFINE r == s \o <<p>>
  <2>1. z = r \o <<q>> /\ r \in Seq(Change)
    BY <1>1, <1>2, <1>3, <1>7
  <2>2. LastOf(r, "title", v) = new.title
    BY <1>1, OneMore
  <2> HIDE DEF r
  <2>3. LastOf(r \o <<q>>, "title", v) = new.title
        /\ LastOf(r \o <<q>>, "body", b) = new.body
    BY <1>1, <2>1, <2>2, OneMore
  <2> QED BY <2>1, <2>3
<1> QED
  BY <1>4, <1>5, <1>6, <1>7

(* For any number of calls, reads, saves and failures that interleave: a    *)
(* rectification that read what it replaces keeps the change logs true to   *)
(* the text (service.go:135-178).                                           *)
THEOREM FreshSaveKeepsTrailHolds == Spec => FreshSaveKeepsTrail
<1>1. ASSUME TypeOK, [Next]_vars, NEW c \in Calls,
             call[c].pc = "locked", call'[c].pc = "ended",
             call[c].old = [title |-> title, body |-> body], ReplayGivesText
      PROVE  ReplayGivesText'
  <2>t. call \in [Calls -> Call] /\ changes \in Seq(Change)
    BY <1>1 DEF TypeOK
  <2>r. /\ ReplayGivesText <=> /\ title = LastOf(changes, "title", first.title)
                               /\ body = LastOf(changes, "body", first.body)
        /\ ReplayGivesText' <=> /\ title' = LastOf(changes', "title", first'.title)
                                /\ body' = LastOf(changes', "body", first'.body)
    BY DEF ReplayGivesText, Replayed, LastOf, Mine
  <2>1. CASE UNCHANGED <<title, body, changes, first>>
    BY <1>1, <2>1, <2>r
  <2>2. CASE Save(c) /\ UNCHANGED first
    <3> DEFINE old == call[c].old
               new == call[c].new
    <3>1. old \in Text /\ new \in Text /\ old.title = title /\ old.body = body
      BY <1>1, <2>t DEF Call
    <3>2. /\ LastOf(changes, "title", first.title) = old.title
          /\ LastOf(changes, "body", first.body) = old.body
      BY <1>1, <2>r, <3>1
    <3>3. /\ title' = new.title /\ body' = new.body /\ first' = first
          /\ changes' = changes \o DiffEditableFields(old, new)
      BY <2>2 DEF Save
    <3> HIDE DEF old, new
    <3> QED
      BY <2>r, <2>t, <3>1, <3>2, <3>3, DiffTells
  <2>3. ASSUME NEW d \in Calls, UpdateInfo(d)
        PROVE  (Save(c) /\ UNCHANGED first) \/ UNCHANGED <<title, body, changes, first>>
    <3>1. d = c
      BY <1>1, <2>3, <2>t DEF UpdateInfo, TypeOK
    <3> QED
      BY <2>3, <3>1 DEF UpdateInfo, text
  <2>4. ASSUME NEW d \in Calls,
               \/ Request(d) \/ ReadArticle(d) \/ UpdateState(d) \/ WriteOperationLog(d)
               \/ ReadInfo(d) \/ UpdateArticle(d) \/ Crash(d)
        PROVE  UNCHANGED <<title, body, changes, first>>
    BY <2>4 DEF Request, ReadArticle, UpdateState, WriteOperationLog, ReadInfo,
       UpdateArticle, LockArticle, Crash, text
  <2>5. Edit \/ UNCHANGED vars => UNCHANGED <<title, body, changes, first>>
    BY DEF Edit, vars, text
  <2> QED
    BY <1>1, <2>1, <2>2, <2>3, <2>4, <2>5 DEF Next, CallStep
<1>2. TypeOK /\ [Next]_vars =>
        [\A c \in Calls :
           /\ call[c].pc = "locked" /\ call'[c].pc = "ended"
           /\ call[c].old = [title |-> title, body |-> body] /\ ReplayGivesText
           => ReplayGivesText']_vars
  BY <1>1
<1> QED
  BY <1>2, TypeCorrect, PTL DEF Spec, FreshSaveKeepsTrail
=============================================================================
