-------------------------- MODULE ArticleLifecycle --------------------------
(***************************************************************************)
(* The single-article calls of lifecycle/service.go: OfflineArticle,       *)
(* UpdateArticleFields (rectify) and RepublishArticle, several at a time   *)
(* on the same article, with editors of the CMS beside them.               *)
(*                                                                         *)
(* Of the six editable fields two stand for the rest: title, a column of   *)
(* xt_article, and body, the one kept in xt_article_info.  A step is one   *)
(* statement; the rectify transaction locks the xt_article row with its    *)
(* first UPDATE, so its other statements and the COMMIT are one step.      *)
(***************************************************************************)
EXTENDS Integers, Sequences

CONSTANTS
  Titles, Bodies,       \* values of the two fields
  Calls, Kinds,         \* requests; which of the three calls they may make
  Faults, MaxFaults,    \* statements that may fail, and how often
  MaxCrashes, MaxEdits  \* bounds on the environment

Statements == {"read", "update", "write", "log"}

ASSUME LifecycleAssumption ==
  /\ Kinds \subseteq {"offline", "rectify", "republish"}
  /\ Faults \subseteq Statements
  /\ MaxFaults \in Nat /\ MaxCrashes \in Nat /\ MaxEdits \in Nat

VARIABLES
  state,        \* xt_article.state
  title, body,  \* xt_article.title, xt_article_info.body
  changes,      \* field change logs, in the order of their commits
  call,         \* control point and locals of each request
  (* history *)
  first,        \* the article's text at the beginning
  submitted,    \* texts that were submitted
  faults, crashes, edits

text   == <<title, body, changes>>
bounds == <<faults, crashes, edits>>
vars   == <<state, text, call, first, submitted, bounds>>

-----------------------------------------------------------------------------
States == {"online", "offline", "offline_sync", "audit", "deleted"}
Text   == [title : Titles, body : Bodies]
Change == [field : {"title"}, before : Titles, after : Titles]
            \cup [field : {"body"}, before : Bodies, after : Bodies]

(* old, new: the text read and the text submitted. *)
PCs == {"idle", "read", "info", "update", "write", "locked", "log", "ended"}
Call == [pc : PCs, kind : {"offline", "rectify", "republish"},
         old : Text, new : Text]

Become(c, x) == call' = [call EXCEPT ![c] = x]
Goto(c, label) == Become(c, [call[c] EXCEPT !.pc = label])

Fault(s) == s \in Faults /\ faults < MaxFaults /\ faults' = faults + 1
NoFault  == UNCHANGED faults

(* The article row is locked by a rectify transaction. *)
Locked == \E c \in Calls : call[c].pc = "locked"

(* DiffEditableFields: one entry per field whose submitted value differs   *)
(* from the value that was read.                                           *)
DiffHeadOnly(old, new) ==               \* bug: the body is not compared
  IF old.title = new.title THEN <<>>
  ELSE <<[field |-> "title", before |-> old.title, after |-> new.title]>>

DiffEditableFields(old, new) ==
  (IF old.title = new.title THEN <<>>
   ELSE <<[field |-> "title", before |-> old.title, after |-> new.title]>>)
  \o
  (IF old.body = new.body THEN <<>>
   ELSE <<[field |-> "body", before |-> old.body, after |-> new.body]>>)

-----------------------------------------------------------------------------
Request(c) ==
  /\ call[c].pc = "idle"
  /\ \E kind \in Kinds, new \in Text :
       /\ kind # "rectify" => new = first      \* there is no text
       /\ Become(c, [call[c] EXCEPT !.pc = "read", !.kind = kind, !.new = new])
       /\ submitted' = IF kind = "rectify" THEN submitted \cup {new} ELSE submitted
  /\ UNCHANGED <<state, text, first, bounds>>

(* Where the state that was read takes the call. *)
AfterRead(kind, s) ==
  CASE kind = "rectify" -> "info"
    [] kind = "offline" -> IF s = "online" THEN "update"
                           ELSE IF s \in {"offline", "offline_sync"} THEN "log"
                           ELSE "ended"
    [] kind = "republish" -> IF s = "audit" THEN "ended" ELSE "update"

ReadArticle(c) ==
  /\ call[c].pc = "read"
  /\ \/ NoFault /\ Become(c, [call[c] EXCEPT !.old.title = title,
                                !.pc = AfterRead(call[c].kind, state)])
     \/ Fault("read") /\ Goto(c, "ended")
  /\ UNCHANGED <<state, text, first, submitted, crashes, edits>>

(* OfflineArticle, RepublishArticle: UPDATE of the state, by id. *)
TargetAsKind(kind) == kind              \* bug: the action type as the state

TargetState(kind) == IF kind = "offline" THEN "offline" ELSE "audit"

UpdateState(c) ==
  /\ call[c].pc = "update" /\ ~Locked
  /\ \/ NoFault /\ state' = TargetState(call[c].kind) /\ Goto(c, "log")
     \/ /\ Fault("update") /\ Goto(c, "ended")
        /\ state' \in {state, TargetState(call[c].kind)}
  /\ UNCHANGED <<text, first, submitted, crashes, edits>>

(* writeOperationLog; an error is ignored. *)
WriteOperationLog(c) ==
  /\ call[c].pc = "log" /\ Goto(c, "ended")
  /\ (NoFault \/ Fault("log"))
  /\ UNCHANGED <<state, text, first, submitted, crashes, edits>>

(* UpdateArticleFields: the second read, and the diff. *)
ReadInfo(c) ==
  /\ call[c].pc = "info"
  /\ \/ /\ NoFault
        /\ LET old == [call[c].old EXCEPT !.body = body]
           IN  Become(c, [call[c] EXCEPT !.old = old,
                 !.pc = IF DiffEditableFields(old, call[c].new) = <<>>
                          THEN "ended" ELSE "write"])
     \/ Fault("read") /\ Goto(c, "ended")
  /\ UNCHANGED <<state, text, first, submitted, crashes, edits>>

(* The transaction: UPDATE xt_article, which others see only at the end. *)
LockArticleAtOnce(c) ==                 \* bug: no transaction around the UPDATEs
  /\ title' = call[c].new.title
  /\ UNCHANGED <<body, changes>>

LockArticle(c) == UNCHANGED text

UpdateArticle(c) ==
  /\ call[c].pc = "write" /\ ~Locked
  /\ \/ NoFault /\ LockArticle(c) /\ Goto(c, "locked")
     \/ Fault("write") /\ Goto(c, "ended") /\ UNCHANGED text
  /\ UNCHANGED <<state, first, submitted, crashes, edits>>

(* UPDATE xt_article_info, INSERT the change logs and the operation log,   *)
(* COMMIT; a failure rolls everything back.                                *)
Save(c) ==
  /\ title' = call[c].new.title /\ body' = call[c].new.body
  /\ changes' = changes \o DiffEditableFields(call[c].old, call[c].new)

UpdateInfo(c) ==
  /\ call[c].pc = "locked" /\ Goto(c, "ended")
  /\ \/ NoFault /\ Save(c)
     \/ Fault("write") /\ (Save(c) \/ UNCHANGED text)
  /\ UNCHANGED <<state, first, submitted, crashes, edits>>

Crash(c) ==
  /\ call[c].pc \notin {"idle", "ended"} /\ crashes < MaxCrashes
  /\ crashes' = crashes + 1
  /\ Goto(c, "ended")
  /\ UNCHANGED <<state, text, first, submitted, faults, edits>>

(* An editor publishes, withdraws or deletes the article. *)
Edit ==
  /\ edits < MaxEdits /\ ~Locked
  /\ edits' = edits + 1
  /\ \E s \in States \ {state} : state' = s
  /\ UNCHANGED <<text, call, first, submitted, faults, crashes>>

-----------------------------------------------------------------------------
Init ==
  /\ state \in States /\ title \in Titles /\ body \in Bodies
  /\ changes = <<>>
  /\ first = [title |-> title, body |-> body]
  /\ call = [c \in Calls |-> [pc |-> "idle", kind |-> "offline",
                              old |-> first, new |-> first]]
  /\ submitted = {}
  /\ faults = 0 /\ crashes = 0 /\ edits = 0

CallStep(c) == \/ Request(c) \/ ReadArticle(c) \/ UpdateState(c)
               \/ WriteOperationLog(c) \/ ReadInfo(c)
               \/ UpdateArticle(c) \/ UpdateInfo(c)

Next == (\E c \in Calls : CallStep(c) \/ Crash(c)) \/ Edit

Spec == Init /\ [][Next]_vars

-----------------------------------------------------------------------------
(* Properties *)

(* Types; and at most one transaction holds the article row                *)
(* (service.go:158-213).                                                   *)
TypeOK ==
  /\ state \in States /\ title \in Titles /\ body \in Bodies
  /\ changes \in Seq(Change) /\ call \in [Calls -> Call]
  /\ \A c, d \in Calls :
       call[c].pc = "locked" /\ call[d].pc = "locked" => c = d
  /\ first \in Text /\ submitted \subseteq Text
  /\ faults \in Nat /\ crashes \in Nat /\ edits \in Nat

(* The text is never a mix: title and body, kept in two tables, are always *)
(* from one submission, however many are saved at once and whichever       *)
(* statement fails (the transaction at service.go:158-213).                *)
NoTornEdit == [title |-> title, body |-> body] \in submitted \cup {first}

(* Replaying the change logs over the first text gives the text.  Not an    *)
(* invariant: see FreshSaveKeepsTrail.                                      *)
Replayed(field, v0) ==
  LET mine == {i \in 1 .. Len(changes) : changes[i].field = field}
  IN  IF mine = {} THEN v0
      ELSE changes[CHOOSE i \in mine : \A j \in mine : j <= i].after
ReplayGivesText == /\ title = Replayed("title", first.title)
                   /\ body = Replayed("body", first.body)

(* A rectify that read what it replaces keeps the trail true: its entries  *)
(* tell all it changed, also when reads, saves and failures of others      *)
(* interleave with its own (service.go:135-178).                           *)
FreshSaveKeepsTrail ==
  [][\A c \in Calls :
       /\ call[c].pc = "locked" /\ call'[c].pc = "ended"
       /\ call[c].old = [title |-> title, body |-> body] /\ ReplayGivesText
       => ReplayGivesText']_vars
=============================================================================
