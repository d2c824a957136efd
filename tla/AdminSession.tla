---------------------------- MODULE AdminSession ----------------------------
(***************************************************************************)
(* Logging in to the admin console (api/handlers/auth.go,                  *)
(* identity/admin_session_token.go, middleware/session.go).                *)
(*                                                                         *)
(* A browser comes with a token of the legacy system.  It gets a session   *)
(* token as a cookie at once (/auth/login?jwt=), or first exchanges it for *)
(* a one-time code and redeems that later (/auth/login?code=).  Codes are  *)
(* kept in memory, under a mutex, and their clock is read before the mutex *)
(* is taken.  Every request passes SessionContext first, and the timeout   *)
(* handler may answer the browser while the handler is still at work.      *)
(***************************************************************************)
EXTENDS Integers, Sequences, FiniteSets

CONSTANTS
  Browsers, Requests,        \* browsers; connections, one request each at a time
  Codes,                     \* what generateExchangeCode may draw
  LegacyTokens,              \* what is presented as a legacy token
  CodeTTL, SessionTTL,       \* 90 seconds; auth.session.ttl_hours
  MaxTime, MaxSends, MaxIssues, MaxRestarts       \* bounds

NoCode == "no code"
NoBrowser == "no browser"
NoExp == -1       \* a legacy token without an exp claim
Claim == [kind : {"absent", "number", "text", "other"}, val : Int]
LegacyToken == [id : Claim, orgid : Claim, exp : Nat \cup {NoExp},
                signed : BOOLEAN]

ASSUME SessionAssumption ==
  /\ LegacyTokens \subseteq LegacyToken
  /\ CodeTTL \in Nat \ {0} /\ SessionTTL \in Nat /\ CodeTTL < SessionTTL
  /\ NoCode \notin Codes /\ NoBrowser \notin Browsers
  /\ MaxTime \in Nat /\ MaxSends \in Nat
  /\ MaxIssues \in Nat /\ MaxRestarts \in Nat

VARIABLES
  now,          \* the clock, in seconds
  store,        \* entries of authExchangeCodeStore
  cookie,       \* the session cookie each browser holds
  known,        \* the codes each browser was given
  req,          \* control point and locals of each request
  (* history *)
  issues,       \* every code handed out, in order
  grants,       \* legacy tokens accepted: for whom and when
  sends, restarts

vars == <<now, store, cookie, known, req, issues, grants, sends, restarts>>

-----------------------------------------------------------------------------
None == [user |-> 0, org |-> 0, nbf |-> 0, exp |-> 0]       \* no token
SessionJWT == [user : Nat, org : Nat, nbf : Nat, exp : Nat]

(* A stored entry, and which of the issued codes it is. *)
Entry == [jwt : SessionJWT, codeExpiry : Nat, issue : Nat]
NoEntry == [jwt |-> None, codeExpiry |-> 0, issue |-> 0]

Issue == [code : Codes, expiry : Nat, uses : Nat, usedAt : Nat,
          lost : BOOLEAN]

(* A cookie and the second at which the browser drops it. *)
Cookie == [jwt : SessionJWT, until : Nat]
NoCookie == [jwt |-> None, until |-> 0]

NoClaim == [kind |-> "absent", val |-> 0]
(* Also what a request without a token comes down to: it is refused like a  *)
(* bad one.                                                                 *)
NoToken == [id |-> NoClaim, orgid |-> NoClaim, exp |-> NoExp, signed |-> FALSE]
Tokens  == LegacyTokens \cup {NoToken}

Kinds == {"code", "jwt", "exchange", "session", "logout"}

(* sent: the cookie that came along; sess: the session SessionContext      *)
(* found, at time routed; clear: it cleared the cookie; at: the store's    *)
(* reading of the clock; jwt: the new session; gone: the browser has an    *)
(* answer.  effect: what the answer does to the cookie; new: its code.     *)
Request ==
  [pc : {"idle", "sent", "routed", "consume", "signed", "issue", "replied"},
   b : Browsers \cup {NoBrowser}, kind : Kinds, code : Codes \cup {NoCode},
   token : Tokens, sent : SessionJWT,
   sess : SessionJWT, routed : Nat, clear : BOOLEAN,
   at : Nat, jwt : SessionJWT, gone : BOOLEAN,
   effect : {"keep", "clear", "set"}, maxAge : Nat,
   new : Codes \cup {NoCode}]
NewRequest(pc, b, kind, code, token, sent) ==
  [pc |-> pc, b |-> b, kind |-> kind, code |-> code, token |-> token,
   sent |-> sent, sess |-> None, routed |-> 0, clear |-> FALSE, at |-> 0,
   jwt |-> None, gone |-> FALSE, effect |-> "keep", maxAge |-> 0,
   new |-> NoCode]
NoRequest == NewRequest("idle", NoBrowser, "session", NoCode, NoToken, None)

TypeOK ==
  /\ now \in 0..MaxTime
  /\ store \in [Codes -> Entry]
  /\ cookie \in [Browsers -> Cookie]
  /\ known \in [Browsers -> SUBSET Codes]
  /\ req \in [Requests -> Request]
  /\ issues \in Seq(Issue) /\ Len(issues) <= MaxIssues
  /\ grants \subseteq [user : Nat, org : Nat, at : Nat]
  /\ sends \in 0..MaxSends /\ restarts \in 0..MaxRestarts

Init ==
  /\ now = 0 /\ sends = 0 /\ restarts = 0
  /\ store = [c \in Codes |-> NoEntry]
  /\ cookie = [b \in Browsers |-> NoCookie]
  /\ known = [b \in Browsers |-> {}]
  /\ req = [r \in Requests |-> NoRequest]
  /\ issues = <<>> /\ grants = {}

-----------------------------------------------------------------------------
(* Tokens. *)

Bad == -1
(* A JSON number arrives as a float64 and is cut to a whole number: val is *)
(* in halves.  Text is parsed; a negative val stands for any other text.   *)
coerceUint64_NoSign(c) ==
  CASE c.kind = "number" -> c.val \div 2 [] c.kind = "text" -> c.val
    [] OTHER -> Bad
coerceUint64(c) ==
  CASE c.kind = "number" /\ c.val >= 0 -> c.val \div 2
    [] c.kind = "text" /\ c.val >= 0   -> c.val
    [] OTHER                           -> Bad

legacyUint64Claim(c) == IF c.kind = "absent" THEN Bad ELSE coerceUint64(c)

(* Whom a legacy token is about; org 0 when the claims are refused. *)
mapLegacyAdminSession(t) ==
  LET user == legacyUint64Claim(t.id)
      org  == legacyUint64Claim(t.orgid)
  IN IF user \in {Bad, 0} \/ org \in {Bad, 0}
       THEN [user |-> 0, org |-> 0] ELSE [user |-> user, org |-> org]

SignSessionJWT(s) ==
  IF s.user = 0 \/ s.org = 0 THEN None
  ELSE [user |-> s.user, org |-> s.org, nbf |-> now, exp |-> now + SessionTTL]

ExchangeLegacyJWT(t) ==
  IF ~t.signed \/ (t.exp # NoExp /\ now >= t.exp) THEN None
  ELSE SignSessionJWT(mapLegacyAdminSession(t))

ParseSessionJWT_NoExpiry(j, t) ==
  IF j.nbf <= t /\ j.user # 0 /\ j.org # 0 THEN j ELSE None
ParseSessionJWT_Early(j, t) ==
  IF j.nbf <= t /\ t + 1 < j.exp /\ j.user # 0 /\ j.org # 0 THEN j ELSE None
ParseSessionJWT(j, t) ==
  IF j.nbf <= t /\ t < j.exp /\ j.user # 0 /\ j.org # 0 THEN j ELSE None

Granted(j) == grants' = IF j = None THEN grants
              ELSE grants \cup {[user |-> j.user, org |-> j.org, at |-> j.nbf]}

-----------------------------------------------------------------------------
(* Requests. *)

Become(r, x) == req' = [req EXCEPT ![r] = x]

(* What r answers: the effect on the cookie, the token to set, a code.     *)
(* The other locals have served.  After a timeout the answer goes nowhere. *)
Reply(r, effect, jwt, code) ==
  LET q == req[r] IN
  Become(r, IF q.gone THEN NoRequest
            ELSE [NewRequest("replied", q.b, q.kind, NoCode, NoToken, q.sent)
                    EXCEPT !.clear = q.clear, !.effect = effect,
                           !.jwt = jwt, !.new = code,
                           !.maxAge = IF effect = "set" /\ jwt.exp > now
                                      THEN jwt.exp - now ELSE 0])

(* The cookie is sent while the browser still holds it. *)
Send(r, b, kind, code, token) ==
  /\ req[r].pc = "idle" /\ sends < MaxSends /\ sends' = sends + 1
  /\ IF kind = "code" THEN code \in known[b] ELSE code = NoCode
  /\ IF kind \in {"jwt", "exchange"} THEN token \in LegacyTokens
                                     ELSE token = NoToken
  /\ Become(r, NewRequest("sent", b, kind, code, token,
                IF now < cookie[b].until THEN cookie[b].jwt ELSE None))
  /\ UNCHANGED <<now, store, cookie, known, issues, grants, restarts>>

(* A request without a cookie goes on anonymously; a cookie that does not  *)
(* parse is cleared and the request goes on anonymously too.               *)
SessionContext(r) ==
  /\ req[r].pc = "sent"
  /\ LET s == ParseSessionJWT(req[r].sent, now) IN
     Become(r, [req[r] EXCEPT !.pc = "routed", !.sess = s, !.routed = now,
                              !.clear = req[r].sent # None /\ s = None])
  /\ UNCHANGED <<now, store, cookie, known, issues, grants, sends, restarts>>

LoginJWT(r) ==
  /\ req[r].pc = "routed" /\ req[r].kind = "jwt"
  /\ LET j == ExchangeLegacyJWT(req[r].token) IN
     /\ Granted(j)
     /\ IF j = None THEN Reply(r, "clear", None, NoCode)
                    ELSE Reply(r, "set", j, NoCode)
  /\ UNCHANGED <<now, store, cookie, known, issues, sends, restarts>>

(* The clock of Consume and of Issue is read before the mutex is taken. *)
LoginCode(r) ==
  /\ req[r].pc = "routed" /\ req[r].kind = "code"
  /\ Become(r, [req[r] EXCEPT !.pc = "consume", !.at = now])
  /\ UNCHANGED <<now, store, cookie, known, issues, grants, sends, restarts>>

Exchange(r) ==
  /\ req[r].pc = "routed" /\ req[r].kind = "exchange"
  /\ LET j == ExchangeLegacyJWT(req[r].token) IN
     /\ Granted(j)
     /\ IF j = None THEN Reply(r, "clear", None, NoCode)
        ELSE Become(r, [req[r] EXCEPT !.pc = "signed", !.jwt = j])
  /\ UNCHANGED <<now, store, cookie, known, issues, sends, restarts>>

(* Issue reads the clock anew. *)
BeginIssue(r) ==
  /\ req[r].pc = "signed"
  /\ Become(r, [req[r] EXCEPT !.pc = "issue", !.at = now])
  /\ UNCHANGED <<now, store, cookie, known, issues, grants, sends, restarts>>

Session(r) ==
  /\ req[r].pc = "routed" /\ req[r].kind = "session"
  /\ Reply(r, "keep", None, NoCode)
  /\ UNCHANGED <<now, store, cookie, known, issues, grants, sends, restarts>>

Logout(r) ==
  /\ req[r].pc = "routed" /\ req[r].kind = "logout"
  /\ Reply(r, "clear", None, NoCode)
  /\ UNCHANGED <<now, store, cookie, known, issues, grants, sends, restarts>>

-----------------------------------------------------------------------------
(* The code store; each operation holds the mutex. *)

Expired(e, t) == t > e.codeExpiry
cleanupExpired(s, t) ==
  [c \in Codes |-> IF s[c] # NoEntry /\ Expired(s[c], t) THEN NoEntry ELSE s[c]]

(* A drawn code that is taken is drawn again; after five such draws, or     *)
(* without entropy, there is no code.                                       *)
Free_Any(s) == Codes
Free(s) == {c \in Codes : s[c] = NoEntry}

delete_Not(s, c) == s
delete(s, c) == [s EXCEPT ![c] = NoEntry]

IssueCode(r) ==
  LET t == req[r].at
      s == cleanupExpired(store, t)
      j == req[r].jwt
      expiry == IF j.exp < t + CodeTTL THEN j.exp ELSE t + CodeTTL
  IN /\ req[r].pc = "issue"
     /\ \/ /\ Len(issues) < MaxIssues
           /\ \E c \in Free(s) :
                /\ store' = [s EXCEPT ![c] = [jwt |-> j, codeExpiry |-> expiry,
                                              issue |-> Len(issues) + 1]]
                /\ issues' = Append(issues, [code |-> c, expiry |-> expiry,
                                 uses |-> 0, usedAt |-> 0, lost |-> FALSE])
                /\ Reply(r, "keep", None, c)
        \/ store' = s /\ UNCHANGED issues /\ Reply(r, "keep", None, NoCode)
     /\ UNCHANGED <<now, cookie, known, grants, sends, restarts>>

Consume(r) ==
  LET t == req[r].at
      c == req[r].code
      s == cleanupExpired(store, t)
      e == s[c]
  IN /\ req[r].pc = "consume"
     /\ store' = delete(s, c)
     /\ IF e = NoEntry \/ Expired(e, t)
        THEN Reply(r, "clear", None, NoCode) /\ UNCHANGED issues
        ELSE /\ Reply(r, "set", e.jwt, NoCode)
             /\ issues' = [issues EXCEPT ![e.issue].uses = @ + 1,
                                         ![e.issue].usedAt = t]
     /\ UNCHANGED <<now, cookie, known, grants, sends, restarts>>

-----------------------------------------------------------------------------
(* Answers, timeouts and the environment. *)

(* http.TimeoutHandler answers for a handler that is still at work, whose  *)
(* own headers are dropped; the one SessionContext set stays.              *)
Timeout(r) ==
  /\ req[r].pc \in {"routed", "consume", "signed", "issue"} /\ ~req[r].gone
  /\ Become(r, [req[r] EXCEPT !.gone = TRUE])
  /\ cookie' = IF req[r].clear
                 THEN [cookie EXCEPT ![req[r].b] = NoCookie] ELSE cookie
  /\ UNCHANGED <<now, store, known, issues, grants, sends, restarts>>

(* The effect of an answer: the handler's Set-Cookie wins over that of      *)
(* SessionContext, and a positive Max-Age over Expires.                     *)
Answered(r) ==
  CASE req[r].effect = "set" ->
         [jwt |-> req[r].jwt,
          until |-> IF req[r].maxAge > 0 THEN now + req[r].maxAge
                                         ELSE req[r].jwt.exp]
    [] req[r].effect = "clear" \/ (req[r].effect = "keep" /\ req[r].clear) ->
         NoCookie
    [] OTHER -> cookie[req[r].b]

Deliver(r) ==
  /\ req[r].pc = "replied"
  /\ Become(r, NoRequest)
  /\ cookie' = [cookie EXCEPT ![req[r].b] = Answered(r)]
  /\ known' = [known EXCEPT ![req[r].b] = @ \cup ({req[r].new} \ {NoCode})]
  /\ UNCHANGED <<now, store, issues, grants, sends, restarts>>

(* The answer is lost. *)
Lose(r) ==
  /\ req[r].pc = "replied"
  /\ Become(r, NoRequest)
  /\ UNCHANGED <<now, store, cookie, known, issues, grants, sends, restarts>>

Tick == /\ now < MaxTime /\ now' = now + 1
        /\ UNCHANGED <<store, cookie, known, req, issues, grants, sends, restarts>>

(* The server starts again with an empty store; what it was doing is gone. *)
Restart ==
  /\ restarts < MaxRestarts /\ restarts' = restarts + 1
  /\ store' = [c \in Codes |-> NoEntry]
  /\ req' = [r \in Requests |-> NoRequest]
  /\ issues' = [i \in DOMAIN issues |-> [issues[i] EXCEPT !.lost = TRUE]]
  /\ UNCHANGED <<now, cookie, known, grants, sends>>

Serve(r) == SessionContext(r) \/ LoginJWT(r) \/ LoginCode(r) \/ Exchange(r)
            \/ Session(r) \/ Logout(r) \/ BeginIssue(r) \/ IssueCode(r) \/ Consume(r)

Next ==
  \/ \E r \in Requests :
       \/ \E b \in Browsers, kind \in Kinds, code \in Codes \cup {NoCode},
             token \in Tokens : Send(r, b, kind, code, token)
       \/ Serve(r) \/ Timeout(r) \/ Deliver(r) \/ Lose(r)
  \/ Tick \/ Restart

Spec == Init /\ [][Next]_vars

-----------------------------------------------------------------------------
(* Properties. *)

(* A code is redeemed at most once, by whatever requests race for it, and   *)
(* only by a request that had reached Consume in time (README.md:710, "a    *)
(* one-time code").                                                         *)
HonouredOnceInTime ==
  \A i \in DOMAIN issues :
    /\ issues[i].uses <= 1
    /\ issues[i].uses = 1 => issues[i].usedAt <= issues[i].expiry

(* A code that was handed out stays redeemable until it is used, its time   *)
(* is over or the server restarts: no other issue, cleanup or failed login  *)
(* takes it away.                                                           *)
IssuedStaysGood ==
  \A i \in DOMAIN issues :
    LET x == issues[i] IN
    x.uses = 0 /\ ~x.lost /\ now <= x.expiry => store[x.code].issue = i

(* A request is served as a user only when a token of the legacy system     *)
(* for that user and organisation was accepted less than SessionTTL before, *)
(* however long a code, an answer or the request itself was on its way.     *)
AccessTracesToGrant ==
  \A r \in Requests : req[r].pc # "idle" /\ req[r].sess # None =>
    \E g \in grants : /\ g.user = req[r].sess.user /\ g.org = req[r].sess.org
                      /\ g.at <= req[r].routed
                      /\ req[r].routed < g.at + SessionTTL

(* A session that is still valid is taken from its browser only by the      *)
(* answer to a login, an exchange or a logout, or by that to a request      *)
(* which was sent with some other cookie: SessionContext never clears the   *)
(* very cookie that is still good.  The request is the one of this step.    *)
LiveCookieKept ==
  [][\A b \in Browsers :
       now < cookie[b].jwt.exp /\ cookie'[b].jwt # cookie[b].jwt =>
         \E r \in Requests : /\ req[r].pc # "idle" /\ req[r].b = b
                             /\ req'[r] # req[r]
                             /\ \/ req[r].effect # "keep"
                                \/ req[r].sent # cookie[b].jwt]_vars
=============================================================================
