------------------------- MODULE AdminSessionProofs -------------------------
(***************************************************************************)
(* Proofs about AdminSession, for any browsers, requests, tokens and codes *)
(* and any lifetimes.                                                      *)
(*                                                                         *)
(* What a request is served as was copied several times: from a legacy     *)
(* token into a session, from there into the store or an answer, a cookie, *)
(* a request and the context of its handler.  The invariant says of each   *)
(* copy what is still known of it, and of each stored code which of the    *)
(* issued ones it is.                                                      *)
(***************************************************************************)
EXTENDS AdminSession, SequenceTheorems, TLAPS

(* At time t, with the grants G: a session comes from a grant. *)
JwtOK(j, t, G) ==
  /\ j \in SessionJWT
  /\ j # None => /\ j.user # 0 /\ j.org # 0 /\ j.nbf <= t
                 /\ j.exp = j.nbf + SessionTTL
                 /\ [user |-> j.user, org |-> j.org, at |-> j.nbf] \in G

RequestOK(q, t, G) ==
  /\ q.pc # "idle" => q.b \in Browsers
  /\ q.pc \in {"sent", "routed", "consume"} /\ q.kind = "code" => q.code \in Codes
  /\ q.pc = "consume" => q.kind = "code"
  /\ q.at <= t
  /\ JwtOK(q.sent, t, G) /\ JwtOK(q.sess, t, G) /\ JwtOK(q.jwt, t, G)
  /\ q.sess # None => q.sess.nbf <= q.routed /\ q.routed < q.sess.exp
  /\ q.clear => q.sent.exp <= t

(* The entry under code c is one of the issued codes, not yet used. *)
EntryOK(c, e, I) ==
  e # NoEntry => /\ e.issue \in DOMAIN I /\ I[e.issue].code = c
                 /\ I[e.issue].expiry = e.codeExpiry /\ I[e.issue].uses = 0

Sessions ==
  /\ \A c \in Codes : JwtOK(store[c].jwt, now, grants)
  /\ \A b \in Browsers : JwtOK(cookie[b].jwt, now, grants)
  /\ \A r \in Requests : RequestOK(req[r], now, grants)

IInv ==
  /\ TypeOK /\ HonouredOnceInTime /\ IssuedStaysGood /\ Sessions
  /\ \A c \in Codes : EntryOK(c, store[c], issues)

-----------------------------------------------------------------------------
(* Tokens. *)
LEMMA NoneOK == ASSUME NEW t \in Nat, NEW G PROVE JwtOK(None, t, G) /\ None.exp = 0
  BY DEF JwtOK, None, SessionJWT

LEMMA JwtKept ==
  ASSUME NEW j, NEW t \in Nat, NEW G, JwtOK(j, t, G),
         NEW t2 \in Nat, t <= t2, NEW H, G \subseteq H
  PROVE  JwtOK(j, t2, H)
  BY DEF JwtOK, SessionJWT

LEMMA ClaimOK ==
  ASSUME NEW c \in Claim PROVE legacyUint64Claim(c) \in Nat \cup {Bad}
<1>1. c.val \in Int
  BY DEF Claim
<1>2. c.val >= 0 => c.val \in Nat /\ c.val \div 2 \in Nat
  BY <1>1
<1>3. coerceUint64(c) \in Nat \cup {Bad}
  BY <1>2 DEF coerceUint64
<1> QED
  BY <1>3 DEF legacyUint64Claim

(* An accepted legacy token gives a session that begins now. *)
LEMMA ExchangeOK ==
  ASSUME NEW t \in Tokens, now \in Nat
  PROVE  LET j == ExchangeLegacyJWT(t) IN
         /\ j \in SessionJWT
         /\ j # None => /\ j.user # 0 /\ j.org # 0 /\ j.nbf = now
                        /\ j.exp = now + SessionTTL
<1>1. t \in LegacyToken
  <2>1. NoClaim \in Claim
    BY DEF NoClaim, Claim
  <2>2. NoToken \in LegacyToken
    BY <2>1 DEF NoToken, LegacyToken
  <2> QED
    BY <2>2, SessionAssumption DEF Tokens
<1>2. t.id \in Claim /\ t.orgid \in Claim
  BY <1>1 DEF LegacyToken
<1> DEFINE s == mapLegacyAdminSession(t)
<1>3. s.user \in Nat /\ s.org \in Nat
  BY <1>2, ClaimOK DEF mapLegacyAdminSession
<1>4. None \in SessionJWT
  BY DEF None, SessionJWT
<1>5. CASE ExchangeLegacyJWT(t) = None
  BY <1>4, <1>5
<1>6. CASE ExchangeLegacyJWT(t) # None
  <2>1. ExchangeLegacyJWT(t) = SignSessionJWT(s)
    BY <1>6 DEF ExchangeLegacyJWT
  <2> HIDE DEF s
  <2>2. /\ s.user # 0 /\ s.org # 0
        /\ SignSessionJWT(s) = [user |-> s.user, org |-> s.org, nbf |-> now,
                                exp |-> now + SessionTTL]
    BY <1>6, <2>1 DEF SignSessionJWT
  <2> QED
    BY <1>3, <2>1, <2>2, SessionAssumption DEF SessionJWT
<1> QED
  BY <1>5, <1>6

LEMMA ParseOK ==
  ASSUME NEW j, NEW t \in Nat, NEW G, JwtOK(j, t, G)
  PROVE  LET s == ParseSessionJWT(j, t) IN
         /\ JwtOK(s, t, G)
         /\ s # None => s.nbf <= t /\ t < s.exp
         /\ j # None /\ s = None => j.exp <= t
<1>1. JwtOK(None, t, G)
  BY NoneOK
<1>2. j \in SessionJWT /\ j.exp \in Nat /\ j.nbf \in Nat
  BY DEF JwtOK, SessionJWT
<1> QED
  BY <1>1, <1>2 DEF ParseSessionJWT, JwtOK

LEMMA RequestKept ==
  ASSUME NEW q \in Request, NEW t \in Nat, NEW G, RequestOK(q, t, G),
         NEW t2 \in Nat, t <= t2, NEW H, G \subseteq H
  PROVE  RequestOK(q, t2, H)
<1>1. JwtOK(q.sent, t2, H) /\ JwtOK(q.sess, t2, H) /\ JwtOK(q.jwt, t2, H)
  BY JwtKept DEF RequestOK
<1>2. q.at \in Nat /\ q.sent.exp \in Nat
  BY DEF Request, SessionJWT
<1> QED
  BY <1>1, <1>2 DEF RequestOK

-----------------------------------------------------------------------------
(* Requests. *)
LEMMA NoRequestOK ==
  ASSUME NEW t \in Nat, NEW G
  PROVE  NoRequest \in Request /\ RequestOK(NoRequest, t, G)
<1>1. /\ NoRequest \in Request /\ NoRequest.pc = "idle" /\ NoRequest.sent = None
      /\ NoRequest.sess = None /\ NoRequest.at = 0 /\ NoRequest.jwt = None
      /\ NoRequest.clear = FALSE
  <2>1. NoToken \in Tokens /\ "session" \in Kinds /\ None \in SessionJWT
    BY DEF Tokens, Kinds, None, SessionJWT
  <2> QED
    BY <2>1 DEF NoRequest, NewRequest, Request
<1> HIDE DEF NoRequest
<1> QED
  BY <1>1, NoneOK DEF RequestOK

(* A step of request r that leaves the store alone. *)
LEMMA LocalStep ==
  ASSUME IInv, NEW r \in Requests, NEW x \in Request, Become(r, x),
         RequestOK(x, now, grants'), UNCHANGED <<now, store, issues, restarts>>,
         grants \subseteq grants', grants' \subseteq [user : Nat, org : Nat, at : Nat],
         cookie' \in [Browsers -> Cookie], known' \in [Browsers -> SUBSET Codes],
         \A b \in Browsers : JwtOK(cookie'[b].jwt, now, grants'),
         sends' \in 0..MaxSends
  PROVE  IInv'
<1>1. now \in Nat
  BY SessionAssumption DEF IInv, TypeOK
<1>2. req' \in [Requests -> Request] /\ req'[r] = x
      /\ \A q \in Requests : q # r => req'[q] = req[q]
  BY DEF Become, IInv, TypeOK
<1>3. TypeOK'
  BY <1>2 DEF IInv, TypeOK
<1>4. HonouredOnceInTime' /\ IssuedStaysGood'
  BY DEF IInv, HonouredOnceInTime, IssuedStaysGood
<1>6. Sessions'
  <2>1. \A c \in Codes : JwtOK(store[c].jwt, now, grants')
    BY <1>1, JwtKept DEF IInv, Sessions
  <2>2. \A q \in Requests : RequestOK(req'[q], now, grants')
    <3> TAKE q \in Requests
    <3>1. req[q] \in Request /\ RequestOK(req[q], now, grants)
      BY DEF IInv, TypeOK, Sessions
    <3>2. RequestOK(req[q], now, grants')
      BY <1>1, <3>1, RequestKept
    <3> QED
      BY <1>2, <3>2
  <2> QED
    BY <2>1, <2>2 DEF Sessions
<1> QED
  BY <1>3, <1>4, <1>6 DEF IInv

(* An answer is a well-formed request. *)
Replied(q, effect, jwt, code, t) ==
  IF q.gone THEN NoRequest
  ELSE [NewRequest("replied", q.b, q.kind, NoCode, NoToken, q.sent)
          EXCEPT !.clear = q.clear, !.effect = effect, !.jwt = jwt, !.new = code,
                 !.maxAge = IF effect = "set" /\ jwt.exp > t THEN jwt.exp - t ELSE 0]

LEMMA RepliedOK ==
  ASSUME NEW q \in Request, q.pc # "idle", NEW t \in Nat, NEW G, RequestOK(q, t, G),
         NEW effect \in {"keep", "clear", "set"}, NEW jwt, JwtOK(jwt, t, G),
         NEW code \in Codes \cup {NoCode}
  PROVE  /\ Replied(q, effect, jwt, code, t) \in Request
         /\ RequestOK(Replied(q, effect, jwt, code, t), t, G)
<1>1. CASE q.gone
  BY <1>1, NoRequestOK DEF Replied
<1>2. CASE ~q.gone
  <2> DEFINE age == IF effect = "set" /\ jwt.exp > t THEN jwt.exp - t ELSE 0
             y == NewRequest("replied", q.b, q.kind, NoCode, NoToken, q.sent)
             x == [y EXCEPT !.clear = q.clear, !.effect = effect, !.jwt = jwt,
                            !.new = code, !.maxAge = age]
  <2>1. jwt \in SessionJWT /\ jwt.exp \in Nat
    BY DEF JwtOK, SessionJWT
  <2>2. age \in Nat
    BY <2>1
  <2>3. /\ y \in Request /\ y.pc = "replied" /\ y.b = q.b /\ y.kind = q.kind
        /\ y.code = NoCode /\ y.sent = q.sent /\ y.sess = None /\ y.at = 0
    <3>1. /\ NoToken \in Tokens /\ q.b \in Browsers \cup {NoBrowser}
          /\ q.kind \in Kinds /\ q.sent \in SessionJWT
      BY DEF Tokens, Request
    <3>2. None \in SessionJWT
      BY DEF None, SessionJWT
    <3> QED
      BY <3>1, <3>2 DEF NewRequest, Request
  <2>4. Replied(q, effect, jwt, code, t) = x
    BY <1>2 DEF Replied
  <2> HIDE DEF y, age
  <2>5. x \in Request
    <3>1. q.clear \in BOOLEAN
      BY DEF Request
    <3> DEFINE a == [y EXCEPT !.clear = q.clear]
               b == [a EXCEPT !.effect = effect]
               c == [b EXCEPT !.jwt = jwt]
               d == [c EXCEPT !.new = code]
               e == [d EXCEPT !.maxAge = age]
    <3>2. x = e
      BY <2>3 DEF Request
    <3>3. a \in Request
      BY <2>3, <3>1 DEF Request
    <3> HIDE DEF a
    <3>4. b \in Request
      BY <3>3 DEF Request
    <3> HIDE DEF b
    <3>5. c \in Request
      BY <2>1, <3>4 DEF Request
    <3> HIDE DEF c
    <3>6. d \in Request
      BY <3>5 DEF Request
    <3> HIDE DEF d
    <3>7. e \in Request
      BY <2>2, <3>6 DEF Request
    <3> QED
      BY <3>2, <3>7
  <2>6. /\ x.pc = "replied" /\ x.b = q.b /\ x.sent = q.sent /\ x.sess = None
        /\ x.at = 0 /\ x.jwt = jwt /\ x.clear = q.clear
    BY <2>3 DEF Request
  <2> HIDE DEF x
  <2>7. RequestOK(x, t, G)
    BY <2>6, NoneOK DEF RequestOK
  <2> QED
    BY <2>4, <2>5, <2>7
<1> QED
  BY <1>1, <1>2 DEF Request

(* What is known of a request. *)
LEMMA Facts ==
  ASSUME IInv, NEW r \in Requests
  PROVE  /\ req[r] \in Request /\ RequestOK(req[r], now, grants)
         /\ now \in Nat /\ grants \subseteq [user : Nat, org : Nat, at : Nat]
         /\ cookie \in [Browsers -> Cookie] /\ known \in [Browsers -> SUBSET Codes]
         /\ \A b \in Browsers : JwtOK(cookie[b].jwt, now, grants)
         /\ sends \in 0..MaxSends
  BY SessionAssumption DEF IInv, TypeOK, Sessions

LEMMA SendStep ==
  ASSUME IInv, NEW r \in Requests, NEW b \in Browsers, NEW kind \in Kinds,
         NEW code \in Codes \cup {NoCode}, NEW token \in Tokens,
         Send(r, b, kind, code, token)
  PROVE  IInv'
<1> DEFINE sent == IF now < cookie[b].until THEN cookie[b].jwt ELSE None
           x == NewRequest("sent", b, kind, code, token, sent)
<1>1. JwtOK(sent, now, grants)
  BY Facts, NoneOK
<1>2. sent \in SessionJWT
  BY <1>1 DEF JwtOK
<1>3. Become(r, x)
  BY DEF Send
<1> HIDE DEF sent
<1>4. /\ x \in Request /\ x.pc = "sent" /\ x.b = b /\ x.kind = kind
      /\ x.code = code /\ x.sent = sent /\ x.sess = None /\ x.at = 0
      /\ x.jwt = None /\ x.clear = FALSE
  <2>1. None \in SessionJWT
    BY DEF None, SessionJWT
  <2> QED
    BY <1>2, <2>1 DEF NewRequest, Request
<1> HIDE DEF x
<1>5. kind = "code" => code \in Codes
  BY Facts DEF Send
<1>6. RequestOK(x, now, grants)
  BY <1>1, <1>4, <1>5, Facts, NoneOK DEF RequestOK
<1>7. sends' \in 0..MaxSends
  BY Facts, SessionAssumption DEF Send
<1> QED
  BY <1>3, <1>4, <1>6, <1>7, Facts, LocalStep DEF Send

LEMMA ContextStep ==
  ASSUME IInv, NEW r \in Requests, SessionContext(r)
  PROVE  IInv'
<1> DEFINE s == ParseSessionJWT(req[r].sent, now)
           clear == req[r].sent # None /\ s = None
           x == [req[r] EXCEPT !.pc = "routed", !.sess = s, !.routed = now,
                               !.clear = clear]
<1>1. /\ req[r] \in Request /\ RequestOK(req[r], now, grants) /\ now \in Nat
      /\ req[r].pc = "sent"
  BY Facts DEF SessionContext
<1>3. s # None => s.nbf <= now /\ now < s.exp
  BY <1>1, ParseOK DEF RequestOK
<1>4. JwtOK(s, now, grants) /\ s \in SessionJWT
  <2>1. JwtOK(s, now, grants)
    BY <1>1, ParseOK DEF RequestOK
  <2> QED
    BY <2>1 DEF JwtOK
<1>5. clear => req[r].sent.exp <= now
  BY <1>1, ParseOK DEF RequestOK
<1>6. clear \in BOOLEAN
  OBVIOUS
<1>7. Become(r, x)
  BY DEF SessionContext
<1> HIDE DEF s, clear
<1>8. x \in Request
  <2> DEFINE a == [req[r] EXCEPT !.pc = "routed"]
             b == [a EXCEPT !.sess = s]
             c == [b EXCEPT !.routed = now]
             d == [c EXCEPT !.clear = clear]
  <2>1. x = d
    BY <1>1 DEF Request
  <2>2. a \in Request
    BY <1>1 DEF Request
  <2> HIDE DEF a
  <2>3. b \in Request
    BY <1>4, <2>2 DEF Request
  <2> HIDE DEF b
  <2>4. c \in Request
    BY <1>1, <2>3 DEF Request
  <2> HIDE DEF c
  <2>5. d \in Request
    BY <1>6, <2>4 DEF Request
  <2> QED
    BY <2>1, <2>5
<1>9. /\ x.pc = "routed" /\ x.b = req[r].b /\ x.kind = req[r].kind
      /\ x.code = req[r].code /\ x.sent = req[r].sent /\ x.sess = s
      /\ x.at = req[r].at /\ x.jwt = req[r].jwt /\ x.clear = clear /\ x.routed = now
  BY <1>1 DEF Request
<1> HIDE DEF x
<1>10. RequestOK(x, now, grants)
  BY <1>1, <1>3, <1>4, <1>5, <1>9 DEF RequestOK
<1> QED
  BY <1>7, <1>8, <1>10, Facts, LocalStep DEF SessionContext

(* Answering. *)
LEMMA ReplyStep ==
  ASSUME IInv, NEW r \in Requests, req[r].pc # "idle",
         NEW effect \in {"keep", "clear", "set"}, NEW jwt, JwtOK(jwt, now, grants'),
         NEW code \in Codes \cup {NoCode}, Reply(r, effect, jwt, code),
         grants \subseteq grants', grants' \subseteq [user : Nat, org : Nat, at : Nat],
         UNCHANGED <<now, store, cookie, known, issues, sends, restarts>>
  PROVE  IInv'
<1> DEFINE x == Replied(req[r], effect, jwt, code, now)
<1>1. Become(r, x)
  BY DEF Reply, Replied
<1>2. req[r] \in Request /\ now \in Nat /\ RequestOK(req[r], now, grants')
  <2>1. req[r] \in Request /\ now \in Nat /\ RequestOK(req[r], now, grants)
    BY Facts
  <2> QED
    BY <2>1, RequestKept
<1>3. x \in Request /\ RequestOK(x, now, grants')
  BY <1>2, RepliedOK
<1>4. \A b \in Browsers : JwtOK(cookie[b].jwt, now, grants')
  BY Facts, JwtKept
<1> HIDE DEF x
<1> QED
  BY <1>1, <1>3, <1>4, Facts, LocalStep

(* A new session is granted. *)
LEMMA GrantOK ==
  ASSUME IInv, NEW t \in Tokens, Granted(ExchangeLegacyJWT(t))
  PROVE  /\ JwtOK(ExchangeLegacyJWT(t), now, grants') /\ grants \subseteq grants'
         /\ grants' \subseteq [user : Nat, org : Nat, at : Nat]
<1> DEFINE j == ExchangeLegacyJWT(t)
<1>1. now \in Nat /\ grants \subseteq [user : Nat, org : Nat, at : Nat]
  BY SessionAssumption DEF IInv, TypeOK
<1>2. j # None => /\ j.user # 0 /\ j.org # 0 /\ j.nbf = now
                  /\ j.exp = now + SessionTTL
  BY <1>1, ExchangeOK
<1>3. j \in SessionJWT
  BY <1>1, ExchangeOK
<1>4. Granted(j)
  OBVIOUS
<1> HIDE DEF j
<1>5. CASE j = None
  BY <1>1, <1>4, <1>5, NoneOK DEF Granted, j
<1>6. CASE j # None
  <2>1. grants' = grants \cup {[user |-> j.user, org |-> j.org, at |-> j.nbf]}
    BY <1>4, <1>6 DEF Granted
  <2>2. j.user \in Nat /\ j.org \in Nat /\ j.nbf \in Nat
    BY <1>3 DEF SessionJWT
  <2> QED
    BY <1>1, <1>2, <1>3, <1>6, <2>1, <2>2 DEF JwtOK, j
<1> QED
  BY <1>5, <1>6

LEMMA LoginStep ==
  ASSUME IInv, NEW r \in Requests, LoginJWT(r)
  PROVE  IInv'
<1> DEFINE j == ExchangeLegacyJWT(req[r].token)
<1>1. /\ req[r].pc # "idle" /\ Granted(j)
      /\ Reply(r, "clear", None, NoCode) \/ Reply(r, "set", j, NoCode)
      /\ UNCHANGED <<now, store, cookie, known, issues, sends, restarts>>
  BY DEF LoginJWT
<1>2. req[r].token \in Tokens /\ now \in Nat
  BY Facts DEF Request
<1>3. /\ JwtOK(j, now, grants') /\ grants \subseteq grants'
      /\ grants' \subseteq [user : Nat, org : Nat, at : Nat]
  BY <1>1, <1>2, GrantOK
<1>4. JwtOK(None, now, grants')
  BY <1>2, NoneOK
<1> HIDE DEF j
<1> QED
  BY <1>1, <1>3, <1>4, ReplyStep

(* The store's clock is read. *)
LEMMA ClockStep ==
  ASSUME IInv, NEW r \in Requests, LoginCode(r)
  PROVE  IInv'
<1> DEFINE x == [req[r] EXCEPT !.pc = "consume", !.at = now]
<1>1. /\ req[r] \in Request /\ RequestOK(req[r], now, grants) /\ now \in Nat
      /\ req[r].pc = "routed" /\ req[r].kind = "code" /\ Become(r, x)
  BY Facts DEF LoginCode
<1>2. /\ x.pc = "consume" /\ x.b = req[r].b /\ x.kind = req[r].kind
      /\ x.code = req[r].code /\ x.sent = req[r].sent /\ x.sess = req[r].sess
      /\ x.at = now /\ x.jwt = req[r].jwt /\ x.clear = req[r].clear
      /\ x.routed = req[r].routed
  BY <1>1 DEF Request
<1>3. x \in Request
  BY <1>1 DEF Request
<1> HIDE DEF x
<1>4. RequestOK(x, now, grants)
  BY <1>1, <1>2 DEF RequestOK
<1> QED
  BY <1>1, <1>3, <1>4, Facts, LocalStep DEF LoginCode

LEMMA IssueClock ==
  ASSUME IInv, NEW r \in Requests, BeginIssue(r)
  PROVE  IInv'
<1> DEFINE x == [req[r] EXCEPT !.pc = "issue", !.at = now]
<1>1. /\ req[r] \in Request /\ RequestOK(req[r], now, grants) /\ now \in Nat
      /\ req[r].pc = "signed" /\ Become(r, x)
  BY Facts DEF BeginIssue
<1>2. /\ x.pc = "issue" /\ x.b = req[r].b /\ x.kind = req[r].kind
      /\ x.code = req[r].code /\ x.sent = req[r].sent /\ x.sess = req[r].sess
      /\ x.at = now /\ x.jwt = req[r].jwt /\ x.clear = req[r].clear
      /\ x.routed = req[r].routed
  BY <1>1 DEF Request
<1>3. x \in Request
  BY <1>1 DEF Request
<1> HIDE DEF x
<1>4. RequestOK(x, now, grants)
  BY <1>1, <1>2 DEF RequestOK
<1> QED
  BY <1>1, <1>3, <1>4, Facts, LocalStep DEF BeginIssue

LEMMA ExchangeStep ==
  ASSUME IInv, NEW r \in Requests, Exchange(r)
  PROVE  IInv'
<1> DEFINE j == ExchangeLegacyJWT(req[r].token)
           x == [req[r] EXCEPT !.pc = "signed", !.jwt = j]
<1>1. /\ req[r].pc = "routed" /\ Granted(j)
      /\ Reply(r, "clear", None, NoCode) \/ Become(r, x)
      /\ UNCHANGED <<now, store, cookie, known, issues, sends, restarts>>
  BY DEF Exchange
<1>2. /\ req[r].token \in Tokens /\ now \in Nat /\ req[r] \in Request
      /\ RequestOK(req[r], now, grants)
  BY Facts DEF Request
<1>3. /\ JwtOK(j, now, grants') /\ grants \subseteq grants'
      /\ grants' \subseteq [user : Nat, org : Nat, at : Nat]
  BY <1>1, <1>2, GrantOK
<1>4. j \in SessionJWT
  BY <1>3 DEF JwtOK
<1> HIDE DEF j
<1>5. CASE Reply(r, "clear", None, NoCode)
  <2>1. JwtOK(None, now, grants')
    BY <1>2, NoneOK
  <2> QED
    BY <1>1, <1>3, <1>5, <2>1, ReplyStep
<1>6. CASE Become(r, x)
  <2>1. x \in Request
    <3> DEFINE a == [req[r] EXCEPT !.pc = "signed"]
               b == [a EXCEPT !.jwt = j]
    <3>1. x = b
      BY <1>2 DEF Request
    <3>2. a \in Request
      BY <1>2 DEF Request
    <3> HIDE DEF a
    <3>3. b \in Request
      BY <1>4, <3>2 DEF Request
    <3> QED
      BY <3>1, <3>3
  <2>2. /\ x.pc = "signed" /\ x.b = req[r].b /\ x.kind = req[r].kind
        /\ x.code = req[r].code /\ x.sent = req[r].sent /\ x.sess = req[r].sess
        /\ x.at = req[r].at /\ x.jwt = j /\ x.clear = req[r].clear
        /\ x.routed = req[r].routed
    BY <1>2 DEF Request
  <2> HIDE DEF x
  <2>3. RequestOK(req[r], now, grants')
    BY <1>2, <1>3, RequestKept
  <2>4. RequestOK(x, now, grants')
    BY <1>1, <1>2, <1>3, <2>2, <2>3 DEF RequestOK
  <2>5. \A b \in Browsers : JwtOK(cookie[b].jwt, now, grants')
    BY <1>3, Facts, JwtKept
  <2> QED
    BY <1>1, <1>3, <1>6, <2>1, <2>4, <2>5, Facts, LocalStep
<1> QED
  BY <1>1, <1>5, <1>6

LEMMA PlainReply ==
  ASSUME IInv, NEW r \in Requests, Session(r) \/ Logout(r)
  PROVE  IInv'
<1>1. /\ req[r].pc # "idle" /\ grants' = grants
      /\ Reply(r, "keep", None, NoCode) \/ Reply(r, "clear", None, NoCode)
      /\ UNCHANGED <<now, store, cookie, known, issues, sends, restarts>>
  BY DEF Session, Logout
<1>2. JwtOK(None, now, grants') /\ grants \subseteq grants'
      /\ grants' \subseteq [user : Nat, org : Nat, at : Nat]
  BY <1>1, Facts, NoneOK
<1> QED
  BY <1>1, <1>2, ReplyStep

-----------------------------------------------------------------------------
(* Answers and timeouts. *)
LEMMA TimeoutStep ==
  ASSUME IInv, NEW r \in Requests, Timeout(r)
  PROVE  IInv'
<1> DEFINE x == [req[r] EXCEPT !.gone = TRUE]
<1>1. /\ req[r] \in Request /\ RequestOK(req[r], now, grants) /\ now \in Nat
      /\ req[r].pc # "idle" /\ Become(r, x)
      /\ cookie' = IF req[r].clear THEN [cookie EXCEPT ![req[r].b] = NoCookie] ELSE cookie
      /\ UNCHANGED <<now, store, known, issues, grants, sends, restarts>>
  BY Facts DEF Timeout
<1>2. /\ x.pc = req[r].pc /\ x.b = req[r].b /\ x.kind = req[r].kind
      /\ x.code = req[r].code /\ x.sent = req[r].sent /\ x.sess = req[r].sess
      /\ x.at = req[r].at /\ x.jwt = req[r].jwt /\ x.clear = req[r].clear
      /\ x.routed = req[r].routed
  BY <1>1 DEF Request
<1>3. x \in Request
  BY <1>1 DEF Request
<1> HIDE DEF x
<1>4. RequestOK(x, now, grants)
  BY <1>1, <1>2 DEF RequestOK
<1>5. NoCookie \in Cookie /\ NoCookie.jwt = None
  BY DEF NoCookie, Cookie, None, SessionJWT
<1>6. /\ cookie' \in [Browsers -> Cookie]
      /\ \A b \in Browsers : cookie'[b] \in {cookie[b], NoCookie}
  BY <1>1, <1>5, Facts
<1>7. \A b \in Browsers : JwtOK(cookie'[b].jwt, now, grants)
  BY <1>1, <1>5, <1>6, Facts, NoneOK
<1> QED
  BY <1>1, <1>3, <1>4, <1>6, <1>7, Facts, LocalStep

LEMMA DeliverStep ==
  ASSUME IInv, NEW r \in Requests, Deliver(r) \/ Lose(r)
  PROVE  IInv'
<1>1. /\ req[r] \in Request /\ RequestOK(req[r], now, grants) /\ now \in Nat
      /\ req[r].pc # "idle" /\ Become(r, NoRequest)
      /\ UNCHANGED <<now, store, issues, grants, sends, restarts>>
  BY Facts DEF Deliver, Lose
<1>2. NoRequest \in Request /\ RequestOK(NoRequest, now, grants)
  BY <1>1, NoRequestOK
<1>3. CASE Lose(r)
  BY <1>1, <1>2, <1>3, Facts, LocalStep DEF Lose
<1>4. CASE Deliver(r)
  <2>1. req[r].b \in Browsers /\ req[r].new \in Codes \cup {NoCode}
        /\ req[r].jwt \in SessionJWT /\ req[r].maxAge \in Nat
        /\ JwtOK(req[r].jwt, now, grants)
    BY <1>1 DEF RequestOK, Request
  <2>2. Answered(r) \in Cookie /\ JwtOK(Answered(r).jwt, now, grants)
    <3>1. CASE req[r].effect = "set"
      <4> DEFINE until == IF req[r].maxAge > 0 THEN now + req[r].maxAge
                                               ELSE req[r].jwt.exp
      <4>1. Answered(r) = [jwt |-> req[r].jwt, until |-> until]
        BY <3>1 DEF Answered
      <4>2. until \in Nat
        BY <1>1, <2>1 DEF SessionJWT
      <4> QED
        BY <2>1, <4>1, <4>2 DEF Cookie
    <3>2. CASE req[r].effect # "set"
      <4>1. Answered(r) \in {NoCookie, cookie[req[r].b]}
        BY <3>2 DEF Answered
      <4>2. NoCookie \in Cookie /\ NoCookie.jwt = None
        BY DEF NoCookie, Cookie, None, SessionJWT
      <4> QED
        BY <1>1, <2>1, <4>1, <4>2, Facts, NoneOK
    <3> QED
      BY <3>1, <3>2
  <2> DEFINE a == Answered(r)
  <2>3. cookie' = [cookie EXCEPT ![req[r].b] = a]
    BY <1>4 DEF Deliver
  <2> HIDE DEF a
  <2>4. /\ cookie' \in [Browsers -> Cookie]
        /\ \A b \in Browsers : JwtOK(cookie'[b].jwt, now, grants)
    BY <2>1, <2>2, <2>3, Facts DEF a
  <2>5. known' \in [Browsers -> SUBSET Codes]
    BY <1>4, <2>1, Facts DEF Deliver
  <2> QED
    BY <1>1, <1>2, <2>4, <2>5, Facts, LocalStep
<1> QED
  BY <1>3, <1>4

-----------------------------------------------------------------------------
(* The store. *)
LEMMA StoreStep ==
  ASSUME IInv, NEW r \in Requests, req[r].pc # "idle",
         NEW effect \in {"keep", "clear", "set"}, NEW jwt, JwtOK(jwt, now, grants),
         NEW code \in Codes \cup {NoCode}, Reply(r, effect, jwt, code),
         UNCHANGED <<now, cookie, known, grants, sends, restarts>>,
         store' \in [Codes -> Entry], issues' \in Seq(Issue), Len(issues') <= MaxIssues,
         HonouredOnceInTime', IssuedStaysGood',
         \A c \in Codes : EntryOK(c, store'[c], issues'),
         \A c \in Codes : JwtOK(store'[c].jwt, now, grants)
  PROVE  IInv'
<1> DEFINE x == Replied(req[r], effect, jwt, code, now)
<1>1. Become(r, x)
  BY DEF Reply, Replied
<1>2. req[r] \in Request /\ now \in Nat /\ RequestOK(req[r], now, grants)
  BY Facts
<1>3. x \in Request /\ RequestOK(x, now, grants)
  BY <1>2, RepliedOK
<1> HIDE DEF x
<1>4. req' \in [Requests -> Request] /\ req'[r] = x
      /\ \A q \in Requests : q # r => req'[q] = req[q]
  BY <1>1, <1>3 DEF Become, IInv, TypeOK
<1>5. TypeOK'
  BY <1>4 DEF IInv, TypeOK
<1>6. Sessions'
  <2>1. \A q \in Requests : RequestOK(req'[q], now, grants)
    BY <1>3, <1>4 DEF IInv, Sessions
  <2> QED
    BY <2>1 DEF IInv, Sessions
<1> QED
  BY <1>5, <1>6 DEF IInv

(* Cleaning up at a time that is not in the future removes no code that is  *)
(* still good.                                                              *)
LEMMA CleanOK ==
  ASSUME IInv, NEW t \in Nat, t <= now
  PROVE  LET s == cleanupExpired(store, t) IN
         /\ s \in [Codes -> Entry]
         /\ \A c \in Codes : /\ s[c] \in {store[c], NoEntry}
                             /\ s[c] # NoEntry => ~Expired(s[c], t)
                             /\ EntryOK(c, s[c], issues)
                             /\ JwtOK(s[c].jwt, now, grants)
         /\ \A i \in DOMAIN issues :
              issues[i].uses = 0 /\ ~issues[i].lost /\ now <= issues[i].expiry =>
                s[issues[i].code].issue = i
<1> DEFINE s == cleanupExpired(store, t)
<1>1. /\ now \in Nat /\ store \in [Codes -> Entry] /\ issues \in Seq(Issue)
  BY SessionAssumption DEF IInv, TypeOK
<1>2. NoEntry \in Entry /\ NoEntry.jwt = None /\ NoEntry.issue = 0
  BY DEF NoEntry, Entry, None, SessionJWT
<1>3. \A c \in Codes : s[c] = IF store[c] # NoEntry /\ Expired(store[c], t)
                              THEN NoEntry ELSE store[c]
  BY DEF cleanupExpired
<1>4. s \in [Codes -> Entry]
  BY <1>1, <1>2 DEF cleanupExpired
<1> HIDE DEF s
<1>5. ASSUME NEW c \in Codes
      PROVE  /\ s[c] \in {store[c], NoEntry}
             /\ s[c] # NoEntry => ~Expired(s[c], t)
  BY <1>3
<1>6. ASSUME NEW c \in Codes
      PROVE  EntryOK(c, s[c], issues) /\ JwtOK(s[c].jwt, now, grants)
  <2>1. EntryOK(c, store[c], issues) /\ JwtOK(store[c].jwt, now, grants)
    BY DEF IInv, Sessions
  <2>2. EntryOK(c, NoEntry, issues) /\ JwtOK(NoEntry.jwt, now, grants)
    BY <1>1, <1>2, NoneOK DEF EntryOK
  <2> QED
    BY <1>3, <2>1, <2>2
<1>7. ASSUME NEW i \in DOMAIN issues, issues[i].uses = 0, ~issues[i].lost,
             now <= issues[i].expiry
      PROVE  s[issues[i].code].issue = i
  <2> DEFINE c == issues[i].code
  <2>1. i \in Nat \ {0} /\ issues[i] \in Issue
    BY <1>1, <1>7
  <2>2. c \in Codes /\ issues[i].expiry \in Nat
    BY <2>1 DEF Issue
  <2>3. store[c].issue = i
    BY <1>7 DEF IInv, IssuedStaysGood
  <2>4. store[c] # NoEntry
    BY <1>2, <2>1, <2>3
  <2>5. store[c].codeExpiry = issues[i].expiry
    <3>1. EntryOK(c, store[c], issues)
      BY <2>2 DEF IInv
    <3> QED
      BY <2>3, <2>4, <3>1 DEF EntryOK
  <2>6. ~Expired(store[c], t)
    BY <1>1, <1>7, <2>2, <2>5 DEF Expired
  <2> HIDE DEF c
  <2>7. s[c] = store[c]
    BY <1>3, <2>2, <2>6
  <2> QED
    BY <2>3, <2>7 DEF c
<1> QED
  BY <1>4, <1>5, <1>6, <1>7 DEF s

LEMMA IssueStep ==
  ASSUME IInv, NEW r \in Requests, IssueCode(r)
  PROVE  IInv'
<1> DEFINE t == req[r].at
           s == cleanupExpired(store, t)
           j == req[r].jwt
           expiry == IF j.exp < t + CodeTTL THEN j.exp ELSE t + CodeTTL
<1>1. /\ req[r].pc # "idle" /\ req[r] \in Request /\ now \in Nat
      /\ RequestOK(req[r], now, grants)
      /\ UNCHANGED <<now, cookie, known, grants, sends, restarts>>
  BY Facts DEF IssueCode
<1>2. t \in Nat /\ t <= now /\ JwtOK(j, now, grants)
  BY <1>1 DEF RequestOK, Request
<1>3. expiry \in Nat
  BY <1>2, SessionAssumption DEF JwtOK, SessionJWT
<1>4. /\ s \in [Codes -> Entry]
      /\ \A c \in Codes : EntryOK(c, s[c], issues) /\ JwtOK(s[c].jwt, now, grants)
      /\ \A i \in DOMAIN issues :
           issues[i].uses = 0 /\ ~issues[i].lost /\ now <= issues[i].expiry =>
             s[issues[i].code].issue = i
  BY <1>2, CleanOK
<1>5. issues \in Seq(Issue) /\ Len(issues) <= MaxIssues /\ HonouredOnceInTime
  BY DEF IInv, TypeOK
<1>6. JwtOK(None, now, grants)
  BY <1>1, NoneOK
<1> DEFINE drawn(c) ==
             /\ Len(issues) < MaxIssues
             /\ store' = [s EXCEPT ![c] = [jwt |-> j, codeExpiry |-> expiry,
                                           issue |-> Len(issues) + 1]]
             /\ issues' = Append(issues, [code |-> c, expiry |-> expiry,
                              uses |-> 0, usedAt |-> 0, lost |-> FALSE])
             /\ Reply(r, "keep", None, c)
<1>7. \/ \E c \in Free(s) : drawn(c)
      \/ store' = s /\ UNCHANGED issues /\ Reply(r, "keep", None, NoCode)
  BY DEF IssueCode
<1> HIDE DEF s, expiry
<1>8. CASE store' = s /\ UNCHANGED issues /\ Reply(r, "keep", None, NoCode)
  <2>1. HonouredOnceInTime' /\ IssuedStaysGood'
    BY <1>1, <1>4, <1>5, <1>8 DEF HonouredOnceInTime, IssuedStaysGood
  <2> QED
    BY <1>1, <1>4, <1>5, <1>6, <1>8, <2>1, StoreStep
<1>9. ASSUME NEW c \in Free(s), drawn(c) PROVE IInv'
  <2> DEFINE n == Len(issues) + 1
             e == [jwt |-> j, codeExpiry |-> expiry, issue |-> n]
             x == [code |-> c, expiry |-> expiry, uses |-> 0, usedAt |-> 0,
                   lost |-> FALSE]
  <2>1. c \in Codes /\ s[c] = NoEntry /\ n \in Nat \ {0}
    BY <1>5, <1>9 DEF Free
  <2>2. e \in Entry /\ e.jwt = j /\ e.codeExpiry = expiry /\ e.issue = n
    BY <1>2, <1>3, <2>1 DEF Entry, JwtOK
  <2>3. /\ x \in Issue /\ x.code = c /\ x.expiry = expiry /\ x.uses = 0
    BY <1>3, <2>1 DEF Issue
  <2>4. /\ store' = [s EXCEPT ![c] = e] /\ issues' = Append(issues, x)
        /\ Len(issues) < MaxIssues /\ Reply(r, "keep", None, c)
    BY <1>9
  <2> HIDE DEF e, x
  <2>5. /\ issues' \in Seq(Issue) /\ Len(issues') = n
        /\ \A i \in 1..Len(issues) : issues'[i] = issues[i]
        /\ issues'[n] = x
    BY <1>5, <2>3, <2>4, AppendProperties
  <2>6. DOMAIN issues = 1..Len(issues) /\ DOMAIN issues' = 1..n
    BY <1>5, <2>5
  <2>7. \A i \in DOMAIN issues' : i = n \/ (i \in DOMAIN issues /\ issues'[i] = issues[i])
    BY <1>5, <2>5, <2>6
  <2>8. /\ store' \in [Codes -> Entry] /\ store'[c] = e
        /\ \A d \in Codes : d # c => store'[d] = s[d]
    BY <1>4, <2>1, <2>2, <2>4
  <2>9. HonouredOnceInTime'
    <3>1. \A i \in DOMAIN issues' : /\ issues'[i].uses <= 1
                                    /\ issues'[i].uses = 1 =>
                                         issues'[i].usedAt <= issues'[i].expiry
      BY <1>5, <2>3, <2>5, <2>7 DEF HonouredOnceInTime
    <3> QED
      BY <3>1 DEF HonouredOnceInTime
  <2>10. IssuedStaysGood'
    <3>1. ASSUME NEW i \in DOMAIN issues', issues'[i].uses = 0, ~issues'[i].lost,
                 now <= issues'[i].expiry
          PROVE  store'[issues'[i].code].issue = i
      <4>1. CASE i = n
        BY <2>2, <2>3, <2>5, <2>8, <4>1
      <4>2. CASE i # n
        <5>1. i \in DOMAIN issues /\ issues'[i] = issues[i]
          BY <2>7, <4>2
        <5>2. s[issues[i].code].issue = i /\ i # 0
          BY <1>4, <2>6, <3>1, <5>1
        <5>3. issues[i].code # c
          BY <2>1, <5>2 DEF NoEntry
        <5>4. issues[i].code \in Codes
          <6>1. issues[i] \in Issue
            BY <1>5, <2>6, <5>1, ElementOfSeq
          <6> QED
            BY <6>1 DEF Issue
        <5> QED
          BY <2>8, <5>1, <5>2, <5>3, <5>4
      <4> QED
        BY <4>1, <4>2
    <3> QED
      BY <1>1, <3>1 DEF IssuedStaysGood
  <2>11. ASSUME NEW d \in Codes
         PROVE  EntryOK(d, store'[d], issues') /\ JwtOK(store'[d].jwt, now, grants)
    <3>1. CASE d = c
      BY <1>2, <2>2, <2>3, <2>5, <2>6, <2>8, <3>1 DEF EntryOK
    <3>2. CASE d # c
      <4>1. EntryOK(d, s[d], issues) /\ JwtOK(s[d].jwt, now, grants) /\ store'[d] = s[d]
        BY <1>4, <2>8, <3>2
      <4>2. \A i \in DOMAIN issues : i \in DOMAIN issues' /\ issues'[i] = issues[i]
        BY <1>5, <2>5, <2>6
      <4> QED
        BY <4>1, <4>2 DEF EntryOK
    <3> QED
      BY <3>1, <3>2
  <2>12. Len(issues') <= MaxIssues
    BY <1>5, <2>4, <2>5, SessionAssumption
  <2> QED
    BY <1>1, <1>6, <2>1, <2>4, <2>5, <2>8, <2>9, <2>10, <2>11, <2>12, StoreStep
<1> QED
  BY <1>7, <1>8, <1>9

LEMMA ConsumeStep ==
  ASSUME IInv, NEW r \in Requests, Consume(r)
  PROVE  IInv'
<1> DEFINE t == req[r].at
           c == req[r].code
           s == cleanupExpired(store, t)
           e == s[c]
<1>1. /\ req[r].pc = "consume" /\ req[r] \in Request /\ now \in Nat
      /\ RequestOK(req[r], now, grants) /\ store' = delete(s, c)
      /\ UNCHANGED <<now, cookie, known, grants, sends, restarts>>
  BY Facts DEF Consume
<1>2. t \in Nat /\ t <= now /\ c \in Codes
  BY <1>1 DEF RequestOK, Request
<1>3. /\ s \in [Codes -> Entry]
      /\ \A d \in Codes : EntryOK(d, s[d], issues) /\ JwtOK(s[d].jwt, now, grants)
      /\ \A i \in DOMAIN issues :
           issues[i].uses = 0 /\ ~issues[i].lost /\ now <= issues[i].expiry =>
             s[issues[i].code].issue = i
  BY <1>2, CleanOK
<1>4. issues \in Seq(Issue) /\ Len(issues) <= MaxIssues /\ HonouredOnceInTime
  BY DEF IInv, TypeOK
<1>5. NoEntry \in Entry /\ NoEntry.jwt = None /\ NoEntry.issue = 0
  BY DEF NoEntry, Entry, None, SessionJWT
<1>6. JwtOK(None, now, grants)
  BY <1>1, NoneOK
<1>7. \/ /\ e = NoEntry \/ Expired(e, t)
         /\ Reply(r, "clear", None, NoCode) /\ UNCHANGED issues
      \/ /\ e # NoEntry /\ ~Expired(e, t) /\ Reply(r, "set", e.jwt, NoCode)
         /\ issues' = [issues EXCEPT ![e.issue].uses = @ + 1, ![e.issue].usedAt = t]
  BY DEF Consume
<1>8. e # NoEntry => ~Expired(e, t)
  BY <1>2, CleanOK
<1> HIDE DEF s
<1>9. /\ store' \in [Codes -> Entry] /\ store'[c] = NoEntry
      /\ \A d \in Codes : d # c => store'[d] = s[d]
  BY <1>1, <1>2, <1>3, <1>5 DEF delete
<1>10. \A d \in Codes : JwtOK(store'[d].jwt, now, grants)
  BY <1>3, <1>5, <1>6, <1>9
<1>11. DOMAIN issues = 1..Len(issues) /\ \A i \in DOMAIN issues : issues[i] \in Issue
  BY <1>4, ElementOfSeq
<1>12. CASE e = NoEntry
  <2>1. Reply(r, "clear", None, NoCode) /\ UNCHANGED issues
    BY <1>7, <1>12
  <2>2. \A d \in Codes : store'[d] = s[d]
    BY <1>9, <1>12
  <2>3. HonouredOnceInTime'
    BY <1>4, <2>1 DEF HonouredOnceInTime
  <2>4. IssuedStaysGood'
    <3>1. \A i \in DOMAIN issues : issues[i].code \in Codes
      BY <1>11 DEF Issue
    <3> QED
      BY <1>1, <1>3, <2>1, <2>2, <3>1 DEF IssuedStaysGood
  <2>5. \A d \in Codes : EntryOK(d, store'[d], issues')
    BY <1>3, <2>1, <2>2
  <2> QED
    BY <1>1, <1>4, <1>6, <1>9, <1>10, <2>1, <2>3, <2>4, <2>5, StoreStep
<1>13. CASE e # NoEntry
  <2> DEFINE n == e.issue
             y == [issues[n] EXCEPT !.uses = @ + 1, !.usedAt = t]
  <2>1. /\ Reply(r, "set", e.jwt, NoCode) /\ ~Expired(e, t)
        /\ issues' = [issues EXCEPT ![n].uses = @ + 1, ![n].usedAt = t]
    BY <1>7, <1>8, <1>13
  <2>2. /\ n \in DOMAIN issues /\ issues[n].code = c /\ issues[n].uses = 0
        /\ issues[n].expiry = e.codeExpiry
    BY <1>2, <1>3, <1>13 DEF EntryOK
  <2>3. issues[n] \in Issue /\ e \in Entry
    BY <1>2, <1>3, <1>11, <2>2
  <2>4. /\ y \in Issue /\ y.code = c /\ y.uses = 1 /\ y.usedAt = t
        /\ y.expiry = e.codeExpiry
    <3> DEFINE x == issues[n]
    <3>1. /\ x \in Issue /\ x.uses = 0 /\ x.code = c /\ x.expiry = e.codeExpiry
          /\ y = [x EXCEPT !.uses = @ + 1, !.usedAt = t] /\ t \in Nat
      BY <1>2, <2>2, <2>3
    <3> HIDE DEF x, y, n, e, c, t
    <3>2. y = [x EXCEPT !.uses = 1, !.usedAt = t]
      BY <3>1
    <3> DEFINE a == [x EXCEPT !.uses = 1]
    <3>3. a \in Issue /\ a.uses = 1 /\ a.code = c /\ a.expiry = e.codeExpiry
      BY <3>1 DEF Issue
    <3>4. y = [a EXCEPT !.usedAt = t]
      BY <3>2
    <3> HIDE DEF a
    <3> QED
      BY <3>1, <3>3, <3>4 DEF Issue
  <2>5. issues' = [issues EXCEPT ![n] = y]
    BY <2>1, <2>2, <2>3 DEF Issue
  <2>6. t <= e.codeExpiry
    <3>1. t \in Nat /\ e.codeExpiry \in Nat
      BY <1>2, <2>3 DEF Entry
    <3>2. ~(t > e.codeExpiry)
      BY <2>1 DEF Expired
    <3> HIDE DEF t, e
    <3> QED BY <3>1, <3>2
  <2> HIDE DEF y
  <2>7. /\ issues' \in Seq(Issue) /\ Len(issues') = Len(issues)
        /\ \A i \in 1..Len(issues) : issues'[i] = IF i = n THEN y ELSE issues[i]
    BY <1>4, <1>11, <2>2, <2>4, <2>5, ExceptSeq, SMTT(30)
  <2>8. DOMAIN issues' = DOMAIN issues
    BY <2>5
  <2>9. HonouredOnceInTime'
    <3>1. \A i \in DOMAIN issues : /\ issues'[i].uses <= 1
                                   /\ issues'[i].uses = 1 =>
                                        issues'[i].usedAt <= issues'[i].expiry
      BY <1>4, <1>11, <2>4, <2>6, <2>7 DEF HonouredOnceInTime
    <3> QED
      BY <2>8, <3>1 DEF HonouredOnceInTime
  <2>10. IssuedStaysGood'
    <3>1. ASSUME NEW i \in DOMAIN issues, issues'[i].uses = 0, ~issues'[i].lost,
                 now <= issues'[i].expiry
          PROVE  store'[issues'[i].code].issue = i
      <4>1. i # n /\ issues'[i] = issues[i]
        BY <1>11, <2>4, <2>7, <3>1
      <4>2. s[issues[i].code].issue = i
        BY <1>3, <3>1, <4>1
      <4>3. issues[i].code # c
        BY <4>1, <4>2
      <4>4. issues[i].code \in Codes
        BY <1>11 DEF Issue
      <4> QED
        BY <1>9, <4>1, <4>2, <4>3, <4>4
    <3> QED
      BY <1>1, <2>8, <3>1 DEF IssuedStaysGood
  <2>11. ASSUME NEW d \in Codes PROVE EntryOK(d, store'[d], issues')
    <3>1. CASE d = c
      BY <1>9, <3>1 DEF EntryOK
    <3>2. CASE d # c
      <4>1. EntryOK(d, s[d], issues) /\ store'[d] = s[d]
        BY <1>3, <1>9, <3>2
      <4>2. s[d] # NoEntry => s[d].issue # n
        BY <2>2, <3>2, <4>1 DEF EntryOK
      <4> QED
        BY <1>11, <2>7, <2>8, <4>1, <4>2 DEF EntryOK
    <3> QED
      BY <3>1, <3>2
  <2>12. JwtOK(e.jwt, now, grants)
    BY <1>2, <1>3
  <2> HIDE DEF e
  <2> QED
    BY <1>1, <1>4, <1>9, <1>10, <2>1, <2>7, <2>9, <2>10, <2>11, <2>12, StoreStep
<1> QED
  BY <1>12, <1>13

-----------------------------------------------------------------------------
LEMMA TickStep ==
  ASSUME IInv, Tick
  PROVE  IInv'
<1>1. /\ now \in Nat /\ now' \in 0..MaxTime /\ now' \in Nat /\ now <= now'
      /\ UNCHANGED <<store, cookie, known, req, issues, grants, sends, restarts>>
  BY SessionAssumption DEF Tick, IInv, TypeOK
<1>2. TypeOK' /\ HonouredOnceInTime'
  BY <1>1 DEF IInv, TypeOK, HonouredOnceInTime
<1>3. IssuedStaysGood'
  <2>1. issues \in Seq(Issue)
    BY DEF IInv, TypeOK
  <2>2. \A i \in DOMAIN issues : issues[i] \in Issue
    BY <2>1, ElementOfSeq
  <2>3. \A i \in DOMAIN issues : issues[i].expiry \in Nat
    BY <2>2 DEF Issue
  <2> QED
    BY <1>1, <2>3 DEF IInv, IssuedStaysGood
<1>4. Sessions'
  <2>1. \A c \in Codes : JwtOK(store[c].jwt, now', grants)
    BY <1>1, JwtKept DEF IInv, Sessions
  <2>2. \A b \in Browsers : JwtOK(cookie[b].jwt, now', grants)
    BY <1>1, JwtKept DEF IInv, Sessions
  <2>3. \A r \in Requests : RequestOK(req[r], now', grants)
    <3> TAKE r \in Requests
    <3>1. req[r] \in Request /\ RequestOK(req[r], now, grants)
      BY DEF IInv, TypeOK, Sessions
    <3> QED
      BY <1>1, <3>1, RequestKept
  <2> QED
    BY <1>1, <2>1, <2>2, <2>3 DEF Sessions
<1> QED
  BY <1>1, <1>2, <1>3, <1>4 DEF IInv

LEMMA RestartStep ==
  ASSUME IInv, Restart
  PROVE  IInv'
<1>1. /\ now \in Nat /\ restarts' \in 0..MaxRestarts
      /\ store' = [c \in Codes |-> NoEntry] /\ req' = [r \in Requests |-> NoRequest]
      /\ issues' = [i \in DOMAIN issues |-> [issues[i] EXCEPT !.lost = TRUE]]
      /\ UNCHANGED <<now, cookie, known, grants, sends>>
  BY SessionAssumption DEF Restart, IInv, TypeOK
<1>2. /\ issues \in Seq(Issue) /\ DOMAIN issues = 1..Len(issues) /\ Len(issues) \in Nat
      /\ \A i \in DOMAIN issues : issues[i] \in Issue
  <2>1. issues \in Seq(Issue)
    BY DEF IInv, TypeOK
  <2> QED
    BY <2>1, ElementOfSeq
<1>3. \A i \in DOMAIN issues : /\ issues'[i] \in Issue /\ issues'[i].lost
                               /\ issues'[i].uses = issues[i].uses
                               /\ issues'[i].usedAt = issues[i].usedAt
                               /\ issues'[i].expiry = issues[i].expiry
  BY <1>1, <1>2 DEF Issue
<1>4. /\ issues' \in Seq(Issue) /\ Len(issues') = Len(issues)
      /\ DOMAIN issues' = DOMAIN issues
  <2> DEFINE n == Len(issues)
  <2>1. issues' \in [1..n -> Issue] /\ n \in Nat
    BY <1>1, <1>2, <1>3
  <2>2. issues' \in Seq(Issue)
    BY <2>1, SeqDef
  <2>3. DOMAIN issues' = DOMAIN issues
    BY <1>1
  <2> QED
    BY <1>2, <2>2, <2>3
<1>5. NoEntry \in Entry /\ NoEntry.jwt = None
  BY DEF NoEntry, Entry, None, SessionJWT
<1>6. /\ NoRequest \in Request /\ RequestOK(NoRequest, now, grants)
      /\ JwtOK(None, now, grants)
  BY <1>1, NoRequestOK, NoneOK
<1>7. TypeOK'
  BY <1>1, <1>4, <1>5, <1>6 DEF IInv, TypeOK
<1>8. HonouredOnceInTime'
  BY <1>3, <1>4 DEF IInv, HonouredOnceInTime
<1>9. IssuedStaysGood'
  BY <1>3, <1>4 DEF IssuedStaysGood
<1>10. Sessions'
  BY <1>1, <1>5, <1>6 DEF IInv, Sessions
<1>11. \A c \in Codes : EntryOK(c, store'[c], issues')
  BY <1>1 DEF EntryOK
<1> QED
  BY <1>7, <1>8, <1>9, <1>10, <1>11 DEF IInv

LEMMA InitOK == Init => IInv
<1> SUFFICES ASSUME Init PROVE IInv
  OBVIOUS
<1>1. /\ NoEntry \in Entry /\ NoEntry.jwt = None
      /\ NoCookie \in Cookie /\ NoCookie.jwt = None
  BY DEF NoEntry, Entry, NoCookie, Cookie, None, SessionJWT
<1>2. now = 0 /\ now \in Nat /\ issues = <<>> /\ DOMAIN issues = {} /\ Len(issues) = 0
  BY DEF Init
<1>3. /\ NoRequest \in Request /\ RequestOK(NoRequest, now, grants)
      /\ JwtOK(None, now, grants)
  BY <1>2, NoRequestOK, NoneOK
<1>4. TypeOK
  BY <1>1, <1>2, <1>3, SessionAssumption DEF Init, TypeOK
<1>5. HonouredOnceInTime /\ IssuedStaysGood
  BY <1>2 DEF HonouredOnceInTime, IssuedStaysGood
<1>6. Sessions
  BY <1>1, <1>3 DEF Init, Sessions
<1>7. \A c \in Codes : EntryOK(c, store[c], issues)
  BY DEF Init, EntryOK
<1> QED
  BY <1>4, <1>5, <1>6, <1>7 DEF IInv

LEMMA NextStep == IInv /\ [Next]_vars => IInv'
<1> SUFFICES ASSUME IInv, [Next]_vars PROVE IInv'
  OBVIOUS
<1>1. CASE UNCHANGED vars
  BY <1>1 DEF vars, IInv, TypeOK, HonouredOnceInTime, IssuedStaysGood, Sessions
<1>2. ASSUME NEW r \in Requests, NEW b \in Browsers, NEW kind \in Kinds,
             NEW code \in Codes \cup {NoCode}, NEW token \in Tokens,
             Send(r, b, kind, code, token)
      PROVE  IInv'
  BY <1>2, SendStep
<1>3. ASSUME NEW r \in Requests, Serve(r) PROVE IInv'
  BY <1>3, ContextStep, LoginStep, ClockStep, IssueClock, ExchangeStep, PlainReply, IssueStep,
     ConsumeStep DEF Serve
<1>4. ASSUME NEW r \in Requests, Timeout(r) \/ Deliver(r) \/ Lose(r) PROVE IInv'
  BY <1>4, TimeoutStep, DeliverStep
<1>5. CASE Tick \/ Restart
  BY <1>5, TickStep, RestartStep
<1> QED
  BY <1>1, <1>2, <1>3, <1>4, <1>5 DEF Next

-----------------------------------------------------------------------------
(* The invariant holds in every reachable state, whatever requests the     *)
(* handlers of auth.go serve at once and wherever their answers are lost.  *)
THEOREM Invariance == Spec => []IInv
<1>1. Init => IInv
  BY InitOK
<1>2. IInv /\ [Next]_vars => IInv'
  BY NextStep
<1> QED
  BY <1>1, <1>2, PTL DEF Spec

(* Every step of auth.go, session.go and the code store keeps the types:   *)
(* no claim, lifetime or expiry ever becomes negative.                     *)
THEOREM TypeCorrect == Spec => []TypeOK
<1>1. IInv => TypeOK
  BY DEF IInv
<1> QED
  BY <1>1, Invariance, PTL

(* authExchangeCodeStore.Consume honours a code at most once and in time,  *)
(* however many requests present it and however old their clock is.        *)
THEOREM HonouredOnceInTimeHolds == Spec => []HonouredOnceInTime
<1>1. IInv => HonouredOnceInTime
  BY DEF IInv
<1> QED
  BY <1>1, Invariance, PTL

(* Neither cleanupExpired, with a clock that is behind, nor another Issue   *)
(* or Consume takes away a code that is still good.                         *)
THEOREM IssuedStaysGoodHolds == Spec => []IssuedStaysGood
<1>1. IInv => IssuedStaysGood
  BY DEF IInv
<1> QED
  BY <1>1, Invariance, PTL

(* Whom SessionContext serves was accepted by ExchangeLegacyJWT less than   *)
(* SessionTTL before.                                                       *)
THEOREM AccessTracesToGrantHolds == Spec => []AccessTracesToGrant
<1>1. IInv => AccessTracesToGrant
  <2> SUFFICES ASSUME IInv, NEW r \in Requests, req[r].sess # None
               PROVE  \E g \in grants :
                        /\ g.user = req[r].sess.user /\ g.org = req[r].sess.org
                        /\ g.at <= req[r].routed
                        /\ req[r].routed < g.at + SessionTTL
    BY DEF AccessTracesToGrant
  <2> DEFINE q == req[r]
             g == [user |-> q.sess.user, org |-> q.sess.org, at |-> q.sess.nbf]
  <2>1. RequestOK(q, now, grants)
    BY DEF IInv, Sessions
  <2>2. /\ g \in grants /\ q.sess.exp = q.sess.nbf + SessionTTL
        /\ q.sess.nbf <= q.routed /\ q.routed < q.sess.exp
    BY <2>1 DEF RequestOK, JwtOK
  <2>3. /\ g.user = q.sess.user /\ g.org = q.sess.org /\ g.at = q.sess.nbf
    OBVIOUS
  <2> HIDE DEF g
  <2> QED
    BY <2>2, <2>3
<1> QED
  BY <1>1, Invariance, PTL

(* SessionContext's own Set-Cookie, whether it goes out with the answer of  *)
(* the handler or with that of the timeout, never takes away a cookie that  *)
(* is still good.                                                           *)
THEOREM LiveCookieKeptHolds == Spec => LiveCookieKept
<1>1. IInv /\ [Next]_vars =>
        [\A b \in Browsers :
           now < cookie[b].jwt.exp /\ cookie'[b].jwt # cookie[b].jwt =>
             \E r \in Requests : /\ req[r].pc # "idle" /\ req[r].b = b
                                 /\ req'[r] # req[r]
                                 /\ \/ req[r].effect # "keep"
                                    \/ req[r].sent # cookie[b].jwt]_vars
  <2> SUFFICES ASSUME IInv, Next, NEW b \in Browsers, now < cookie[b].jwt.exp,
                      cookie'[b].jwt # cookie[b].jwt
               PROVE  \E r \in Requests : /\ req[r].pc # "idle" /\ req[r].b = b
                                          /\ req'[r] # req[r]
                                          /\ \/ req[r].effect # "keep"
                                             \/ req[r].sent # cookie[b].jwt
    OBVIOUS
  <2>1. /\ now \in Nat /\ cookie \in [Browsers -> Cookie]
        /\ cookie[b].jwt \in SessionJWT /\ cookie[b].jwt.exp \in Nat
    BY SessionAssumption DEF IInv, TypeOK, Cookie, SessionJWT
  <2>2. PICK r \in Requests : Timeout(r) \/ Deliver(r)
    <3>1. cookie' # cookie
      OBVIOUS
    <3>2. ASSUME NEW q \in Requests PROVE ~Serve(q)
      BY <3>1 DEF Serve, SessionContext, LoginJWT, LoginCode, Exchange, Session,
         Logout, BeginIssue, IssueCode, Consume
    <3>3. ASSUME NEW q \in Requests PROVE ~Lose(q)
      BY <3>1 DEF Lose
    <3>4. \A q, c, kind, code, token : ~Send(q, c, kind, code, token)
      BY <3>1 DEF Send
    <3>5. ~Tick /\ ~Restart
      BY <3>1 DEF Tick, Restart
    <3> QED
      BY <3>2, <3>3, <3>4, <3>5 DEF Next
  <2>3. /\ req[r].b \in Browsers /\ req[r].pc # "idle"
        /\ req[r].clear => req[r].sent.exp <= now
        /\ req[r] \in Request
    BY <2>2 DEF IInv, TypeOK, Sessions, RequestOK, Timeout, Deliver
  <2>4. req[r].b = b
    BY <2>1, <2>2, <2>3 DEF Timeout, Deliver
  <2>5. req[r].effect # "keep" \/ req[r].clear
    <3>1. CASE Timeout(r)
      BY <3>1 DEF Timeout
    <3>2. CASE Deliver(r) /\ req[r].effect = "keep" /\ ~req[r].clear
      <4>1. Answered(r) = cookie[b]
        BY <2>4, <3>2 DEF Answered
      <4> QED
        BY <2>1, <2>4, <3>2, <4>1 DEF Deliver
    <3> QED
      BY <2>2, <3>1, <3>2
  <2>6. req[r].clear => req[r].sent # cookie[b].jwt
    BY <2>1, <2>3
  <2>7. req'[r] # req[r]
    <3>1. req \in [Requests -> Request]
      BY DEF IInv, TypeOK
    <3>2. CASE Timeout(r)
      <4>1. req'[r].gone /\ ~req[r].gone
        BY <2>3, <3>1, <3>2 DEF Timeout, Become, Request
      <4> QED
        BY <4>1
    <3>3. CASE Deliver(r)
      <4>1. req'[r].pc = "idle"
        BY <3>1, <3>3 DEF Deliver, Become, NoRequest, NewRequest
      <4> QED
        BY <2>3, <4>1
    <3> QED
      BY <2>2, <3>2, <3>3
  <2> QED
    BY <2>3, <2>4, <2>5, <2>6, <2>7
<1> QED
  BY <1>1, Invariance, PTL DEF Spec, LiveCookieKept
=============================================================================
