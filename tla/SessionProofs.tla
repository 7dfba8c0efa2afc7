---------------------------- MODULE SessionProofs ----------------------------
(***************************************************************************)
(* Theorems about the session of a browser: for every lifespan and every   *)
(* length of a tick, with any number of requests in flight and answers in  *)
(* any order, the server serves no request on a session that is older than *)
(* its lifespan, or that has not been used for the time of inactivity.     *)
(***************************************************************************)
EXTENDS Session, TLAPS

-----------------------------------------------------------------------------
(* Whole seconds.                                                          *)

\* A time is in the second that is its part before the point.
LEMMA SecondOf ==
  ASSUME NEW t \in Nat
  PROVE  /\ Second(t) \in Nat
         /\ Second(t) * TicksPerSecond <= t
         /\ t < (Second(t) + 1) * TicksPerSecond
  BY SessionAssumption, SMTT(30) DEF Second

LEMMA SecondInOrder ==
  ASSUME NEW t \in Nat, NEW u \in Nat, t <= u
  PROVE  Second(t) <= Second(u)
<1>1. /\ Second(t) \in Nat /\ Second(u) \in Nat /\ TicksPerSecond \in Nat
      /\ Second(t) * TicksPerSecond <= t /\ u < (Second(u) + 1) * TicksPerSecond
  BY SecondOf, SessionAssumption
<1>2. \A a, b, k \in Nat : b + 1 <= a => (b + 1) * k <= a * k
  OBVIOUS
<1>3. ~(Second(u) + 1 <= Second(t))
  BY <1>1, <1>2
<1> QED BY <1>1, <1>3

LEMMA InactivityIsNat == \A life \in Nat : Inactivity(life) \in Nat
  BY SessionAssumption DEF Inactivity

-----------------------------------------------------------------------------
(* Every token there is goes back to an Authorize, whose second it has, and *)
(* ends the time of inactivity after its last use.                          *)

TokenInv(t) ==
  /\ DOMAIN t = {"iat", "exp", "start", "used"}
  /\ t.start \in 0..now /\ t.used \in 0..now
  /\ t.iat = Second(t.start)
  /\ t.exp = Second(t.used + Inactivity(lifespan))

RequestInv(r) ==
  /\ r.at \in {"idle", "sent", "answered"}
  /\ r.at = "sent" /\ r.kind \in Kinds => r.token = None \/ TokenInv(r.token)
  /\ r.at = "answered" => r.set \in {Keep, Drop} \/ TokenInv(r.set.token)

SessionInv ==
  /\ now \in Nat /\ lifespan \in Lifespans
  /\ cookie = None \/ TokenInv(cookie.token)
  /\ DOMAIN reqs = Slots
  /\ \A s \in Slots : RequestInv(reqs[s])

\* A new session.
LEMMA Authorizes ==
  ASSUME SessionInv
  PROVE  TokenInv(Authorize.token)
<1> DEFINE t == Authorize.token
<1>1. /\ now \in Nat /\ lifespan \in Nat /\ Inactivity(lifespan) \in Nat
      /\ now + Inactivity(lifespan) \in Nat
  BY SessionAssumption, InactivityIsNat DEF SessionInv
<1>2. /\ t.iat = Second(now) /\ t.exp = Second(now + Inactivity(lifespan))
      /\ t.start = now /\ t.used = now
      /\ DOMAIN t = {"iat", "exp", "start", "used"}
  BY DEF Authorize, SetCookie
<1> QED BY <1>1, <1>2 DEF TokenInv

\* What a token's seconds say of its times.
LEMMA TokenTimes ==
  ASSUME SessionInv, NEW t, TokenInv(t)
  PROVE  /\ t.iat \in Nat /\ t.exp \in Nat /\ t.start \in Nat /\ t.used \in Nat
         /\ t.iat * TicksPerSecond <= t.start
         /\ t.start < (t.iat + 1) * TicksPerSecond
         /\ t.exp * TicksPerSecond <= t.used + Inactivity(lifespan)
         /\ t.used + Inactivity(lifespan) \in Nat
         /\ now \in Nat /\ TicksPerSecond \in Nat
<1>1. /\ now \in Nat /\ lifespan \in Nat /\ Inactivity(lifespan) \in Nat
      /\ t.start \in Nat /\ t.used \in Nat /\ TicksPerSecond \in Nat
  BY SessionAssumption, InactivityIsNat DEF SessionInv, TokenInv
<1>2. t.used + Inactivity(lifespan) \in Nat
  BY <1>1
<1> QED BY <1>1, <1>2, SecondOf DEF TokenInv

\* The same session for another while.
LEMMA Extends ==
  ASSUME SessionInv, NEW t, TokenInv(t)
  PROVE  TokenInv(Extend(t).token)
<1> DEFINE e == Extend(t).token
<1>1. /\ now \in Nat /\ lifespan \in Nat /\ Inactivity(lifespan) \in Nat
      /\ now + Inactivity(lifespan) \in Nat
  BY SessionAssumption, InactivityIsNat DEF SessionInv
<1>2. e.exp = Second(now + Inactivity(lifespan)) /\ e.used = now
      /\ e.iat = t.iat /\ e.start = t.start
      /\ DOMAIN e = {"iat", "exp", "start", "used"}
  BY DEF Extend, SetCookie, TokenInv
<1> QED BY <1>1, <1>2 DEF TokenInv

LEMMA SessionInit == Init => SessionInv
  BY SessionAssumption DEF Init, SessionInv, RequestInv

LEMMA SessionStep == SessionInv /\ [Next]_vars => SessionInv'
<1> SUFFICES ASSUME SessionInv, [Next]_vars PROVE SessionInv'
    OBVIOUS
<1>1. ASSUME NEW s \in Slots, NEW r,
             reqs' = [reqs EXCEPT ![s] = r], UNCHANGED <<now, lifespan>>,
             RequestInv(r), cookie' = None \/ TokenInv(cookie'.token)
      PROVE  SessionInv'
  <2>1. now' \in Nat /\ lifespan' \in Lifespans /\ DOMAIN reqs' = Slots
    BY <1>1 DEF SessionInv
  <2>2. Inactivity(lifespan') = Inactivity(lifespan) /\ now' = now
    BY <1>1
  <2>3. cookie' = None \/ (TokenInv(cookie.token))'
    BY <1>1, <2>2 DEF TokenInv
  <2>4. ASSUME NEW q \in Slots PROVE (RequestInv(reqs[q]))'
    <3>1. RequestInv(reqs'[q])
      BY <1>1 DEF SessionInv
    <3> QED BY <3>1, <2>2 DEF RequestInv, TokenInv
  <2> QED BY <2>1, <2>3, <2>4 DEF SessionInv
<1>2. ASSUME NEW s \in Slots, NEW set, Answer(s, set),
             set \in {Keep, Drop} \/ TokenInv(set.token)
      PROVE  SessionInv'
  <2>1. RequestInv([at |-> "answered", kind |-> reqs[s].kind, set |-> set])
    BY <1>2 DEF RequestInv
  <2>2. cookie' = None \/ TokenInv(cookie'.token)
    BY <1>2 DEF Answer, SessionInv
  <2> QED BY <1>1, <1>2, <2>1, <2>2 DEF Answer, Step
<1>3. CASE Tick
  BY <1>3 DEF Tick, SessionInv, RequestInv, TokenInv, Inactivity
<1>4. ASSUME NEW s \in Slots, Send(s) PROVE SessionInv'
  <2>1. PICK k \in Kinds : Step(s, [at |-> "sent", kind |-> k, token |-> Carried])
    BY <1>4 DEF Send
  <2>2. Carried = None \/ TokenInv(Carried)
    BY DEF Carried, SessionInv
  <2>3. RequestInv([at |-> "sent", kind |-> k, token |-> Carried])
    BY <2>2 DEF RequestInv
  <2>4. cookie' = None \/ TokenInv(cookie'.token)
    BY <1>4 DEF Send, SessionInv
  <2> QED BY <1>1, <2>1, <2>3, <2>4 DEF Step
<1>5. ASSUME NEW s \in Slots, SendCallback(s) PROVE SessionInv'
  <2>1. PICK t \in 0..now : Step(s, [at |-> "sent", kind |-> "callback", login |-> t])
    BY <1>5 DEF SendCallback
  <2>2. RequestInv([at |-> "sent", kind |-> "callback", login |-> t])
    BY DEF RequestInv, Kinds
  <2>3. cookie' = None \/ TokenInv(cookie'.token)
    BY <1>5 DEF SendCallback, SessionInv
  <2> QED BY <1>1, <2>1, <2>2, <2>3 DEF Step
<1>6. ASSUME NEW s \in Slots, Receive(s) PROVE SessionInv'
  <2>1. RequestInv(reqs[s]) /\ reqs[s].at = "answered"
    BY <1>6 DEF SessionInv, Receive
  <2>2. cookie' = None \/ TokenInv(cookie'.token)
    BY <1>6, <2>1 DEF SessionInv, Receive, RequestInv
  <2>3. PICK r \in {[at |-> "sent", kind |-> "expire"], [at |-> "idle"]} : Step(s, r)
    BY <1>6 DEF Receive
  <2>4. RequestInv(r)
    BY <2>3 DEF RequestInv, Kinds
  <2> QED BY <1>1, <2>2, <2>3, <2>4 DEF Step
<1>7. ASSUME NEW s \in Slots, Served(s) PROVE SessionInv'
  <2>1. TokenInv(reqs[s].token)
    BY <1>7 DEF Served, Accept, AcceptSwitch, Valid, SessionInv, RequestInv, Kinds
  <2>2. PICK set : Answer(s, set) /\ set \in {Authorize, Extend(reqs[s].token)}
    BY <1>7 DEF Served, Accept, AcceptSwitch
  <2>3. TokenInv(set.token)
    BY <2>1, <2>2, Authorizes, Extends
  <2> QED BY <1>2, <2>2, <2>3
<1>8. ASSUME NEW s \in Slots, Refuse(s) \/ Expire(s) PROVE SessionInv'
  BY <1>2, <1>8 DEF Refuse, Expire
<1>9. ASSUME NEW s \in Slots, Callback(s) PROVE SessionInv'
  <2>1. PICK set : Answer(s, set) /\ set \in {Authorize, Keep}
    BY <1>9 DEF Callback
  <2> QED BY <1>2, <2>1, Authorizes
<1>10. CASE UNCHANGED vars
  BY <1>10 DEF vars, SessionInv, RequestInv, TokenInv, Inactivity
<1> QED BY <1>3, <1>4, <1>5, <1>6, <1>7, <1>8, <1>9, <1>10 DEF Next, Served

LEMMA SessionInductive == Spec => []SessionInv
  BY SessionInit, SessionStep, PTL DEF Spec

-----------------------------------------------------------------------------
(* The two ends of a session.                                              *)

\* However often it is extended, a session is served no longer than its lifespan
\* after it was issued (oauth2/jwt.go, ExtendedPrincipal keeps the issue time).
THEOREM ServedWithinLifespan == Spec => NoLongerThanLifespan
<1>1. ASSUME SessionInv, NEW s \in Slots, Served(s), lifespan > 0
      PROVE  now < reqs[s].token.start + lifespan + TicksPerSecond
  <2> DEFINE t == reqs[s].token
  <2>1. TokenInv(t) /\ Valid(t, lifespan)
    BY <1>1 DEF Served, Accept, AcceptSwitch, Valid, SessionInv, RequestInv, Kinds
  <2>2. Second(now) \in Nat /\ now < (Second(now) + 1) * TicksPerSecond
    BY <1>1, SecondOf DEF SessionInv
  <2>3. lifespan \in Nat /\ now \in Nat /\ TicksPerSecond \in Nat
    BY <1>1, SessionAssumption DEF SessionInv
  <2>4. /\ Second(now) <= t.exp /\ (t.exp - t.iat) * TicksPerSecond <= lifespan
        /\ t.iat \in Nat /\ t.exp \in Nat /\ t.start \in Nat
        /\ t.iat * TicksPerSecond <= t.start
    BY <1>1, <2>1, TokenTimes DEF Valid
  <2>5. Second(now) * TicksPerSecond <= t.exp * TicksPerSecond
    BY <2>2, <2>3, <2>4
  <2> QED BY <2>2, <2>3, <2>4, <2>5
<1>2. SessionInv /\ [Next]_vars =>
        [\A s \in Slots : Served(s) /\ lifespan > 0 =>
           now < reqs[s].token.start + lifespan + TicksPerSecond]_vars
  BY <1>1
<1> QED BY <1>2, SessionInductive, PTL DEF Spec, NoLongerThanLifespan

\* Nor is it served when it was not used for the time of inactivity, whichever
\* of its tokens the browser has kept (oauth2/cookies.go, Inactivity).
THEOREM ServedWhileActive == Spec => NotAfterInactivity
<1>1. ASSUME SessionInv, NEW s \in Slots, Served(s)
      PROVE  now < reqs[s].token.used + Inactivity(lifespan) + TicksPerSecond
  <2> DEFINE t == reqs[s].token
  <2>1. TokenInv(t) /\ Valid(t, lifespan)
    BY <1>1 DEF Served, Accept, AcceptSwitch, Valid, SessionInv, RequestInv, Kinds
  <2>2. Second(now) \in Nat /\ now < (Second(now) + 1) * TicksPerSecond
    BY <1>1, SecondOf DEF SessionInv
  <2>3. now \in Nat /\ TicksPerSecond \in Nat /\ Inactivity(lifespan) \in Nat
    BY <1>1, SessionAssumption, InactivityIsNat DEF SessionInv
  <2>4. /\ Second(now) <= t.exp /\ t.exp \in Nat /\ t.used \in Nat
        /\ t.exp * TicksPerSecond <= t.used + Inactivity(lifespan)
    BY <1>1, <2>1, TokenTimes DEF Valid
  <2>5. Second(now) * TicksPerSecond <= t.exp * TicksPerSecond
    BY <2>2, <2>3, <2>4
  <2> QED BY <2>2, <2>3, <2>4, <2>5
<1>2. SessionInv /\ [Next]_vars =>
        [\A s \in Slots : Served(s) =>
           now < reqs[s].token.used + Inactivity(lifespan) + TicksPerSecond]_vars
  BY <1>1
<1> QED BY <1>2, SessionInductive, PTL DEF Spec, NotAfterInactivity

\* A session in use goes on until its life is nearly over: the token is good,
\* whatever was rounded, if it was used within Inactivity and could be extended
\* then without being too long (oauth2/jwt.go, ValidPrincipal).
THEOREM UsedSessionIsServed == Spec => UsedSessionGoesOn
<1>1. ASSUME SessionInv, NEW s \in Slots, Refuse(s), reqs[s].token # None,
             ~(now >= reqs[s].token.used + Inactivity(lifespan)),
             ~(reqs[s].token.used > ExtendableUntil(reqs[s].token) - TicksPerSecond)
      PROVE  FALSE
  <2> DEFINE t == reqs[s].token
  <2>1. TokenInv(t) /\ ~Valid(t, lifespan)
    BY <1>1 DEF Refuse, SessionInv, RequestInv, Kinds
  <2>2. /\ t.iat \in Nat /\ t.exp \in Nat /\ t.start \in Nat /\ t.used \in Nat
        /\ t.start < (t.iat + 1) * TicksPerSecond
        /\ t.exp * TicksPerSecond <= t.used + Inactivity(lifespan)
        /\ t.used + Inactivity(lifespan) \in Nat
        /\ now \in Nat /\ TicksPerSecond \in Nat
    BY <1>1, <2>1, TokenTimes
  <2>3. lifespan \in Nat /\ Inactivity(lifespan) \in Nat
    BY <1>1, SessionAssumption, InactivityIsNat DEF SessionInv
  <2>4. Second(now) <= t.exp
    BY <1>1, <2>1, <2>2, <2>3, SecondInOrder DEF TokenInv
  <2>5. t.iat <= Second(now)
    BY <2>1, <2>2, SecondInOrder DEF TokenInv
  <2>6. ASSUME lifespan > 0 PROVE (t.exp - t.iat) * TicksPerSecond <= lifespan
    <3>1. t.used <= t.start + lifespan - Inactivity(lifespan) - TicksPerSecond
      BY <1>1, <2>2, <2>3, <2>6 DEF ExtendableUntil
    <3>2. t.exp * TicksPerSecond < (t.iat + 1) * TicksPerSecond + lifespan - TicksPerSecond
      BY <2>2, <2>3, <3>1
    <3> QED BY <2>2, <2>3, <3>2
  <2> QED BY <1>1, <2>1, <2>4, <2>5, <2>6 DEF Valid
<1>2. SessionInv /\ [Next]_vars =>
        [\A s \in Slots :
           LET t == reqs[s].token
           IN  Refuse(s) /\ t # None =>
                  \/ now >= t.used + Inactivity(lifespan)
                  \/ t.used > ExtendableUntil(t) - TicksPerSecond]_vars
  BY <1>1
<1> QED BY <1>2, SessionInductive, PTL DEF Spec, UsedSessionGoesOn

=============================================================================
