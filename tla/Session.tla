-------------------------------- MODULE Session --------------------------------
(***************************************************************************)
(* The session of one browser (oauth2/cookies.go, jwt.go and mux.go, and   *)
(* the token middleware of server/auth.go).  The server keeps nothing: the *)
(* session is a signed token in a cookie, every request that is served     *)
(* writes a new one, and answers reach the browser in any order.           *)
(*                                                                         *)
(* The clock counts ticks, TicksPerSecond of them in a second: the server  *)
(* works with fine times, but a token and a cookie hold whole seconds.     *)
(***************************************************************************)
EXTENDS Integers, FiniteSets

CONSTANTS
    Slots,              \* requests the browser may have in flight
    Lifespans,          \* values of --auth-duration to consider, 0 for none
    DefaultInactivity,  \* DefaultInactivityDuration
    TenMinutes,         \* how long the login state is good for
    TicksPerSecond,
    MaxTime             \* the clock stops here

ASSUME SessionAssumption ==
    /\ IsFiniteSet(Slots)
    /\ Lifespans \subseteq Nat /\ Lifespans # {}
    /\ DefaultInactivity \in Nat /\ TenMinutes \in Nat
    /\ TicksPerSecond \in Nat \ {0} /\ MaxTime \in Nat

VARIABLES
    now,       \* the clock
    lifespan,  \* c.Lifespan, fixed when the server starts
    cookie,    \* the session cookie of the browser
    reqs       \* the requests in flight and the answers on their way

vars == <<now, lifespan, cookie, reqs>>

None == [iat |-> -1]
Never == -1

\* Unix().
Second(t) == t \div TicksPerSecond
Seconds == 0..(Second(MaxTime) + DefaultInactivity + TenMinutes)

\* A token. The server reads iat and exp; start and used are the times of the
\* Authorize it goes back to and of the Authorize or Extend that made it, kept
\* for the properties. The organization in it decides nothing here.
Token == [iat : Seconds, exp : Seconds, start : 0..MaxTime, used : 0..MaxTime]

\* The cookie with the second in which the browser forgets it.
Cookie == [token : Token, until : Nat \cup {Never}]

\* What an answer does to the cookie, other than set it: nothing, or expire it.
Keep == [cookie |-> "keep"]
Drop == [cookie |-> "drop"]
Answers == Cookie \cup {Keep, Drop}
Kinds == {"use", "switch", "logout"}

TypeOK ==
    /\ now \in 0..MaxTime /\ lifespan \in Lifespans
    /\ cookie \in Cookie \cup {None}
    /\ reqs \in [Slots ->
           [at : {"idle"}]
           \cup [at : {"sent"}, kind : Kinds, token : Token \cup {None}]
           \cup [at : {"sent"}, kind : {"expire"}]
           \cup [at : {"sent"}, kind : {"callback"}, login : 0..MaxTime]
           \cup [at : {"answered"}, kind : Kinds \cup {"expire", "callback"},
                 set : Answers]]

Init ==
    /\ now = 0 /\ lifespan \in Lifespans
    /\ cookie = None
    /\ reqs = [s \in Slots |-> [at |-> "idle"]]

-----------------------------------------------------------------------------
(* Tokens and cookies. *)

\* NewCookieJWT.
Inactivity(life) ==
    IF life > 0 /\ DefaultInactivity > life THEN life \div 2
                                            ELSE DefaultInactivity

\* Mutant: the expiry is not looked at.
ValidNotExpired(t, life) ==
    t.iat >= 0 /\ t.iat <= Second(now)
    /\ (life > 0 => (t.exp - t.iat) * TicksPerSecond <= life)

\* ValidPrincipal: not expired, not before its issue, not longer than life. The
\* signature is good: every token was made by the server.
Valid(t, life) ==
    /\ t # None
    /\ Second(now) <= t.exp /\ t.iat <= Second(now)
    /\ life > 0 => (t.exp - t.iat) * TicksPerSecond <= life

SetCookie(token, expires) ==
    [token |-> token,
     until |-> IF lifespan > 0 THEN Second(expires) ELSE Never]

\* Authorize: a new session.
Authorize ==
    SetCookie([iat |-> Second(now), exp |-> Second(now + Inactivity(lifespan)),
               start |-> now, used |-> now],
              now + lifespan)

\* Mutant: Extend issues the token anew.
ExtendAnew(t) ==
    SetCookie([t EXCEPT !.iat = Second(now), !.used = now,
                        !.exp = Second(now + Inactivity(lifespan))],
              now + lifespan)

\* Mutant: Extend writes the token back as it was.
ExtendNothing(t) ==
    SetCookie([t EXCEPT !.used = now], t.iat * TicksPerSecond + lifespan)

\* Extend: the same session, for another while without activity.
Extend(t) ==
    SetCookie([t EXCEPT !.exp = Second(now + Inactivity(lifespan)),
                        !.used = now],
              t.iat * TicksPerSecond + lifespan)

-----------------------------------------------------------------------------
(* The browser. *)

Tick == now < MaxTime /\ now' = now + 1 /\ UNCHANGED <<lifespan, cookie, reqs>>

\* Login: a state for the provider to bring back, good for ten minutes.
LoginState(at) == [iat |-> Second(at), exp |-> Second(at + TenMinutes)]

\* The token that goes with a request: a cookie that has expired does not.
Carried ==
    IF cookie # None /\ (cookie.until = Never \/ Second(now) < cookie.until)
    THEN cookie.token ELSE None

Step(s, r) ==
    /\ reqs' = [reqs EXCEPT ![s] = r]
    /\ UNCHANGED <<now, lifespan>>

\* The browser calls the API, asks to work in another organization, or follows
\* the link that logs out.
Send(s) ==
    /\ reqs[s].at = "idle"
    /\ \E k \in Kinds : Step(s, [at |-> "sent", kind |-> k, token |-> Carried])
    /\ UNCHANGED cookie

\* It comes back from the provider, to which it was sent at some time.
SendCallback(s) ==
    /\ reqs[s].at = "idle"
    /\ \E t \in 0..now :
          Step(s, [at |-> "sent", kind |-> "callback", login |-> t])
    /\ UNCHANGED cookie

\* An answer arrives. The answer to logout leads on to the provider's logout.
Receive(s) ==
    LET r == reqs[s]
    IN  /\ r.at = "answered"
        /\ cookie' = CASE r.set = Keep -> cookie
                          [] r.set = Drop -> None
                          [] OTHER -> r.set
        /\ Step(s, IF r.kind = "logout" /\ r.set # Keep
                   THEN [at |-> "sent", kind |-> "expire"]
                   ELSE [at |-> "idle"])

-----------------------------------------------------------------------------
(* The server. *)

Answer(s, set) ==
    /\ Step(s, [at |-> "answered", kind |-> reqs[s].kind, set |-> set])
    /\ UNCHANGED cookie

\* AuthorizedToken: a valid token is extended and the request goes on.
Accept(s) ==
    LET r == reqs[s]
    IN  /\ r.at = "sent" /\ r.kind \in {"use", "logout"}
        /\ Valid(r.token, lifespan)
        /\ Answer(s, Extend(r.token))

\* UpdateMe behind AuthorizedToken: the cookie it writes comes after the one of
\* Extend. Without the organization, or a role in it, the first one stands.
AcceptSwitch(s) ==
    LET r == reqs[s]
    IN  /\ r.at = "sent" /\ r.kind = "switch" /\ Valid(r.token, lifespan)
        /\ \/ Answer(s, Authorize)
           \/ Answer(s, Extend(r.token))

\* AuthorizedToken: 403, and no cookie.
Refuse(s) ==
    LET r == reqs[s]
    IN  /\ r.at = "sent" /\ r.kind \in Kinds
        /\ ~Valid(r.token, lifespan)
        /\ Answer(s, Keep)

\* Logout of the provider's mux: anybody's cookie is expired.
Expire(s) ==
    /\ reqs[s].at = "sent" /\ reqs[s].kind = "expire"
    /\ Answer(s, Drop)

\* Callback: the state is looked at as a token, and the provider asked. The
\* provider, or the lookup of the principal, may fail.
Callback(s) ==
    LET r == reqs[s]
    IN  /\ r.at = "sent" /\ r.kind = "callback"
        /\ \/ /\ Valid(LoginState(r.login), TenMinutes)
              /\ Answer(s, Authorize)
           \/ Answer(s, Keep)

Next ==
    \/ Tick
    \/ \E s \in Slots :
          \/ Send(s) \/ SendCallback(s) \/ Receive(s)
          \/ Accept(s) \/ AcceptSwitch(s) \/ Refuse(s) \/ Expire(s)
          \/ Callback(s)

Spec == Init /\ [][Next]_vars

-----------------------------------------------------------------------------
(* A step in which the server serves a request on a session. *)
Served(s) == Accept(s) \/ AcceptSwitch(s)

\* However often it is used, a session is served no longer than its lifespan
\* after it was issued, also if the browser keeps the cookie (ExtendedPrincipal,
\* "to enforce a maximum lifetime of a token").
NoLongerThanLifespan ==
    [][\A s \in Slots : Served(s) /\ lifespan > 0 =>
          now < reqs[s].token.start + lifespan + TicksPerSecond]_vars

\* Nor is it after Inactivity without a request, whatever order the answers of
\* the last ones came in (cookies.go, Inactivity).
NotAfterInactivity ==
    [][\A s \in Slots : Served(s) =>
          now < reqs[s].token.used + Inactivity(lifespan) + TicksPerSecond]_vars

\* The last whole second of a session's life in which a request can still leave
\* it a token that is not too long.
ExtendableUntil(t) ==
    IF lifespan = 0 THEN MaxTime
                    ELSE t.start + lifespan - Inactivity(lifespan)

\* Until then a session that is used within Inactivity goes on: it is not
\* refused, whatever is rounded and whichever answer came last.
UsedSessionGoesOn ==
    [][\A s \in Slots :
          LET t == reqs[s].token
          IN  Refuse(s) /\ t # None =>
                 \/ now >= t.used + Inactivity(lifespan)
                 \/ t.used > ExtendableUntil(t) - TicksPerSecond]_vars

=============================================================================
