------------------------------ MODULE SiteAuth ------------------------------
(***************************************************************************)
(* Browser login of the single owner (internal/siteauth): one-time codes,  *)
(* sessions, passkeys and their WebAuthn challenges, and the limiter in    *)
(* front of the login routes.  Requests interleave between the SQL         *)
(* statements of their handlers; ceremonyMu serialises the part that reads *)
(* and writes passkeys.  Times are what is left of a lifetime, or the age  *)
(* of an entry: every query of the code compares with now, so a row whose  *)
(* time is up answers none and leaves the table here when it lapses.       *)
(***************************************************************************)
EXTENDS Integers, Sequences, FiniteSets

CONSTANTS
    Browsers,       \* the owner's browsers, also the limiter's keys (their IPs)
    Codes,          \* login codes the command line can print
    Keys,           \* the owner's authenticators
    Audiences,      \* choices of browsers, keys (and those that count their
                    \* assertions) and routes, one per behaviour
    MaxRequests,    \* requests served at the same time, a bound of the model
    MaxTokens,      \* random tokens in use at once, a bound of the model
    MaxSign,        \* highest sign counter of an authenticator, a bound
    MaxPasskeys,    \* 10 in the code
    MaxAttempts,    \* 20 a minute in the code
    MaxTracked,     \* 4096 limiter entries in the code
    SessionLife, ChallengeLife, CodeLife, RecentAge, AttemptWindow,
    None            \* no cookie, no code, nobody

Tokens == 1..MaxTokens
Slots == 1..MaxRequests

ASSUME SiteConstants ==
    /\ {MaxTokens, MaxRequests, MaxPasskeys, MaxAttempts, MaxTracked,
        SessionLife, ChallengeLife, CodeLife, AttemptWindow} \subseteq Nat \ {0}
    /\ {MaxSign, RecentAge} \subseteq Nat
    /\ IsFiniteSet(Keys)
    /\ None \notin Slots
    /\ \A a \in Audiences : /\ a.browsers \subseteq Browsers
                           /\ a.counting \subseteq a.keys /\ a.keys \subseteq Keys

VARIABLES
    db,          \* the authentication database: codes, sessions, credentials
                 \* (a sign counter per registered key) and challenges
    attempts,    \* Auth.attempts: age and count of each key's window
    ceremonyMu,  \* the slot that holds the mutex
    request,     \* per slot: the request served there and how far it is
    audience,    \* who uses the site in this behaviour, and which routes
    cookies,     \* the two cookies each browser holds
    signed,      \* external: the counter in each authenticator
    printed,     \* history: the codes generated, in order
    uses         \* history: sessions opened by each code

clientVars == <<audience, signed, printed>>
siteVars == <<db, attempts, ceremonyMu, request, cookies, uses, clientVars>>

Kinds == {"code", "logout", "registerBegin", "registerFinish",
          "loginBegin", "loginFinish"}

\* The routes behind the limiter.
Limited == {"code", "loginBegin", "loginFinish"}

Idle == [stage |-> "idle"]

\* Rows: codes [code, left], sessions [token, left, age], challenges [token,
\* kind, bound, left]; left counts down to expiry.  A request in its slot has
\* stage, kind and browser; session and challenge, the cookies it came with;
\* by, the code or authenticator it answers with; sign, the counter in its
\* assertion; and token, the cookie its answer will set.

\* Open has bound the database to its origin.  The owner may have registered
\* a key and may be logged in, in one browser, from an earlier time.
SiteInit ==
    /\ audience \in Audiences
    /\ \E known \in SUBSET audience.keys, b \in audience.browsers, in \in BOOLEAN :
        /\ Cardinality(known) <= MaxPasskeys
        /\ db = [codes |-> {}, challenges |-> {}, passkeys |-> [k \in known |-> 0],
                 sessions |-> IF ~in THEN {}
                     ELSE {[token |-> 1, left |-> SessionLife, age |-> 0]}]
        /\ cookies = [c \in Browsers |->
               [session |-> IF in /\ c = b THEN 1 ELSE None, challenge |-> None]]
    /\ attempts = [b \in {} |-> 0]
    /\ ceremonyMu = None
    /\ request = [r \in Slots |-> Idle]
    /\ signed = [k \in Keys |-> 0]
    /\ printed = <<>>
    /\ uses = [k \in Codes |-> 0]

At(r, kind, stage) == request[r].stage = stage /\ request[r].kind = kind
Reach(r, stage) == request' = [request EXCEPT ![r].stage = stage]
ReachWith(r, stage, t) ==
    request' = [request EXCEPT ![r].stage = stage, ![r].token = t]

\* The answer is a failure: no cookie changes and the handler returns.
Refuse(r) == request' = [request EXCEPT ![r] = Idle]

\* A token that no table, cookie or request still knows.
Unknown(t) ==
    /\ \A s \in db.sessions : s.token # t
    /\ \A c \in db.challenges : t \notin {c.token, c.bound}
    /\ \A b \in Browsers : t \notin {cookies[b].session, cookies[b].challenge}
    /\ \A r \in Slots : request[r].stage # "idle" =>
           t \notin {request[r].session, request[r].challenge, request[r].token}

\* randomToken: which one is of no account, so the least.  (The handlers wait
\* when all tokens of the model are known to somebody.)
Fresh(t) == Unknown(t) /\ \A u \in 1..(t - 1) : ~Unknown(u)

-----------------------------------------------------------------------------
(* The command line, the limiter and the arrival of a request.             *)

\* GenerateCode, by the command line in a process of its own: the outstanding
\* code is replaced.
GenerateCode(k) ==
    /\ "code" \in audience.routes
    /\ \A i \in DOMAIN printed : printed[i] # k
    /\ db' = [db EXCEPT !.codes = {[code |-> k, left |-> CodeLife]}]
    /\ printed' = Append(printed, k)
    /\ UNCHANGED <<attempts, ceremonyMu, request, cookies, uses, audience, signed>>

\* Entries a minute old are dropped before a key is looked up.
Purged == [b \in {k \in DOMAIN attempts : attempts[k].age < AttemptWindow}
              |-> attempts[b]]

\* Mutant: the window starts again at every attempt.
SlidingEntry(b) ==
    [age |-> 0, count |-> IF b \notin DOMAIN Purged THEN 1
                          ELSE IF Purged[b].count > MaxAttempts
                               THEN Purged[b].count ELSE Purged[b].count + 1]

\* The key's entry after one more attempt.  The window is the one its first
\* attempt opened; counts past the limit need not be told apart.
Counted(b) ==
    IF b \in DOMAIN Purged
    THEN [Purged[b] EXCEPT !.count = IF @ > MaxAttempts THEN @ ELSE @ + 1]
    ELSE [age |-> 0, count |-> 1]

\* A key that is not in a full table is refused without an entry.
Tracked(b) == b \in DOMAIN Purged \/ Cardinality(DOMAIN Purged) < MaxTracked

AllowAttempt(b) == Tracked(b) /\ Counted(b).count <= MaxAttempts

AttemptsAfter(b) ==
    IF Tracked(b)
    THEN [k \in DOMAIN Purged \cup {b} |-> IF k = b THEN Counted(b) ELSE Purged[k]]
    ELSE Purged

\* A browser posts to one of the routes (write()): its cookies travel with
\* the request; an authenticator signs a login with its next counter value, or
\* with 0 when it keeps no counter.
Post(r, b, kind, by) ==
    LET count == IF kind = "loginFinish" /\ by \in audience.counting
                 THEN signed[by] + 1 ELSE 0
    IN  /\ kind \in audience.routes /\ b \in audience.browsers
        /\ \A q \in 1..r : (request[q].stage = "idle") <=> (q = r)
        /\ by \in CASE kind = "code" -> Codes
                    [] kind \in {"registerFinish", "loginFinish"} -> audience.keys
                    [] OTHER -> {None}
        /\ count <= MaxSign
        /\ signed' = IF count > 0 THEN [signed EXCEPT ![by] = count] ELSE signed
        /\ attempts' = IF kind \in Limited THEN AttemptsAfter(b) ELSE attempts
        /\ IF kind \in Limited /\ ~AllowAttempt(b)
           THEN UNCHANGED request
           ELSE request' = [request EXCEPT ![r] =
                    [stage |-> "arrived", kind |-> kind, browser |-> b,
                     session |-> cookies[b].session,
                     challenge |-> cookies[b].challenge,
                     by |-> by, sign |-> count, token |-> None]]
        /\ UNCHANGED <<db, ceremonyMu, cookies, uses, audience, printed>>

-----------------------------------------------------------------------------
(* Codes, sessions and logout.                                             *)

\* session(): the row of the cookie a request carries.
Carried(r) == {s \in db.sessions : s.token = request[r].session}

WithSession(t) == db.sessions \cup {[token |-> t, left |-> SessionLife, age |-> 0]}

\* Mutant: the code is looked up but not deleted.
CodesKept(r) == db.codes

\* The codes left when the one a request names is deleted.
CodesWithout(r) == {c \in db.codes : c.code # request[r].by}

\* consumeCode: the code is deleted and the session inserted by one
\* transaction; an unknown, used or expired code is a 401.
ConsumeCode(r, t) ==
    /\ At(r, "code", "arrived")
    /\ Fresh(t)
    /\ IF \E c \in db.codes : c.code = request[r].by
       THEN /\ db' = [db EXCEPT !.codes = CodesWithout(r),
                                !.sessions = WithSession(t)]
            /\ uses' = [uses EXCEPT ![request[r].by] = @ + 1]
            /\ ReachWith(r, "rotate", t)
       ELSE Refuse(r) /\ UNCHANGED <<db, uses>>
    /\ UNCHANGED <<attempts, ceremonyMu, cookies, clientVars>>

\* Mutant: the session the request came with is not looked for.
Unrotated(r) == db.sessions

Rotated(r) == db.sessions \ Carried(r)

\* A login ends, and a ceremony's mutex is released when the handler returns.
EndLogin(r, stage) ==
    /\ request[r].stage = "rotate"
    /\ Reach(r, stage)
    /\ ceremonyMu' = IF ceremonyMu = r THEN None ELSE ceremonyMu
    /\ UNCHANGED <<attempts, cookies, uses, clientVars>>

\* The session the request came with, if it is still one, is deleted.
Rotate(r) ==
    /\ EndLogin(r, "answer")
    /\ db' = [db EXCEPT !.sessions = Rotated(r)]

\* The session the request came with is not found or not deleted because its
\* statement errs.  Both errors are ignored: the login is answered as a success
\* and the old session lives on until it expires.
RotateErrs(r) ==
    /\ EndLogin(r, "kept")
    /\ Carried(r) # {}
    /\ UNCHANGED db

Logout(r) ==
    /\ At(r, "logout", "arrived")
    /\ IF Carried(r) = {} THEN Refuse(r) ELSE Reach(r, "answer")
    /\ db' = [db EXCEPT !.sessions = @ \ Carried(r)]
    /\ UNCHANGED <<attempts, ceremonyMu, cookies, uses, clientVars>>

\* The cookies an answer sets or clears; one without a token to a finish
\* request is a failure that clears the challenge.
CookiesOf(q) ==
    LET had == cookies[q.browser]
    IN  CASE q.kind = "logout" -> [session |-> None, challenge |-> None]
          [] q.kind \in {"registerBegin", "loginBegin"} ->
                 [had EXCEPT !.challenge = q.token]
          [] q.kind = "code" -> [had EXCEPT !.session = q.token]
          [] OTHER -> [session |-> IF q.token = None THEN had.session ELSE q.token,
                       challenge |-> None]

\* The answer reaches the browser, which keeps its cookies, or is lost.
Answer(r, arrives) ==
    /\ request[r].stage \in {"answer", "kept"}
    /\ cookies' = IF ~arrives THEN cookies ELSE
           [cookies EXCEPT ![request[r].browser] = CookiesOf(request[r])]
    /\ Refuse(r)
    /\ UNCHANGED <<db, attempts, ceremonyMu, uses, clientVars>>

-----------------------------------------------------------------------------
(* Passkey ceremonies.                                                     *)

\* recentSession: 401 without a session, or with one that logged in too long
\* ago.
RecentSession(r) ==
    /\ At(r, "registerBegin", "arrived") \/ At(r, "registerFinish", "arrived")
    /\ IF \E s \in Carried(r) : s.age <= RecentAge THEN Reach(r, "recent")
                                                   ELSE Refuse(r)
    /\ UNCHANGED <<db, attempts, ceremonyMu, cookies, uses, clientVars>>

StoreChallenge(r, t, kind, bound) ==
    /\ Fresh(t)
    /\ db' = [db EXCEPT !.challenges = @ \cup
           {[token |-> t, kind |-> kind, bound |-> bound, left |-> ChallengeLife]}]
    /\ ReachWith(r, "answer", t)

\* A full set of passkeys is a 400; the challenge is bound to the session.
RegisterBegin(r, t) ==
    /\ At(r, "registerBegin", "recent")
    /\ IF Cardinality(DOMAIN db.passkeys) >= MaxPasskeys
       THEN Refuse(r) /\ UNCHANGED db
       ELSE StoreChallenge(r, t, "register", request[r].session)
    /\ UNCHANGED <<attempts, ceremonyMu, cookies, uses, clientVars>>

LoginBegin(r, t) ==
    /\ At(r, "loginBegin", "arrived")
    /\ StoreChallenge(r, t, "login", None)
    /\ UNCHANGED <<attempts, ceremonyMu, cookies, uses, clientVars>>

\* The challenge a finish request may use: its cookie's, of its kind, and for
\* a registration of its session.
Taken(r) ==
    LET login == request[r].kind = "loginFinish"
    IN  {c \in db.challenges :
            /\ c.token = request[r].challenge
            /\ c.kind = IF login THEN "login" ELSE "register"
            /\ c.bound = IF login THEN None ELSE request[r].session}

\* takeChallenge deletes it; without one the request is a 400.
TakeChallenge(r) ==
    /\ At(r, "registerFinish", "recent") \/ At(r, "loginFinish", "arrived")
    /\ db' = [db EXCEPT !.challenges = @ \ Taken(r)]
    /\ Reach(r, IF Taken(r) = {} THEN "answer" ELSE "taken")
    /\ UNCHANGED <<attempts, ceremonyMu, cookies, uses, clientVars>>

\* What loadUser reads decides the ceremony: a registration needs room, a
\* login a registered key whose counter has moved on, or that never counts (no
\* CloneWarning).
Verified(r) ==
    IF request[r].kind = "registerFinish"
    THEN Cardinality(DOMAIN db.passkeys) < MaxPasskeys
    ELSE /\ request[r].by \in DOMAIN db.passkeys
         /\ \/ request[r].sign > db.passkeys[request[r].by]
            \/ request[r].sign = 0 /\ db.passkeys[request[r].by] = 0

\* Mutant: the mutex is left out.
NoCeremonyMu == TRUE

CeremonyFree == ceremonyMu = None

\* The passkeys are read and the response is verified against them under
\* ceremonyMu, which a request that goes on keeps.
Verify(r) ==
    /\ request[r].stage = "taken"
    /\ CeremonyFree
    /\ Reach(r, IF Verified(r) THEN "save" ELSE "answer")
    /\ ceremonyMu' = IF Verified(r) THEN r ELSE ceremonyMu
    /\ UNCHANGED <<db, attempts, cookies, uses, clientVars>>

\* saveCredential: a registration inserts the key (one registered before is a
\* 500) and ends; a login stores the assertion's counter and goes on.
SaveCredential(r) ==
    LET new == request[r].kind = "registerFinish"
    IN  /\ request[r].stage = "save"
        /\ db' = [db EXCEPT !.passkeys =
               [k \in DOMAIN @ \cup {request[r].by} |->
                   IF k = request[r].by /\ ~(new /\ k \in DOMAIN @)
                   THEN request[r].sign ELSE @[k]]]
        /\ Reach(r, IF new THEN "answer" ELSE "session")
        /\ ceremonyMu' = IF new /\ ceremonyMu = r THEN None ELSE ceremonyMu
        /\ UNCHANGED <<attempts, cookies, uses, clientVars>>

\* newSession.
OpenSession(r, t) ==
    /\ request[r].stage = "session"
    /\ Fresh(t)
    /\ db' = [db EXCEPT !.sessions = WithSession(t)]
    /\ ReachWith(r, "rotate", t)
    /\ UNCHANGED <<attempts, ceremonyMu, cookies, uses, clientVars>>

\* A statement errs (RotateErrs has the last one of a login), the body is
\* malformed or the response does not verify: the handler returns, and the
\* answer to a finish request still clears the challenge cookie.
Fail(r) ==
    /\ request[r].stage \in {"arrived", "recent", "taken", "save", "session"}
    /\ IF request[r].stage \in {"arrived", "recent"} THEN Refuse(r)
                                                     ELSE Reach(r, "answer")
    /\ ceremonyMu' = IF ceremonyMu = r THEN None ELSE ceremonyMu
    /\ UNCHANGED <<db, attempts, cookies, uses, clientVars>>

-----------------------------------------------------------------------------
(* Time, restarts and the specification.                                   *)

\* Lifetimes run down; a row that lapses answers no query any more.
Older(rows) == {[x EXCEPT !.left = @ - 1] : x \in {y \in rows : y.left > 1}}

\* The age of a session is only told apart up to the one that is too old.
Aged(rows) == {[s EXCEPT !.age = IF @ > RecentAge THEN @ ELSE @ + 1] : s \in rows}

\* One unit of time.
Tick ==
    /\ db' = [db EXCEPT
           !.codes = Older(@), !.challenges = Older(@),
           !.sessions = Aged(Older(@))]
    /\ attempts' = [b \in DOMAIN attempts |-> [attempts[b] EXCEPT !.age =
                        IF @ < AttemptWindow THEN @ + 1 ELSE @]]
    /\ UNCHANGED <<ceremonyMu, request, cookies, uses, clientVars>>

\* The hub process stops and starts: requests die, tables stay.
Restart ==
    /\ attempts' = [b \in {} |-> 0]
    /\ request' = [r \in Slots |-> Idle]
    /\ ceremonyMu' = None
    /\ UNCHANGED <<db, cookies, uses, clientVars>>

Serve(r) ==
    \/ Rotate(r) \/ RotateErrs(r) \/ Logout(r) \/ RecentSession(r)
    \/ TakeChallenge(r) \/ Verify(r) \/ SaveCredential(r) \/ Fail(r)
    \/ \E arrives \in BOOLEAN : Answer(r, arrives)
    \/ \E t \in Tokens : ConsumeCode(r, t) \/ RegisterBegin(r, t)
                         \/ LoginBegin(r, t) \/ OpenSession(r, t)

SiteNext ==
    \/ \E k \in Codes : GenerateCode(k)
    \/ \E r \in Slots, b \in Browsers, kind \in Kinds,
          by \in Codes \cup Keys \cup {None} : Post(r, b, kind, by)
    \/ \E r \in Slots : Serve(r)
    \/ Tick
    \/ Restart

\* Time passes.  Nothing is asked of the browsers or of the handlers.
SiteSpec == SiteInit /\ [][SiteNext]_siteVars /\ WF_siteVars(Tick)

-----------------------------------------------------------------------------
(* Properties.                                                             *)

\* registerBegin and registerFinish both refuse an eleventh passkey.  The
\* count is checked long before the insert: two ceremonies begun while there
\* was room for one must not both register (ceremonyMu).
PasskeyLimit == Cardinality(DOMAIN db.passkeys) <= MaxPasskeys

\* The stored sign counter only grows, in whatever order the answers to one
\* authenticator's challenges arrive: a counter written back would let an
\* assertion verify that a later one already overtook (ceremonyMu's comment).
CounterNeverBack ==
    [][\A k \in DOMAIN db.passkeys : /\ k \in DOMAIN db'.passkeys
                                     /\ db'.passkeys[k] >= db.passkeys[k]]_siteVars

\* A code opens one session, and only while no newer code has replaced it
\* (comment on GenerateCode): two tabs may post the same code at once.
CodeLogsInOnce ==
    /\ \A k \in Codes : uses[k] <= 1
    /\ \A c \in db.codes : c.code = printed[Len(printed)] /\ uses[c.code] = 0

\* When a login is answered with a new session, the session the browser came
\* with authenticates nobody any more, also when logins and logouts of the same
\* cookie overlap.  Only a login whose rotation erred (stage "kept") is exempt:
\* the code promises nothing there.
RotatedSessionIsDead ==
    \A r \in Slots :
        (/\ request[r].stage = "answer"
         /\ request[r].kind \in {"code", "loginFinish"}
         /\ request[r].token # None) => Carried(r) = {}

\* No key is locked out for good, however it and the others keep trying: it
\* comes again and again to a point where its next attempt is let through.
LimiterLetsInAgain == \A b \in Browsers : []<>AllowAttempt(b)
=============================================================================
