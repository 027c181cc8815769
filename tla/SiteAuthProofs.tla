--------------------------- MODULE SiteAuthProofs ---------------------------
(***************************************************************************)
(* The login of the site is correct for every number of browsers, requests *)
(* at a time, codes, authenticators and for every limit and lifetime.      *)
(***************************************************************************)
EXTENDS SiteAuth, FiniteSetTheorems, TLAPS

Cookie == Tokens \cup {None}

CodeRow == [code : Codes, left : Nat]
SessionRow == [token : Tokens, left : Nat, age : Nat]
ChallengeRow == [token : Tokens, kind : {"register", "login"}, bound : Cookie, left : Nat]

Stages == {"arrived", "recent", "taken", "save", "session", "rotate", "answer", "kept"}

Served == [stage : Stages, kind : Kinds, browser : Browsers, session : Cookie,
           challenge : Cookie, by : Codes \cup Keys \cup {None}, sign : Nat,
           token : Cookie]

RowsOK ==
    /\ DOMAIN db = {"codes", "sessions", "challenges", "passkeys"}
    /\ db.codes \subseteq CodeRow
    /\ db.sessions \subseteq SessionRow
    /\ db.challenges \subseteq ChallengeRow

\* The registered keys and their counters.
PasskeysOK ==
    /\ DOMAIN db.passkeys \subseteq Keys
    /\ \A k \in DOMAIN db.passkeys : db.passkeys[k] \in Nat

ClientsOK ==
    /\ audience \in Audiences
    /\ cookies \in [Browsers -> [session : Cookie, challenge : Cookie]]
    /\ signed \in [Keys -> Nat]
    /\ printed \in Seq(Codes)
    /\ uses \in [Codes -> Nat]

RequestsOK ==
    /\ request \in [Slots -> Served \cup {Idle}]
    /\ \A r \in Slots : request[r].stage # "idle" =>
        /\ request[r].kind = "code" => request[r].by \in Codes
        /\ request[r].kind \in {"registerFinish", "loginFinish"} => request[r].by \in Keys
        /\ request[r].stage \in {"taken", "save"} =>
               request[r].kind \in {"registerFinish", "loginFinish"}

TypeOK == RowsOK /\ PasskeysOK /\ ClientsOK /\ RequestsOK

(***************************************************************************)
(* Only the holder of ceremonyMu is about to save a credential, and what   *)
(* it verified still holds.                                                *)
(***************************************************************************)
SavingOK ==
    \A r \in Slots : request[r].stage = "save" => ceremonyMu = r /\ Verified(r)

(***************************************************************************)
(* A code that was not printed has opened no session, and an outstanding   *)
(* code is the one printed last.                                           *)
(***************************************************************************)
CodesOK ==
    /\ db.codes # {} => printed # <<>>
    /\ \A k \in Codes : (\A i \in DOMAIN printed : printed[i] # k) => uses[k] = 0
    /\ CodeLogsInOnce

\* A login has no token before its session is inserted.
TokensOK ==
    \A r \in Slots :
        request[r].stage \in {"arrived", "recent", "taken", "save", "session"}
            => request[r].token = None

SiteInv ==
    /\ TypeOK
    /\ SavingOK
    /\ PasskeyLimit
    /\ CodesOK
    /\ TokensOK
    /\ RotatedSessionIsDead

-----------------------------------------------------------------------------
(* Requests move through their slots.                                      *)

\* What a step of a handler may do to its request: keep what came with it.
Goes(r, stage, t) ==
    /\ request[r] \in Served
    /\ request' \in [Slots -> Served \cup {Idle}]
    /\ \A q \in Slots \ {r} : request'[q] = request[q]
    /\ \/ request'[r] = Idle
       \/ /\ request'[r] \in Served
          /\ request'[r].stage = stage /\ request'[r].token = t
          /\ request'[r].kind = request[r].kind
          /\ request'[r].by = request[r].by
          /\ request'[r].sign = request[r].sign
          /\ request'[r].session = request[r].session

\* A finish request alone is verified; a login has no token before its session
\* is inserted, and answers with one only after the rotation, done or failed.
Proceeds(r, stage, t) ==
    /\ Goes(r, stage, t)
    /\ stage # "arrived"
    /\ stage \in {"taken", "save"} =>
           request[r].kind \in {"registerFinish", "loginFinish"}
    /\ stage = "save" => Verify(r) /\ Verified(r)
    /\ stage \in {"recent", "taken", "save", "session"} => t = None
    /\ (/\ stage # "rotate" /\ request[r].stage # "rotate"
        /\ request[r].kind \in {"code", "loginFinish"}) => t = None

\* A slot is idle or holds a request with all its fields.
LEMMA SlotTypes ==
    ASSUME RequestsOK, NEW r \in Slots, request[r].stage # "idle"
    PROVE  request[r] \in Served
  BY DEF RequestsOK, Idle

\* Reach, ReachWith and Refuse move one request.
LEMMA Moves ==
    ASSUME RequestsOK, NEW r \in Slots, request[r].stage # "idle",
           NEW stage \in Stages, NEW t \in Cookie
    PROVE  /\ Reach(r, stage) => Goes(r, stage, request[r].token)
           /\ ReachWith(r, stage, t) => Goes(r, stage, t)
           /\ Refuse(r) => Goes(r, stage, t)
  <1>1. request[r] \in Served
    BY SlotTypes
  <1>2. ASSUME Reach(r, stage) PROVE Goes(r, stage, request[r].token)
    BY <1>1, <1>2 DEF Reach, Goes, Served, RequestsOK
  <1>3. ASSUME ReachWith(r, stage, t) PROVE Goes(r, stage, t)
    BY <1>1, <1>3 DEF ReachWith, Goes, Served, RequestsOK
  <1>4. ASSUME Refuse(r) PROVE Goes(r, stage, t)
    BY <1>1, <1>4 DEF Refuse, Goes, RequestsOK
  <1> QED BY <1>2, <1>3, <1>4

\* What the later lemmas need to know of every step of a handler.
LEMMA ServeMoves ==
    ASSUME RequestsOK, TokensOK, NEW r \in Slots, Serve(r)
    PROVE  \E stage \in Stages, t \in Cookie : Proceeds(r, stage, t)
  <1> USE DEF Proceeds
  <1> DEFINE Claimed == \E stage \in Stages, t \in Cookie : Proceeds(r, stage, t)
  <1>0. request[r].stage # "idle"
    BY DEF Serve, Rotate, RotateErrs, EndLogin, Logout, RecentSession, TakeChallenge, Verify,
           SaveCredential, Fail, Answer, ConsumeCode, RegisterBegin, LoginBegin, OpenSession, At
  <1>1. request[r] \in Served /\ request[r].token \in Cookie
    BY <1>0, SlotTypes DEF Served
  <1>2. /\ None \in Cookie /\ Tokens \subseteq Cookie
        /\ {"recent", "taken", "save", "session", "rotate", "answer", "kept"}
               \subseteq Stages
    BY DEF Cookie, Stages
  <1>3. ASSUME Rotate(r) PROVE Claimed
    <2>1. Proceeds(r, "answer", request[r].token)
      BY <1>0, <1>1, <1>2, <1>3, Moves DEF Rotate, EndLogin
    <2> QED BY <1>1, <1>2, <2>1
  <1>14. ASSUME RotateErrs(r) PROVE Claimed
    <2>1. Proceeds(r, "kept", request[r].token)
      BY <1>0, <1>1, <1>2, <1>14, Moves DEF RotateErrs, EndLogin
    <2> QED BY <1>1, <1>2, <2>1
  <1>4. ASSUME Logout(r) PROVE Claimed
    <2>1. Proceeds(r, "answer", request[r].token)
      BY <1>0, <1>1, <1>2, <1>4, Moves DEF Logout, At
    <2> QED BY <1>1, <1>2, <2>1
  <1>5. ASSUME RecentSession(r) PROVE Claimed
    <2>1. request[r].token = None
      BY <1>5 DEF RecentSession, TokensOK, At
    <2>2. Proceeds(r, "recent", None)
      BY <1>0, <1>2, <1>5, <2>1, Moves DEF RecentSession
    <2> QED BY <1>2, <2>2
  <1>6. ASSUME TakeChallenge(r) PROVE Claimed
    <2>1. request[r].token = None
              /\ request[r].kind \in {"registerFinish", "loginFinish"}
      BY <1>6 DEF TakeChallenge, TokensOK, At
    <2>2. Proceeds(r, "taken", None) \/ Proceeds(r, "answer", None)
      BY <1>0, <1>2, <1>6, <2>1, Moves DEF TakeChallenge
    <2> QED BY <1>2, <2>2
  <1>7. ASSUME Verify(r) PROVE Claimed
    <2>1. request[r].token = None
              /\ request[r].kind \in {"registerFinish", "loginFinish"}
      BY <1>7 DEF Verify, TokensOK, RequestsOK
    <2>2. Proceeds(r, "save", None) \/ Proceeds(r, "answer", None)
      BY <1>0, <1>2, <1>7, <2>1, Moves DEF Verify
    <2> QED BY <1>2, <2>2
  <1>8. ASSUME SaveCredential(r) PROVE Claimed
    <2>1. request[r].token = None
      BY <1>8 DEF SaveCredential, TokensOK
    <2>2. Proceeds(r, "session", None) \/ Proceeds(r, "answer", None)
      BY <1>0, <1>2, <1>8, <2>1, Moves DEF SaveCredential
    <2> QED BY <1>2, <2>2
  <1>9. ASSUME Fail(r) PROVE Claimed
    <2>1. request[r].token = None
      BY <1>9 DEF Fail, TokensOK
    <2>2. Proceeds(r, "answer", None)
      BY <1>0, <1>2, <1>9, <2>1, Moves DEF Fail
    <2> QED BY <1>2, <2>2
  <1>10. ASSUME NEW arrives \in BOOLEAN, Answer(r, arrives) PROVE Claimed
    <2>1. Proceeds(r, "answer", None)
      BY <1>0, <1>2, <1>10, Moves DEF Answer
    <2> QED BY <1>2, <2>1
  <1>11. ASSUME NEW t \in Tokens, ConsumeCode(r, t) PROVE Claimed
    <2>1. Proceeds(r, "rotate", t)
      BY <1>0, <1>2, <1>11, Moves DEF ConsumeCode
    <2> QED BY <1>2, <2>1
  <1>12. ASSUME NEW t \in Tokens, RegisterBegin(r, t) \/ LoginBegin(r, t) PROVE Claimed
    <2>1. Proceeds(r, "answer", t)
      BY <1>0, <1>2, <1>12, Moves DEF RegisterBegin, LoginBegin, StoreChallenge, At
    <2> QED BY <1>2, <2>1
  <1>13. ASSUME NEW t \in Tokens, OpenSession(r, t) PROVE Claimed
    <2>1. Proceeds(r, "rotate", t)
      BY <1>0, <1>2, <1>13, Moves DEF OpenSession
    <2> QED BY <1>2, <2>1
  <1> QED BY <1>3, <1>4, <1>5, <1>6, <1>7, <1>8, <1>9, <1>10, <1>11, <1>12, <1>13,
            <1>14 DEF Serve

\* A handler's step keeps requests well formed.
LEMMA ServeKeepsRequests ==
    ASSUME RequestsOK, TokensOK, NEW r \in Slots, Serve(r)
    PROVE  RequestsOK' /\ TokensOK'
  <1>1. PICK stage \in Stages, t \in Cookie : Proceeds(r, stage, t)
    BY ServeMoves
  <1>2. request' \in [Slots -> Served \cup {Idle}]
    BY <1>1 DEF Proceeds, Goes
  <1>3. Idle.stage = "idle"
    BY DEF Idle
  <1>4. request[r].stage # "idle"
    BY <1>1, <1>3 DEF Proceeds, Goes, Served, Stages
  <1>5. ASSUME NEW q \in Slots, request'[q].stage # "idle"
        PROVE  /\ request'[q].kind = "code" => request'[q].by \in Codes
               /\ request'[q].kind \in {"registerFinish", "loginFinish"}
                      => request'[q].by \in Keys
               /\ request'[q].stage \in {"taken", "save"} =>
                      request'[q].kind \in {"registerFinish", "loginFinish"}
               /\ request'[q].stage \in {"arrived", "recent", "taken", "save", "session"}
                      => request'[q].token = None
    <2>1. CASE q = r
      BY <1>1, <1>3, <1>4, <1>5, <2>1 DEF Proceeds, Goes, RequestsOK
    <2>2. CASE q # r
      BY <1>1, <1>5, <2>2 DEF Proceeds, Goes, RequestsOK, TokensOK
    <2> QED BY <2>1, <2>2
  <1> QED BY <1>2, <1>5 DEF RequestsOK, TokensOK

-----------------------------------------------------------------------------
(* The rows of the database.                                               *)

\* Lifetimes run down inside the tables.
LEMMA OlderRows ==
    /\ \A rows \in SUBSET CodeRow :
        /\ Older(rows) \subseteq CodeRow
        /\ \A x \in Older(rows) : \E y \in rows : x.code = y.code
    /\ \A rows \in SUBSET SessionRow :
        /\ Older(rows) \subseteq SessionRow
        /\ \A x \in Older(rows) : \E y \in rows : x.token = y.token
    /\ \A rows \in SUBSET ChallengeRow : Older(rows) \subseteq ChallengeRow
  BY DEF Older, CodeRow, SessionRow, ChallengeRow

\* Sessions age.
LEMMA AgedRows ==
    \A rows \in SUBSET SessionRow :
        /\ Aged(rows) \subseteq SessionRow
        /\ \A x \in Aged(rows) : \E y \in rows : x.token = y.token
  BY DEF Aged, SessionRow

RowsStep(r) ==
    /\ RowsOK'
    /\ \A s \in db'.sessions : s \in db.sessions \/ Unknown(s.token)
    /\ db'.codes \subseteq db.codes
    /\ SaveCredential(r) \/ db'.passkeys = db.passkeys
    /\ UNCHANGED <<signed, audience, printed>>

\* A handler's step adds no code and no session but under a new token, and
\* changes the passkeys only where it saves a credential.
LEMMA ServeKeepsRows ==
    ASSUME TypeOK, NEW r \in Slots, Serve(r)
    PROVE  RowsStep(r)
  <1> USE DEF TypeOK, RowsOK, clientVars, RowsStep
  <1>1. request[r].stage # "idle" => request[r].session \in Cookie
    BY SlotTypes DEF Served
  <1>2. ASSUME NEW t \in Tokens, Fresh(t)
        PROVE  /\ WithSession(t) \subseteq SessionRow
               /\ \A s \in WithSession(t) : s \in db.sessions \/ Unknown(s.token)
    BY <1>2, SiteConstants DEF WithSession, SessionRow, Fresh
  <1>3. ASSUME NEW t \in Tokens, NEW kind \in {"register", "login"}, NEW bound \in Cookie
        PROVE  [token |-> t, kind |-> kind, bound |-> bound, left |-> ChallengeLife]
                   \in ChallengeRow
    BY SiteConstants DEF ChallengeRow
  <1>4. CASE Rotate(r)
    BY <1>4 DEF Rotate, EndLogin, Rotated
  <1>15. CASE RotateErrs(r)
    BY <1>15 DEF RotateErrs, EndLogin
  <1>5. CASE Logout(r)
    BY <1>5 DEF Logout
  <1>6. CASE RecentSession(r)
    BY <1>6 DEF RecentSession
  <1>7. CASE TakeChallenge(r)
    BY <1>7 DEF TakeChallenge
  <1>8. CASE Verify(r)
    BY <1>8 DEF Verify
  <1>9. CASE SaveCredential(r)
    BY <1>9 DEF SaveCredential
  <1>10. CASE Fail(r)
    BY <1>10 DEF Fail
  <1>11. CASE \E arrives \in BOOLEAN : Answer(r, arrives)
    BY <1>11 DEF Answer
  <1>12. ASSUME NEW t \in Tokens, ConsumeCode(r, t) PROVE RowsStep(r)
    BY <1>2, <1>12 DEF ConsumeCode, CodesWithout
  <1>13. ASSUME NEW t \in Tokens, RegisterBegin(r, t) \/ LoginBegin(r, t) PROVE RowsStep(r)
    BY <1>1, <1>3, <1>13 DEF RegisterBegin, LoginBegin, StoreChallenge, At, Cookie
  <1>14. ASSUME NEW t \in Tokens, OpenSession(r, t) PROVE RowsStep(r)
    BY <1>2, <1>14 DEF OpenSession
  <1> QED BY <1>4, <1>5, <1>6, <1>7, <1>8, <1>9, <1>10, <1>11, <1>12, <1>13, <1>14,
            <1>15 DEF Serve

-----------------------------------------------------------------------------
(* Passkeys.                                                               *)

\* No counter goes back and no key is dropped.
CountersKept ==
    \A k \in DOMAIN db.passkeys : /\ k \in DOMAIN db'.passkeys
                                  /\ db'.passkeys[k] >= db.passkeys[k]

\* The holder of the mutex stores what it has verified.
LEMMA SaveKeepsPasskeys ==
    ASSUME TypeOK, SavingOK, PasskeyLimit, NEW r \in Slots, SaveCredential(r)
    PROVE  PasskeysOK' /\ PasskeyLimit' /\ CountersKept
  <1> DEFINE D == DOMAIN db.passkeys
             by == request[r].by
             new == request[r].kind = "registerFinish"
  <1>1. request[r].stage = "save" /\ Verified(r)
    BY DEF SaveCredential, SavingOK
  <1>2. /\ request[r] \in Served /\ by \in Keys /\ request[r].sign \in Nat
    BY <1>1, SlotTypes DEF TypeOK, RequestsOK, Served
  <1>3. /\ D \subseteq Keys /\ \A k \in D : db.passkeys[k] \in Nat
    BY DEF TypeOK, PasskeysOK
  <1>4. db'.passkeys = [k \in D \cup {by} |->
                            IF k = by /\ ~(new /\ k \in D) THEN request[r].sign
                                                           ELSE db.passkeys[k]]
    BY DEF SaveCredential, TypeOK, RowsOK
  <1>5. DOMAIN db'.passkeys = D \cup {by}
    BY <1>4
  <1>6. PasskeysOK'
    BY <1>2, <1>3, <1>4 DEF PasskeysOK
  <1>7. CountersKept
    <2>1. ~new => by \in D /\ request[r].sign >= db.passkeys[by]
      BY <1>1, <1>2, <1>3 DEF Verified
    <2> QED BY <1>2, <1>3, <1>4, <2>1 DEF CountersKept
  <1>8. PasskeyLimit'
    <2>1. IsFiniteSet(D)
      BY <1>3, SiteConstants, FS_Subset
    <2>2. Cardinality(D) \in Nat /\ MaxPasskeys \in Nat
      BY <2>1, FS_CardinalityType, SiteConstants
    <2>3. Cardinality(D \cup {by}) = IF by \in D THEN Cardinality(D) ELSE Cardinality(D) + 1
      BY <2>1, FS_AddElement
    <2>4. by \in D \/ Cardinality(D) < MaxPasskeys
      BY <1>1 DEF Verified
    <2>5. Cardinality(D) <= MaxPasskeys
      BY DEF PasskeyLimit
    <2>6. Cardinality(D \cup {by}) <= MaxPasskeys
      BY <2>2, <2>3, <2>4, <2>5
    <2> QED BY <1>5, <2>6 DEF PasskeyLimit
  <1> QED BY <1>6, <1>7, <1>8

\* Nobody else changes the passkeys while a request is between Verify and
\* SaveCredential.
LEMMA ServeKeepsPasskeys ==
    ASSUME TypeOK, TokensOK, SavingOK, PasskeyLimit, NEW r \in Slots, Serve(r)
    PROVE  PasskeysOK' /\ PasskeyLimit' /\ SavingOK' /\ CountersKept
  <1>1. PICK stage \in Stages, t \in Cookie : Proceeds(r, stage, t)
    BY ServeMoves DEF TypeOK
  <1>2. SaveCredential(r) \/ db'.passkeys = db.passkeys
    BY ServeKeepsRows DEF RowsStep
  <1>3. PasskeysOK' /\ PasskeyLimit' /\ CountersKept
    <2>1. CASE SaveCredential(r)
      BY <2>1, SaveKeepsPasskeys
    <2>2. CASE db'.passkeys = db.passkeys
      BY <2>2 DEF TypeOK, PasskeysOK, PasskeyLimit, CountersKept
    <2> QED BY <1>2, <2>1, <2>2
  <1>4. ASSUME NEW q \in Slots, request'[q].stage = "save"
        PROVE  ceremonyMu' = q /\ Verified(q)'
    <2>1. CASE q = r
      <3>1. Verify(r) /\ Verified(r) /\ request'[r].kind = request[r].kind
                /\ request'[r].by = request[r].by /\ request'[r].sign = request[r].sign
        BY <1>1, <1>4, <2>1 DEF Proceeds, Goes, Idle
      <3> QED BY <2>1, <3>1 DEF Verify, Verified
    <2>2. CASE q # r
      <3>1. request'[q] = request[q] /\ request[q].stage = "save"
        BY <1>1, <1>4, <2>2 DEF Proceeds, Goes
      <3>2. ceremonyMu = q /\ ceremonyMu # None /\ Verified(q)
        BY <3>1, SiteConstants DEF SavingOK
      <3>3. ~Verify(r)
        BY <3>2 DEF Verify, CeremonyFree
      <3>4. ~SaveCredential(r)
        BY <2>2, <3>2 DEF SaveCredential, SavingOK
      <3>5. ceremonyMu' = ceremonyMu
        BY <2>2, <3>2, <3>3
           DEF Serve, Rotate, RotateErrs, EndLogin, Logout, RecentSession, TakeChallenge,
               SaveCredential, Fail, Answer, ConsumeCode, RegisterBegin, LoginBegin,
               OpenSession
      <3> QED BY <1>2, <3>1, <3>2, <3>4, <3>5 DEF Verified
    <2> QED BY <2>1, <2>2
  <1> QED BY <1>3, <1>4 DEF SavingOK

-----------------------------------------------------------------------------
(* Codes and sessions.                                                     *)

\* A code is deleted as it opens its session.
LEMMA ServeKeepsCodes ==
    ASSUME TypeOK, CodesOK, NEW r \in Slots, Serve(r)
    PROVE  CodesOK' /\ uses' \in [Codes -> Nat]
  <1>1. db'.codes \subseteq db.codes /\ printed' = printed /\ uses \in [Codes -> Nat]
    BY ServeKeepsRows DEF RowsStep, TypeOK, ClientsOK
  <1>2. CASE uses' = uses
    BY <1>1, <1>2 DEF CodesOK, CodeLogsInOnce
  <1>3. CASE uses' # uses
    <2>1. PICK t \in Tokens : ConsumeCode(r, t)
      BY <1>3 DEF Serve, Rotate, RotateErrs, EndLogin, Logout, RecentSession, TakeChallenge, Verify,
                  SaveCredential, Fail, Answer, RegisterBegin, LoginBegin, OpenSession
    <2>2. PICK c \in db.codes : c.code = request[r].by
      BY <1>3, <2>1 DEF ConsumeCode
    <2>3. /\ uses' = [uses EXCEPT ![c.code] = @ + 1]
          /\ db'.codes = {d \in db.codes : d.code # c.code}
      <3>1. /\ uses' = [uses EXCEPT ![request[r].by] = @ + 1]
            /\ db' = [db EXCEPT !.codes = CodesWithout(r), !.sessions = WithSession(t)]
        BY <1>3, <2>1 DEF ConsumeCode
      <3>2. db'.codes = CodesWithout(r)
        BY <3>1 DEF TypeOK, RowsOK
      <3> QED BY <2>2, <3>1, <3>2 DEF CodesWithout
    <2>4. c.code \in Codes /\ uses[c.code] = 0 /\ c.code = printed[Len(printed)]
              /\ printed # <<>> /\ printed \in Seq(Codes)
      BY <2>2 DEF CodesOK, CodeLogsInOnce, TypeOK, RowsOK, CodeRow, ClientsOK
    <2>5. Len(printed) \in DOMAIN printed
      BY <2>4
    <2>6. uses' \in [Codes -> Nat] /\ uses'[c.code] = 1
              /\ \A k \in Codes : k # c.code => uses'[k] = uses[k]
      BY <1>1, <2>3, <2>4
    <2>7. CodeLogsInOnce'
      <3>1. \A d \in db.codes : d.code \in Codes
        BY DEF TypeOK, RowsOK, CodeRow
      <3> QED BY <1>1, <2>3, <2>6, <3>1 DEF CodesOK, CodeLogsInOnce
    <2>8. ASSUME NEW k \in Codes, \A i \in DOMAIN printed : printed[i] # k
          PROVE  uses'[k] = 0
      BY <2>4, <2>5, <2>6, <2>8 DEF CodesOK
    <2> QED BY <1>1, <2>6, <2>7, <2>8 DEF CodesOK
  <1> QED BY <1>2, <1>3

\* A rotation that does not err deletes the session the request came with, and no
\* later session has its token while the request is there.
LEMMA ServeKeepsRotation ==
    ASSUME TypeOK, TokensOK, RotatedSessionIsDead, NEW r \in Slots, Serve(r)
    PROVE  RotatedSessionIsDead'
  <1>1. PICK stage \in Stages, t \in Cookie : Proceeds(r, stage, t)
    BY ServeMoves DEF TypeOK
  <1>2. \A s \in db'.sessions : s \in db.sessions \/ Unknown(s.token)
    BY ServeKeepsRows DEF RowsStep
  <1>3. ASSUME NEW q \in Slots, request'[q].stage = "answer",
               request'[q].kind \in {"code", "loginFinish"}, request'[q].token # None
        PROVE  \A s \in db'.sessions : s.token # request'[q].session
    <2>1. CASE q = r
      <3>1. /\ request[r].stage = "rotate" /\ request'[r].session = request[r].session
        BY <1>1, <1>3, <2>1 DEF Proceeds, Goes, Idle
      <3>2. request'[r].stage = "answer" /\ request[r] \in Served
        BY <1>1, <1>3, <2>1 DEF Proceeds, Goes
      <3>3. ~RotateErrs(r)
        BY <3>2 DEF RotateErrs, EndLogin, Reach, TypeOK, RequestsOK, Served
      <3>4. Rotate(r)
        BY <3>1, <3>3
           DEF Serve, Logout, RecentSession, TakeChallenge, Verify, SaveCredential,
               Fail, Answer, ConsumeCode, RegisterBegin, LoginBegin, OpenSession, At
      <3>5. db'.sessions = db.sessions \ Carried(r)
        BY <3>4 DEF Rotate, EndLogin, Rotated, TypeOK, RowsOK
      <3> QED BY <2>1, <3>1, <3>5 DEF Carried
    <2>2. CASE q # r
      <3>1. request'[q] = request[q]
        BY <1>1, <2>2 DEF Proceeds, Goes
      <3>2. \A s \in db.sessions : s.token # request[q].session
        BY <1>3, <3>1 DEF RotatedSessionIsDead, Carried
      <3>3. \A u : Unknown(u) => u # request[q].session
        BY <1>3, <3>1 DEF Unknown
      <3> QED BY <1>2, <3>1, <3>2, <3>3
    <2> QED BY <2>1, <2>2
  <1> QED BY <1>3 DEF RotatedSessionIsDead, Carried

\* An answer leaves a browser with cookies; only a code's use is counted.
LEMMA ServeKeepsClients ==
    ASSUME TypeOK, TokensOK, CodesOK, NEW r \in Slots, Serve(r)
    PROVE  ClientsOK'
  <1>1. /\ UNCHANGED <<signed, audience, printed>> /\ uses' \in [Codes -> Nat]
    BY ServeKeepsRows, ServeKeepsCodes DEF RowsStep
  <1>2. cookies' \in [Browsers -> [session : Cookie, challenge : Cookie]]
    <2>1. CASE \E arrives \in BOOLEAN : Answer(r, arrives)
      <3>1. request[r] \in Served
        BY <2>1, SlotTypes DEF TypeOK, Answer
      <3>2. request[r].browser \in Browsers /\ request[r].token \in Cookie
                /\ None \in Cookie
        BY <3>1 DEF Served, Cookie
      <3>3. cookies[request[r].browser] \in [session : Cookie, challenge : Cookie]
        BY <3>2 DEF TypeOK, ClientsOK
      <3>4. CookiesOf(request[r]) \in [session : Cookie, challenge : Cookie]
        <4>1. CASE request[r].kind = "logout"
          BY <3>2, <4>1 DEF CookiesOf
        <4>2. CASE request[r].kind \in {"registerBegin", "loginBegin"}
          BY <3>2, <3>3, <4>2 DEF CookiesOf
        <4>3. CASE request[r].kind = "code"
          BY <3>2, <3>3, <4>3 DEF CookiesOf
        <4>4. CASE request[r].kind \notin {"logout", "registerBegin", "loginBegin", "code"}
          BY <3>2, <3>3, <4>4 DEF CookiesOf
        <4> QED BY <4>1, <4>2, <4>3, <4>4
      <3>5. cookies \in [Browsers -> [session : Cookie, challenge : Cookie]]
        BY DEF TypeOK, ClientsOK
      <3> QED BY <2>1, <3>2, <3>4, <3>5 DEF Answer
    <2>2. CASE cookies' = cookies
      BY <2>2 DEF TypeOK, ClientsOK
    <2> QED BY <2>1, <2>2
        DEF Serve, Rotate, RotateErrs, EndLogin, Logout, RecentSession, TakeChallenge, Verify,
            SaveCredential, Fail, ConsumeCode, RegisterBegin, LoginBegin, OpenSession
  <1> QED BY <1>1, <1>2 DEF TypeOK, ClientsOK

-----------------------------------------------------------------------------
(* The steps that no handler takes.                                        *)

\* A request arrives in an idle slot, or the limiter turns it away.
LEMMA PostKeepsInv ==
    ASSUME SiteInv, NEW r \in Slots, NEW b \in Browsers, NEW kind \in Kinds,
           NEW by \in Codes \cup Keys \cup {None}, Post(r, b, kind, by)
    PROVE  SiteInv' /\ db' = db
  <1> DEFINE count == IF kind = "loginFinish" /\ by \in audience.counting
                      THEN signed[by] + 1 ELSE 0
             new == [stage |-> "arrived", kind |-> kind, browser |-> b,
                     session |-> cookies[b].session,
                     challenge |-> cookies[b].challenge,
                     by |-> by, sign |-> count, token |-> None]
  <1>1. UNCHANGED <<db, ceremonyMu, cookies, uses, audience, printed>>
    BY DEF Post
  <1>2. /\ kind = "code" => by \in Codes
        /\ kind \in {"registerFinish", "loginFinish"} => by \in Keys
    <2>1. audience.keys \subseteq Keys
      BY SiteConstants DEF SiteInv, TypeOK, ClientsOK
    <2> QED BY <2>1 DEF Post
  <1>3. count \in Nat /\ signed' \in [Keys -> Nat]
    <2>1. signed \in [Keys -> Nat]
      BY DEF SiteInv, TypeOK, ClientsOK
    <2>2. count \in Nat /\ (count > 0 => by \in Keys)
      BY <1>2, <2>1
    <2>3. signed' = IF count > 0 THEN [signed EXCEPT ![by] = count] ELSE signed
      BY DEF Post
    <2> HIDE DEF count
    <2> QED BY <2>1, <2>2, <2>3
  <1>4. new \in Served /\ new.stage = "arrived" /\ new.kind = kind /\ new.by = by
            /\ new.token = None
    <2>1. cookies[b] \in [session : Cookie, challenge : Cookie]
      BY DEF SiteInv, TypeOK, ClientsOK
    <2>2. cookies[b].session \in Cookie /\ cookies[b].challenge \in Cookie
              /\ None \in Cookie /\ "arrived" \in Stages
      BY <2>1 DEF Cookie, Stages
    <2> HIDE DEF count
    <2> QED BY <1>3, <2>2 DEF Served
  <1>5. UNCHANGED request \/ request' = [request EXCEPT ![r] = new]
    BY DEF Post
  <1>6. ClientsOK'
    BY <1>1, <1>3 DEF SiteInv, TypeOK, ClientsOK
  <1>7. /\ RequestsOK' /\ TokensOK'
        /\ \A q \in Slots : request'[q] = request[q] \/ request'[q].stage = "arrived"
    <2> HIDE DEF new
    <2>1. CASE UNCHANGED request
      BY <2>1 DEF SiteInv, TypeOK, RequestsOK, TokensOK
    <2>2. CASE request' = [request EXCEPT ![r] = new]
      <3>1. request'[r] = new /\ \A q \in Slots \ {r} : request'[q] = request[q]
        BY <2>2 DEF SiteInv, TypeOK, RequestsOK
      <3>2. request' \in [Slots -> Served \cup {Idle}]
        BY <1>4, <2>2 DEF SiteInv, TypeOK, RequestsOK
      <3>3. RequestsOK'
        BY <1>2, <1>4, <3>1, <3>2 DEF SiteInv, TypeOK, RequestsOK
      <3>4. TokensOK'
        BY <1>4, <3>1 DEF SiteInv, TokensOK
      <3> QED BY <1>4, <3>1, <3>3, <3>4
    <2> QED BY <1>5, <2>1, <2>2
  <1>8. SavingOK' /\ RotatedSessionIsDead'
    BY <1>1, <1>7 DEF SiteInv, SavingOK, Verified, RotatedSessionIsDead, Carried
  <1>9. RowsOK' /\ PasskeysOK' /\ PasskeyLimit' /\ CodesOK'
    BY <1>1 DEF SiteInv, TypeOK, RowsOK, PasskeysOK, PasskeyLimit, CodesOK, CodeLogsInOnce
  <1> QED BY <1>1, <1>6, <1>7, <1>8, <1>9 DEF SiteInv, TypeOK

\* A new code replaces the outstanding one.
LEMMA GenerateKeepsInv ==
    ASSUME SiteInv, NEW k \in Codes, GenerateCode(k)
    PROVE  SiteInv' /\ db'.passkeys = db.passkeys
  <1>1. /\ printed' = Append(printed, k) /\ \A i \in DOMAIN printed : printed[i] # k
        /\ UNCHANGED <<ceremonyMu, request, cookies, uses, audience, signed>>
    BY DEF GenerateCode
  <1>2. /\ DOMAIN db' = DOMAIN db /\ db'.codes = {[code |-> k, left |-> CodeLife]}
        /\ db'.sessions = db.sessions /\ db'.challenges = db.challenges
        /\ db'.passkeys = db.passkeys
    BY DEF GenerateCode, SiteInv, TypeOK, RowsOK
  <1>3. printed \in Seq(Codes) /\ uses \in [Codes -> Nat]
    BY DEF SiteInv, TypeOK, ClientsOK
  <1>4. printed' \in Seq(Codes) /\ Len(printed') = Len(printed) + 1
            /\ printed'[Len(printed')] = k /\ printed' # <<>>
            /\ DOMAIN printed \subseteq DOMAIN printed'
            /\ \A i \in DOMAIN printed : printed'[i] = printed[i]
    BY <1>1, <1>3
  <1>5. RowsOK' /\ PasskeysOK' /\ ClientsOK' /\ RequestsOK'
    <2>1. [code |-> k, left |-> CodeLife] \in CodeRow
      BY SiteConstants DEF CodeRow
    <2> QED BY <1>1, <1>2, <1>4, <2>1
            DEF SiteInv, TypeOK, RowsOK, PasskeysOK, ClientsOK, RequestsOK
  <1>6. CodesOK'
    <2>1. uses[k] = 0
      BY <1>1 DEF SiteInv, CodesOK
    <2>2. \A c \in db'.codes : c.code = k
      BY <1>2
    <2>3. \A c \in Codes : (\A i \in DOMAIN printed' : printed'[i] # c) => uses[c] = 0
      BY <1>4 DEF SiteInv, CodesOK
    <2> QED BY <1>1, <1>4, <2>1, <2>2, <2>3 DEF SiteInv, CodesOK, CodeLogsInOnce
  <1>7. SavingOK' /\ PasskeyLimit' /\ TokensOK' /\ RotatedSessionIsDead'
    BY <1>1, <1>2 DEF SiteInv, SavingOK, Verified, PasskeyLimit, TokensOK,
                      RotatedSessionIsDead, Carried
  <1> QED BY <1>2, <1>5, <1>6, <1>7 DEF SiteInv, TypeOK

\* Time takes rows away and adds none.
LEMMA TickKeepsInv ==
    ASSUME SiteInv, Tick
    PROVE  SiteInv' /\ db'.passkeys = db.passkeys
  <1>1. UNCHANGED <<ceremonyMu, request, cookies, uses, audience, signed, printed>>
    BY DEF Tick, clientVars
  <1>2. /\ DOMAIN db' = DOMAIN db /\ db'.codes = Older(db.codes)
        /\ db'.sessions = Aged(Older(db.sessions))
        /\ db'.challenges = Older(db.challenges)
        /\ db'.passkeys = db.passkeys
    BY DEF Tick, SiteInv, TypeOK, RowsOK
  <1>3. /\ db.codes \in SUBSET CodeRow /\ db.sessions \in SUBSET SessionRow
        /\ db.challenges \in SUBSET ChallengeRow
    BY DEF SiteInv, TypeOK, RowsOK
  <1>4. /\ db'.codes \subseteq CodeRow
        /\ \A x \in db'.codes : \E y \in db.codes : x.code = y.code
    BY <1>2, <1>3, OlderRows
  <1>5. /\ db'.sessions \subseteq SessionRow
        /\ \A x \in db'.sessions : \E y \in db.sessions : x.token = y.token
    <2>1. /\ Older(db.sessions) \in SUBSET SessionRow
          /\ \A x \in Older(db.sessions) : \E y \in db.sessions : x.token = y.token
      BY <1>3, OlderRows
    <2>2. /\ Aged(Older(db.sessions)) \subseteq SessionRow
          /\ \A x \in Aged(Older(db.sessions)) :
                 \E y \in Older(db.sessions) : x.token = y.token
      BY <2>1, AgedRows
    <2> QED BY <1>2, <2>1, <2>2
  <1>6. db'.challenges \subseteq ChallengeRow
    BY <1>2, <1>3, OlderRows
  <1>7. RowsOK' /\ PasskeysOK' /\ ClientsOK' /\ RequestsOK'
    BY <1>1, <1>2, <1>4, <1>5, <1>6
       DEF SiteInv, TypeOK, RowsOK, PasskeysOK, ClientsOK, RequestsOK
  <1>8. CodesOK'
    BY <1>1, <1>4 DEF SiteInv, CodesOK, CodeLogsInOnce
  <1>9. SavingOK' /\ PasskeyLimit' /\ TokensOK'
    BY <1>1, <1>2 DEF SiteInv, SavingOK, Verified, PasskeyLimit, TokensOK
  <1>10. RotatedSessionIsDead'
    BY <1>1, <1>5 DEF SiteInv, RotatedSessionIsDead, Carried
  <1> QED BY <1>2, <1>7, <1>8, <1>9, <1>10 DEF SiteInv, TypeOK

\* A restart loses the requests and keeps the tables.
LEMMA RestartKeepsInv ==
    ASSUME SiteInv, Restart
    PROVE  SiteInv' /\ db' = db
  <1>1. /\ UNCHANGED <<db, cookies, uses, audience, signed, printed>>
        /\ request' = [r \in Slots |-> Idle]
    BY DEF Restart, clientVars
  <1>2. \A r \in Slots : request'[r].stage = "idle"
    BY <1>1 DEF Idle
  <1>3. RequestsOK' /\ SavingOK' /\ TokensOK' /\ RotatedSessionIsDead'
    BY <1>1, <1>2 DEF RequestsOK, SavingOK, TokensOK, RotatedSessionIsDead
  <1>4. RowsOK' /\ PasskeysOK' /\ ClientsOK' /\ PasskeyLimit' /\ CodesOK'
    BY <1>1 DEF SiteInv, TypeOK, RowsOK, PasskeysOK, ClientsOK, PasskeyLimit, CodesOK,
                CodeLogsInOnce
  <1> QED BY <1>1, <1>3, <1>4 DEF SiteInv, TypeOK

-----------------------------------------------------------------------------
(* The site.                                                               *)

\* Every behaviour starts in the invariant.
LEMMA SiteInvInit == SiteInit => SiteInv
  <1> SUFFICES ASSUME SiteInit PROVE SiteInv
    OBVIOUS
  <1>1. PICK known \in SUBSET audience.keys, b \in audience.browsers, in \in BOOLEAN :
            /\ Cardinality(known) <= MaxPasskeys
            /\ db = [codes |-> {}, challenges |-> {}, passkeys |-> [k \in known |-> 0],
                     sessions |-> IF ~in THEN {}
                         ELSE {[token |-> 1, left |-> SessionLife, age |-> 0]}]
            /\ cookies = [c \in Browsers |->
                   [session |-> IF in /\ c = b THEN 1 ELSE None, challenge |-> None]]
    BY DEF SiteInit
  <1>2. /\ audience \in Audiences /\ request = [r \in Slots |-> Idle]
        /\ signed = [k \in Keys |-> 0] /\ printed = <<>> /\ uses = [k \in Codes |-> 0]
    BY DEF SiteInit
  <1>3. 1 \in Tokens /\ 1 \in Cookie /\ None \in Cookie /\ SessionLife \in Nat
            /\ known \subseteq Keys
    BY <1>2, SiteConstants DEF Tokens, Cookie
  <1>4. RowsOK
    BY <1>1, <1>3 DEF RowsOK, SessionRow
  <1>5. PasskeysOK /\ PasskeyLimit
    BY <1>1, <1>3 DEF PasskeysOK, PasskeyLimit
  <1>6. ClientsOK
    <2>1. cookies \in [Browsers -> [session : Cookie, challenge : Cookie]]
      BY <1>1, <1>3
    <2> QED BY <1>2, <2>1 DEF ClientsOK
  <1>7. \A r \in Slots : request[r].stage = "idle"
    BY <1>2 DEF Idle
  <1>8. RequestsOK /\ SavingOK /\ TokensOK /\ RotatedSessionIsDead
    BY <1>2, <1>7 DEF RequestsOK, SavingOK, TokensOK, RotatedSessionIsDead
  <1>9. CodesOK
    BY <1>1, <1>2 DEF CodesOK, CodeLogsInOnce
  <1> QED BY <1>4, <1>5, <1>6, <1>8, <1>9 DEF SiteInv, TypeOK

\* Every step keeps the invariant, and every counter.
LEMMA SiteInvStep ==
    ASSUME SiteInv, [SiteNext]_siteVars
    PROVE  SiteInv' /\ CountersKept
  <1>0. ASSUME db'.passkeys = db.passkeys PROVE CountersKept
    BY <1>0 DEF SiteInv, TypeOK, PasskeysOK, CountersKept
  <1>1. ASSUME NEW r \in Slots, Serve(r) PROVE SiteInv' /\ CountersKept
    <2>1. RequestsOK' /\ TokensOK'
      BY <1>1, ServeKeepsRequests DEF SiteInv, TypeOK
    <2>2. RowsOK'
      BY <1>1, ServeKeepsRows DEF SiteInv, RowsStep
    <2>3. PasskeysOK' /\ PasskeyLimit' /\ SavingOK' /\ CountersKept
      BY <1>1, ServeKeepsPasskeys DEF SiteInv
    <2>4. CodesOK' /\ ClientsOK' /\ RotatedSessionIsDead'
      BY <1>1, ServeKeepsCodes, ServeKeepsClients, ServeKeepsRotation DEF SiteInv
    <2> QED BY <2>1, <2>2, <2>3, <2>4 DEF SiteInv, TypeOK
  <1>2. CASE UNCHANGED siteVars
    <2>1. UNCHANGED <<db, ceremonyMu, request, cookies, uses, audience, signed, printed>>
      BY <1>2 DEF siteVars, clientVars
    <2>2. TypeOK' /\ TokensOK'
      BY <2>1 DEF SiteInv, TypeOK, RowsOK, PasskeysOK, ClientsOK, RequestsOK, TokensOK
    <2>3. SavingOK' /\ PasskeyLimit' /\ CodesOK' /\ RotatedSessionIsDead'
      BY <2>1 DEF SiteInv, SavingOK, Verified, PasskeyLimit, CodesOK, CodeLogsInOnce,
                  RotatedSessionIsDead, Carried
    <2> QED BY <1>0, <2>1, <2>2, <2>3 DEF SiteInv
  <1> QED BY <1>0, <1>1, <1>2, PostKeepsInv, GenerateKeepsInv, TickKeepsInv, RestartKeepsInv
          DEF SiteNext

\* The tables, cookies and requests stay well formed.
THEOREM SiteTypes == SiteSpec => []TypeOK
  <1>1. SiteInv => TypeOK
    BY DEF SiteInv
  <1> QED BY <1>1, SiteInvInit, SiteInvStep, PTL DEF SiteSpec

\* registerBegin and registerFinish never let more passkeys in than the limit,
\* for any number of ceremonies at once.
THEOREM PasskeysAreLimited == SiteSpec => []PasskeyLimit
  <1>1. SiteInv => PasskeyLimit
    BY DEF SiteInv
  <1> QED BY <1>1, SiteInvInit, SiteInvStep, PTL DEF SiteSpec

\* A code opens at most one session, and none once a newer one was printed.
THEOREM CodesLogInOnce == SiteSpec => []CodeLogsInOnce
  <1>1. SiteInv => CodeLogsInOnce
    BY DEF SiteInv, CodesOK
  <1> QED BY <1>1, SiteInvInit, SiteInvStep, PTL DEF SiteSpec

\* A login that is answered with a new session, and whose statements did not
\* err, has ended the session it came with: none of the requests beside it, nor
\* a later login, brings that session back.  (After RotateErrs the old session
\* may live on: the code ignores the error.)
THEOREM RotationEndsSessions == SiteSpec => []RotatedSessionIsDead
  <1>1. SiteInv => RotatedSessionIsDead
    BY DEF SiteInv
  <1> QED BY <1>1, SiteInvInit, SiteInvStep, PTL DEF SiteSpec

\* The stored counter of an authenticator never goes back.
THEOREM CountersOnlyGrow == SiteSpec => CounterNeverBack
  <1>1. SiteInv /\ [SiteNext]_siteVars =>
            [\A k \in DOMAIN db.passkeys :
                /\ k \in DOMAIN db'.passkeys
                /\ db'.passkeys[k] >= db.passkeys[k]]_siteVars
    BY SiteInvStep DEF CountersKept
  <1> QED BY <1>1, SiteInvInit, SiteInvStep, PTL DEF SiteSpec, CounterNeverBack
=============================================================================
