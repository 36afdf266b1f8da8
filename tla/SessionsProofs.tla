---------------------------- MODULE SessionsProofs ----------------------------
(***************************************************************************)
(* Proofs about Sessions, for any users, tokens, workers, clock resolution *)
(* and token lifetime.                                                     *)
(*                                                                         *)
(* Logging out: what a transaction has purged, and what a lookup missed,   *)
(* had expired, and stays expired because the clock only advances and a    *)
(* minted token never changes.                                             *)
(*                                                                         *)
(* Revoking all: a cutoff may be taken back by a revoke-all that computed  *)
(* its own earlier and commits later, but every cutoff on its way covers   *)
(* the tokens that were ended for good.                                    *)
(***************************************************************************)
EXTENDS Sessions, TLAPS

Expired(t) == ExpiresAt(t) <= now

\* What holds of a worker between the steps of its request.
SoundWorker(w) ==
  /\ worker[w].phase \in WithToken => worker[w].token \in Minted
  /\ \A t \in worker[w].purge : t \in Minted /\ Expired(t)
  /\ worker[w].phase \in {"decoded", "unrevoked"} /\ worker[w].wasLoggedOut
       => worker[w].token \in loggedOut
  /\ \A t \in Minted :
       /\ worker[w].phase = "unrevoked" /\ worker[w].wasLoggedOut
       /\ worker[w].token = t
       => Expired(t)

LogoutInv ==
  /\ TypeOK
  /\ revoked \subseteq Minted
  /\ loggedOut \subseteq Minted
  /\ \A t \in loggedOut \ revoked : Expired(t)
  /\ \A w \in Workers : SoundWorker(w)

-----------------------------------------------------------------------------
(* The clock, and tokens once minted *)

\* No step takes the clock back or touches a minted token.
LEMMA TokensAreStable ==
  ASSUME TypeOK, [Next]_vars
  PROVE  /\ now <= now'
         /\ \A t \in Minted : t \in Minted' /\ token'[t] = token[t]
<1>1. now <= now'
  <2>1. now \in Int
    BY SessionAssumption DEF TypeOK
  <2>2. CASE Tick
    BY <2>1, <2>2 DEF Tick
  <2>3. CASE UNCHANGED now
    BY <2>1, <2>3
  <2> QED
    BY <2>2, <2>3
    DEF Next, vars, RegisterUser, UpdateUserStatus, DeleteUser, LoginVerified,
        CreateAccessToken, ReadTokenClaims, LookUpRevocation, LookUpUser,
        Respond, LogoutUser, AlreadyRevoked, NotYetRevoked, CommitRevocation,
        RevocationConflict, RevokeAllSessions, CommitCutoff, UserGone
<1>2. \A t \in Minted : token'[t] = token[t]
  <2>1. CASE \E w \in Workers, t \in Tokens : CreateAccessToken(w, t)
    BY <2>1 DEF CreateAccessToken, TypeOK, Minted
  <2>2. CASE UNCHANGED token
    BY <2>2
  <2> QED
    BY <2>1, <2>2
    DEF Next, vars, Tick, RegisterUser, UpdateUserStatus, DeleteUser,
        LoginVerified, ReadTokenClaims, LookUpRevocation, LookUpUser, Respond,
        LogoutUser, AlreadyRevoked, NotYetRevoked, CommitRevocation,
        RevocationConflict, RevokeAllSessions, CommitCutoff, UserGone
<1> QED
  BY <1>1, <1>2 DEF Minted

\* A token that has expired stays expired.
LEMMA ExpiredForGood ==
  ASSUME TypeOK, TypeOK', [Next]_vars, NEW t \in Minted, Expired(t)
  PROVE  Expired(t)' /\ t \in Minted'
<1>1. now <= now' /\ t \in Minted' /\ token'[t] = token[t]
  BY TokensAreStable
<1>2. ExpiresAt(t)' = ExpiresAt(t)
  BY <1>1 DEF ExpiresAt, WholeSeconds
<1>3. ExpiresAt(t) \in Int
  BY SessionAssumption DEF ExpiresAt, WholeSeconds, Minted, TypeOK, Token, Instant, Never
<1> QED
  BY <1>1, <1>2, <1>3 DEF Expired, TypeOK

-----------------------------------------------------------------------------
(* Type correctness *)

LEMMA InitTypeOK == Init => TypeOK
BY SessionAssumption
DEF Init, TypeOK, Account, Token, Worker, WithToken, WithUser, Idle, Phase, Instant,
    Never

LEMMA NextTypeOK == TypeOK /\ [Next]_vars => TypeOK'
<1> SUFFICES ASSUME TypeOK, [Next]_vars
             PROVE  TypeOK'
  OBVIOUS
<1> USE SessionAssumption
<1>0. Idle \in Worker
  BY DEF Idle, Worker, WithToken, WithUser, Phase, Instant, Never
<1>1. CASE UNCHANGED vars
  BY <1>1 DEF vars, TypeOK
<1>2. CASE Tick
  BY <1>2 DEF Tick, TypeOK
<1>3. ASSUME NEW u \in Users, RegisterUser(u)
      PROVE  TypeOK'
  BY <1>3 DEF RegisterUser, TypeOK, Account
<1>4. ASSUME NEW u \in Users, NEW active \in BOOLEAN,
             UpdateUserStatus(u, active)
      PROVE  TypeOK'
  BY <1>4 DEF UpdateUserStatus, TypeOK, Account
<1>5. ASSUME NEW u \in Users, DeleteUser(u)
      PROVE  TypeOK'
  BY <1>5 DEF DeleteUser, TypeOK, Account
<1>6. ASSUME NEW w \in Workers, NEW u \in Users, LoginVerified(w, u)
      PROVE  TypeOK'
  <2>1. [Idle EXCEPT !.phase = "minting", !.user = u] \in Worker
    BY <1>0 DEF Worker, WithToken, WithUser, Phase
  <2> QED
    BY <1>6, <2>1 DEF LoginVerified, Goes, TypeOK
<1>7. ASSUME NEW w \in Workers, NEW u \in Users, RevokeAllSessions(w, u)
      PROVE  TypeOK'
  <2>1. [Idle EXCEPT !.phase = "cutting", !.user = u, !.cutoff = NewCutoff]
          \in Worker
    BY <1>0 DEF Worker, WithToken, WithUser, Phase, NewCutoff, Instant, TypeOK
  <2> QED
    BY <1>7, <2>1 DEF RevokeAllSessions, Goes, TypeOK
<1>8. ASSUME NEW w \in Workers, NEW t \in Tokens, CreateAccessToken(w, t)
      PROVE  TypeOK'
  <2>1. [owner |-> worker[w].user, minted |-> now] \in Token
    BY DEF Token, Instant, TypeOK, Worker
  <2> QED
    BY <1>0, <1>8, <2>1 DEF CreateAccessToken, Goes, TypeOK
<1>9. ASSUME NEW w \in Workers, NEW t \in Tokens, ReadTokenClaims(w, t)
      PROVE  TypeOK'
  <2> DEFINE next == [Idle EXCEPT !.phase = "decoded", !.token = t,
                                  !.wasLoggedOut = t \in loggedOut,
                                  !.wasKilled = t \in killed]
  <2>1. \A a, b \in BOOLEAN :
          [Idle EXCEPT !.phase = "decoded", !.token = t, !.wasLoggedOut = a,
                       !.wasKilled = b] \in Worker
    BY <1>0 DEF Worker, WithToken, WithUser, Phase
  <2>2. worker' = [worker EXCEPT ![w] = next]
    BY <1>9 DEF ReadTokenClaims, Goes
  <2>3. (t \in loggedOut) \in BOOLEAN /\ (t \in killed) \in BOOLEAN
    OBVIOUS
  <2>4. next \in Worker
    BY <2>1, <2>3, Zenon
  <2> HIDE DEF next
  <2> QED
    BY <1>9, <2>2, <2>4 DEF ReadTokenClaims, TypeOK
<1>10. ASSUME NEW w \in Workers, NEW t \in Tokens, LogoutUser(w, t)
       PROVE  TypeOK'
  <2>1. [Idle EXCEPT !.phase = "leaving", !.token = t] \in Worker
    BY <1>0 DEF Worker, WithToken, WithUser, Phase
  <2> QED
    BY <1>10, <2>1 DEF LogoutUser, Goes, TypeOK
<1>11. ASSUME NEW w \in Workers, LookUpRevocation(w) \/ LookUpUser(w)
       PROVE  TypeOK'
  <2>1. \A phase \in {"unrevoked", "served", "refused"} :
          [worker[w] EXCEPT !.phase = phase] \in Worker
    BY <1>11
    DEF LookUpRevocation, LookUpUser, Goes, TypeOK, Worker, WithToken,
        WithUser, Phase
  <2>2. PICK phase \in {"unrevoked", "served", "refused"} :
          worker' = [worker EXCEPT ![w] = [worker[w] EXCEPT !.phase = phase]]
    BY <1>11 DEF LookUpRevocation, LookUpUser, Goes
  <2> QED
    BY <1>11, <2>1, <2>2 DEF LookUpRevocation, LookUpUser, TypeOK
<1>12. ASSUME NEW w \in Workers, Respond(w)
       PROVE  TypeOK'
  BY <1>0, <1>12 DEF Respond, TypeOK
<1>13. ASSUME NEW w \in Workers, AlreadyRevoked(w)
       PROVE  TypeOK'
  BY <1>0, <1>13 DEF AlreadyRevoked, Goes, TypeOK
<1>14. ASSUME NEW w \in Workers, NotYetRevoked(w)
       PROVE  TypeOK'
  <2>1. [worker[w] EXCEPT !.phase = "recording",
                          !.purge = {t \in revoked : Dead(t)}] \in Worker
    BY <1>14 DEF NotYetRevoked, Goes, TypeOK, Worker, WithToken, WithUser, Phase
  <2> QED
    BY <1>14, <2>1 DEF NotYetRevoked, Goes, TypeOK
<1>15. ASSUME NEW w \in Workers, CommitRevocation(w)
       PROVE  TypeOK'
  <2>1. worker[w].token \in Tokens
    BY <1>15 DEF CommitRevocation, Goes, TypeOK, Worker, WithToken
  <2> QED
    BY <1>0, <1>15, <2>1 DEF CommitRevocation, Goes, TypeOK
<1>16. ASSUME NEW w \in Workers, RevocationConflict(w)
       PROVE  TypeOK'
  <2>1. [Idle EXCEPT !.phase = "conflict"] \in Worker
    BY <1>0 DEF Worker, WithToken, WithUser, Phase
  <2> QED
    BY <1>16, <2>1 DEF RevocationConflict, Goes, TypeOK
<1>17. ASSUME NEW w \in Workers, CommitCutoff(w)
       PROVE  TypeOK'
  <2>1. worker[w].cutoff \in Instant
    BY DEF TypeOK, Worker
  <2> QED
    BY <1>0, <1>17, <2>1
    DEF CommitCutoff, ToBeEnded, Goes, TypeOK, Account, Minted
<1>18. ASSUME NEW w \in Workers, UserGone(w)
       PROVE  TypeOK'
  <2>1. [Idle EXCEPT !.phase = "stale"] \in Worker
    BY <1>0 DEF Worker, WithToken, WithUser, Phase
  <2> QED
    BY <1>18, <2>1 DEF UserGone, Goes, TypeOK
<1> QED
  BY <1>1, <1>2, <1>3, <1>4, <1>5, <1>6, <1>7, <1>8, <1>9, <1>10, <1>11, <1>12,
     <1>13, <1>14, <1>15, <1>16, <1>17, <1>18 DEF Next

-----------------------------------------------------------------------------
(* Logging out *)

\* A worker that takes no part in a step keeps what is known of it.
LEMMA BystandersStaySound ==
  ASSUME TypeOK, TypeOK', [Next]_vars, loggedOut \subseteq loggedOut',
         NEW v \in Workers, SoundWorker(v), worker'[v] = worker[v]
  PROVE  SoundWorker(v)'
<1>1. \A t \in Minted : t \in Minted' /\ (Expired(t) => Expired(t)')
  BY TokensAreStable, ExpiredForGood
<1>2. worker'[v].phase \in WithToken => worker'[v].token \in Minted'
  BY <1>1 DEF SoundWorker
<1>3. \A t \in worker'[v].purge : t \in Minted' /\ Expired(t)'
  BY <1>1 DEF SoundWorker
<1>4. worker'[v].phase \in {"decoded", "unrevoked"} /\ worker'[v].wasLoggedOut
        => worker'[v].token \in loggedOut'
  BY DEF SoundWorker
<1>5. ASSUME NEW t \in Minted', worker'[v].phase = "unrevoked",
             worker'[v].wasLoggedOut, worker'[v].token = t
      PROVE  Expired(t)'
  <2>1. t \in Minted
    BY <1>5 DEF SoundWorker, WithToken
  <2> QED
    BY <1>1, <1>5, <2>1 DEF SoundWorker
<1> QED
  BY <1>2, <1>3, <1>4, <1>5 DEF SoundWorker

\* A worker without token, purge and request is sound.
LEMMA FreeWorkersAreSound ==
  ASSUME NEW v \in Workers, worker'[v].phase \notin WithToken,
         worker'[v].purge = {}
  PROVE  SoundWorker(v)'
BY DEF SoundWorker, WithToken

LEMMA InitLogoutInv == Init => LogoutInv
<1> SUFFICES ASSUME Init PROVE LogoutInv
  OBVIOUS
<1>1. TypeOK
  BY InitTypeOK
<1> QED
  BY <1>1 DEF Init, LogoutInv, SoundWorker, Idle, WithToken

LEMMA NextLogoutInv == LogoutInv /\ [Next]_vars => LogoutInv'
<1> SUFFICES ASSUME LogoutInv, [Next]_vars
             PROVE  LogoutInv'
  OBVIOUS
<1>1. TypeOK /\ TypeOK'
  BY NextTypeOK DEF LogoutInv
<1>2. \A t \in Minted : t \in Minted' /\ (Expired(t) => Expired(t)')
  BY <1>1, TokensAreStable, ExpiredForGood
<1>3. ASSUME NEW w \in Workers,
             \A v \in Workers \ {w} : worker'[v] = worker[v],
             SoundWorker(w)', UNCHANGED <<revoked, loggedOut>>
      PROVE  LogoutInv'
  <2>1. \A v \in Workers : SoundWorker(v)'
    BY <1>1, <1>3, BystandersStaySound DEF LogoutInv
  <2> QED
    BY <1>1, <1>2, <1>3, <2>1 DEF LogoutInv
<1>4. ASSUME UNCHANGED <<revoked, loggedOut, worker>>
      PROVE  LogoutInv'
  <2>1. \A v \in Workers : SoundWorker(v)'
    BY <1>1, <1>4, BystandersStaySound DEF LogoutInv
  <2> QED
    BY <1>1, <1>2, <1>4, <2>1 DEF LogoutInv
<1>5. CASE \/ UNCHANGED vars \/ Tick
           \/ \E u \in Users : \/ RegisterUser(u) \/ DeleteUser(u)
                              \/ \E active \in BOOLEAN :
                                   UpdateUserStatus(u, active)
  BY <1>4, <1>5 DEF vars, Tick, RegisterUser, DeleteUser, UpdateUserStatus
<1>6. ASSUME NEW w \in Workers,
             worker' = [worker EXCEPT ![w] = worker'[w]],
             worker'[w].phase \notin WithToken, worker'[w].purge = {},
             UNCHANGED <<revoked, loggedOut>>
      PROVE  LogoutInv'
  <2>1. SoundWorker(w)'
    BY <1>6, FreeWorkersAreSound
  <2> QED
    BY <1>1, <1>3, <1>6, <2>1 DEF TypeOK
<1>7. ASSUME NEW w \in Workers, NEW u \in Users,
             LoginVerified(w, u) \/ RevokeAllSessions(w, u)
      PROVE  LogoutInv'
  BY <1>1, <1>6, <1>7
  DEF LoginVerified, RevokeAllSessions, Goes, Idle, WithToken, TypeOK
<1>8. ASSUME NEW w \in Workers, NEW t \in Tokens, CreateAccessToken(w, t)
      PROVE  LogoutInv'
  BY <1>1, <1>6, <1>8 DEF CreateAccessToken, Goes, Idle, WithToken, TypeOK
<1>9. ASSUME NEW w \in Workers,
             Respond(w) \/ RevocationConflict(w) \/ CommitCutoff(w) \/ UserGone(w)
      PROVE  LogoutInv'
  BY <1>1, <1>6, <1>9
  DEF Respond, RevocationConflict, CommitCutoff, UserGone, Goes, Idle,
      WithToken, TypeOK
<1>10. ASSUME NEW w \in Workers, NEW t \in Tokens,
              ReadTokenClaims(w, t) \/ LogoutUser(w, t)
       PROVE  LogoutInv'
  <2>1. /\ worker'[w].token = t /\ t \in Minted
        /\ worker'[w].phase \in {"decoded", "leaving"} /\ worker'[w].purge = {}
        /\ worker'[w].phase = "decoded" =>
             (worker'[w].wasLoggedOut <=> t \in loggedOut)
        /\ worker' = [worker EXCEPT ![w] = worker'[w]]
        /\ UNCHANGED <<revoked, loggedOut>>
    BY <1>1, <1>10 DEF ReadTokenClaims, LogoutUser, Goes, Idle, Decodes, TypeOK
  <2>2. t \in Minted'
    BY <1>2, <2>1
  <2>3. SoundWorker(w)'
    BY <2>1, <2>2 DEF SoundWorker
  <2> QED
    BY <1>1, <1>3, <2>1, <2>3 DEF TypeOK
<1>11. ASSUME NEW w \in Workers, LookUpRevocation(w)
       PROVE  LogoutInv'
  <2>1. /\ worker[w].phase = "decoded"
        /\ worker'[w].token = worker[w].token
        /\ worker'[w].purge = worker[w].purge
        /\ worker'[w].wasLoggedOut = worker[w].wasLoggedOut
        /\ worker'[w].phase \in {"refused", "unrevoked"}
        /\ worker'[w].phase = "unrevoked" => worker[w].token \notin revoked
        /\ worker' = [worker EXCEPT ![w] = worker'[w]]
        /\ UNCHANGED <<revoked, loggedOut>>
    BY <1>1, <1>11 DEF LookUpRevocation, Goes, IsRevoked, TypeOK, Worker
  <2>2. SoundWorker(w) /\ \A t \in loggedOut \ revoked : Expired(t)
    BY DEF LogoutInv
  <2>3. worker[w].token \in Minted /\ worker[w].token \in Minted'
    BY <1>2, <2>1, <2>2 DEF SoundWorker, WithToken
  <2>4. \A t \in worker'[w].purge : t \in Minted' /\ Expired(t)'
    BY <1>2, <2>1, <2>2 DEF SoundWorker
  <2>5. ASSUME NEW t \in Minted', worker'[w].phase = "unrevoked",
               worker'[w].wasLoggedOut, worker'[w].token = t
        PROVE  Expired(t)'
    <3>1. t \in loggedOut \ revoked /\ t \in Minted
      BY <2>1, <2>2, <2>3, <2>5 DEF SoundWorker
    <3> QED
      BY <1>2, <2>2, <3>1
  <2>6. worker'[w].phase \in {"decoded", "unrevoked"} /\ worker'[w].wasLoggedOut
          => worker'[w].token \in loggedOut'
    BY <2>1, <2>2 DEF SoundWorker
  <2>7. SoundWorker(w)'
    BY <2>1, <2>3, <2>4, <2>5, <2>6 DEF SoundWorker
  <2> QED
    BY <1>1, <1>3, <2>1, <2>7 DEF TypeOK
<1>12. ASSUME NEW w \in Workers, LookUpUser(w)
       PROVE  LogoutInv'
  <2>1. /\ worker'[w].purge = worker[w].purge
        /\ worker'[w].phase \in {"refused", "served"}
        /\ worker' = [worker EXCEPT ![w] = worker'[w]]
        /\ UNCHANGED <<revoked, loggedOut>>
    BY <1>1, <1>12 DEF LookUpUser, Goes, TypeOK, Worker
  <2>2. \A t \in worker'[w].purge : t \in Minted' /\ Expired(t)'
    BY <1>2, <2>1 DEF LogoutInv, SoundWorker
  <2>3. SoundWorker(w)'
    BY <2>1, <2>2 DEF SoundWorker, WithToken
  <2> QED
    BY <1>1, <1>3, <2>1, <2>3 DEF TypeOK
<1>13. \A t \in revoked : Dead(t) => Expired(t)
  <2>1. \A t \in Minted : ExpiresAt(t) \in Int
    BY <1>1, SessionAssumption
    DEF ExpiresAt, WholeSeconds, Minted, TypeOK, Token, Instant, Never
  <2> QED
    BY <1>1, <2>1, SessionAssumption DEF Dead, Expired, LogoutInv, TypeOK
<1>14. ASSUME NEW w \in Workers, AlreadyRevoked(w)
       PROVE  LogoutInv'
  <2>1. /\ worker' = [worker EXCEPT ![w] = Idle]
        /\ revoked' = revoked \ {t \in revoked : Dead(t)}
        /\ loggedOut' = loggedOut
    BY <1>14 DEF AlreadyRevoked, Goes
  <2>2. \A t \in loggedOut' \ revoked' : Expired(t)'
    BY <1>2, <1>13, <2>1 DEF LogoutInv
  <2>3. SoundWorker(w)'
    BY <1>1, <2>1, FreeWorkersAreSound DEF Idle, TypeOK, WithToken
  <2>4. \A v \in Workers : SoundWorker(v)'
    BY <1>1, <2>1, <2>3, BystandersStaySound DEF LogoutInv, TypeOK
  <2>5. revoked' \subseteq Minted' /\ loggedOut' \subseteq Minted'
    BY <1>2, <2>1 DEF LogoutInv
  <2> QED
    BY <1>1, <2>2, <2>4, <2>5 DEF LogoutInv
<1>15. ASSUME NEW w \in Workers, NotYetRevoked(w)
       PROVE  LogoutInv'
  <2>1. /\ worker[w].phase = "leaving" /\ worker'[w].phase = "recording"
        /\ worker'[w].token = worker[w].token
        /\ worker'[w].purge = {t \in revoked : Dead(t)}
        /\ worker' = [worker EXCEPT ![w] = worker'[w]]
        /\ UNCHANGED <<revoked, loggedOut>>
    BY <1>1, <1>15 DEF NotYetRevoked, Goes, TypeOK, Worker
  <2>2. \A t \in worker'[w].purge : t \in Minted' /\ Expired(t)'
    BY <1>2, <1>13, <2>1 DEF LogoutInv
  <2>3. worker'[w].token \in Minted'
    BY <1>2, <2>1 DEF LogoutInv, SoundWorker, WithToken
  <2>4. SoundWorker(w)'
    BY <2>1, <2>2, <2>3 DEF SoundWorker
  <2> QED
    BY <1>1, <1>3, <2>1, <2>4 DEF TypeOK
<1>16. ASSUME NEW w \in Workers, CommitRevocation(w)
       PROVE  LogoutInv'
  <2> DEFINE t == worker[w].token
  <2>1. /\ worker[w].phase = "recording"
        /\ worker' = [worker EXCEPT ![w] = Idle]
        /\ revoked' = (revoked \ worker[w].purge) \cup {t}
        /\ loggedOut' = loggedOut \cup {t}
    BY <1>16 DEF CommitRevocation, Goes
  <2>2. t \in Minted /\ \A x \in worker[w].purge : x \in Minted /\ Expired(x)
    BY <2>1 DEF LogoutInv, SoundWorker, WithToken
  <2>3. \A x \in loggedOut' \ revoked' : Expired(x)'
    BY <1>2, <2>1, <2>2 DEF LogoutInv
  <2>4. SoundWorker(w)'
    BY <1>1, <2>1, FreeWorkersAreSound DEF Idle, TypeOK, WithToken
  <2>5. \A v \in Workers : SoundWorker(v)'
    BY <1>1, <2>1, <2>4, BystandersStaySound DEF LogoutInv, TypeOK
  <2>6. revoked' \subseteq Minted' /\ loggedOut' \subseteq Minted'
    BY <1>2, <2>1, <2>2 DEF LogoutInv
  <2> QED
    BY <1>1, <2>3, <2>5, <2>6 DEF LogoutInv
<1> QED
  BY <1>5, <1>7, <1>8, <1>9, <1>10, <1>11, <1>12, <1>14, <1>15, <1>16 DEF Next

LEMMA LogoutInvariance == Spec => []LogoutInv
BY InitLogoutInv, NextLogoutInv, PTL DEF Spec

-----------------------------------------------------------------------------

\* Rows, tokens and requests keep their shape.
THEOREM TypeCorrect == Spec => []TypeOK
BY InitTypeOK, NextTypeOK, PTL DEF Spec

\* A logged out token has its row until it has expired by itself.
THEOREM RevocationAlwaysOutlivesToken == Spec => []RevocationOutlivesToken
<1>1. LogoutInv => RevocationOutlivesToken
  BY DEF LogoutInv, RevocationOutlivesToken, Expired
<1> QED
  BY <1>1, LogoutInvariance, PTL

\* A request is served by its lookup of the user, after all other checks.
LEMMA OnlyTheUserLookupServes ==
  ASSUME TypeOK, [Next]_vars, NEW w \in Workers,
         worker'[w].phase = "served", worker[w].phase # "served"
  PROVE  worker[w].phase = "unrevoked"
<1>1. ASSUME NEW v \in Workers, NEW next,
             worker' = [worker EXCEPT ![v] = next], next.phase # "served"
      PROVE  FALSE
  BY <1>1 DEF TypeOK
<1>2. ASSUME NEW v \in Workers, LookUpUser(v)
      PROVE  worker[w].phase = "unrevoked"
  BY <1>2 DEF LookUpUser, Goes, TypeOK
<1>3. ASSUME NEW v \in Workers, NEW u \in Users,
             LoginVerified(v, u) \/ RevokeAllSessions(v, u)
      PROVE  FALSE
  <2>1. /\ worker'[v].phase \in {"minting", "cutting"}
        /\ worker' = [worker EXCEPT ![v] = worker'[v]]
    BY <1>3 DEF LoginVerified, RevokeAllSessions, Goes, Idle, TypeOK
  <2> QED
    BY <1>1, <2>1
<1>4. ASSUME NEW v \in Workers, NEW t \in Tokens,
             CreateAccessToken(v, t) \/ LogoutUser(v, t)
      PROVE  FALSE
  <2>1. CASE CreateAccessToken(v, t)
    BY <1>1, <2>1 DEF CreateAccessToken, Goes, Idle
  <2>2. CASE LogoutUser(v, t)
    <3>1. /\ worker'[v].phase = "leaving"
          /\ worker' = [worker EXCEPT ![v] = worker'[v]]
      BY <2>2 DEF LogoutUser, Goes, Idle, TypeOK
    <3> QED
      BY <1>1, <3>1
  <2> QED
    BY <1>4, <2>1, <2>2
<1>5. ASSUME NEW v \in Workers, NEW t \in Tokens, ReadTokenClaims(v, t)
      PROVE  FALSE
  <2>1. worker'[v].phase = "decoded" /\ worker' = [worker EXCEPT ![v] = worker'[v]]
    BY <1>5 DEF ReadTokenClaims, Goes, Idle, TypeOK
  <2> QED
    BY <1>1, <2>1
<1>6. ASSUME NEW v \in Workers, LookUpRevocation(v) \/ NotYetRevoked(v)
      PROVE  FALSE
  <2>1. /\ worker'[v].phase # "served"
        /\ worker' = [worker EXCEPT ![v] = worker'[v]]
    BY <1>6 DEF LookUpRevocation, NotYetRevoked, Goes, TypeOK, Worker
  <2> QED
    BY <1>1, <2>1
<1>7. ASSUME NEW v \in Workers, \/ Respond(v) \/ AlreadyRevoked(v)
                                \/ CommitRevocation(v) \/ RevocationConflict(v)
                                \/ CommitCutoff(v) \/ UserGone(v)
      PROVE  FALSE
  BY <1>1, <1>7
  DEF Respond, AlreadyRevoked, CommitRevocation, RevocationConflict,
      CommitCutoff, UserGone, Goes, Idle
<1>8. ~UNCHANGED worker
  OBVIOUS
<1> QED
  BY <1>2, <1>3, <1>4, <1>5, <1>6, <1>7, <1>8
  DEF Next, vars, Tick, RegisterUser, UpdateUserStatus, DeleteUser

\* No request presented after the logout of its token is served before the
\* token has expired by itself.
THEOREM LogoutAlwaysHolds == Spec => LogoutHolds
<1>1. ASSUME LogoutInv, [Next]_vars, NEW w \in Workers,
             worker'[w].phase = "served", worker[w].phase # "served",
             worker[w].wasLoggedOut
      PROVE  ExpiresAt(worker[w].token) <= now
  <2>1. worker[w].phase = "unrevoked"
    BY <1>1, OnlyTheUserLookupServes DEF LogoutInv
  <2>2. worker[w].token \in Minted /\ Expired(worker[w].token)
    BY <1>1, <2>1 DEF LogoutInv, SoundWorker, WithToken
  <2> QED
    BY <2>2 DEF Expired
<1>2. LogoutInv /\ [Next]_vars
        => [\A w \in Workers :
              worker'[w].phase = "served" /\ worker[w].phase # "served"
                /\ worker[w].wasLoggedOut
              => ExpiresAt(worker[w].token) <= now]_vars
  BY <1>1
<1> QED
  BY <1>2, LogoutInvariance, PTL DEF Spec, LogoutHolds

-----------------------------------------------------------------------------
(* Revoking all sessions *)

Cutoff(u) == account[u].sessions_revoked_at

\* What holds of a worker: the cutoff it is about to commit covers every token
\* of the account that was killed, and a token that was killed when it was
\* decoded is not served.
CuttingWorker(w) ==
  /\ worker[w].phase = "cutting" =>
       /\ worker[w].cutoff <= now
       /\ \A t \in killed : token[t].owner = worker[w].user
                              => token[t].minted <= worker[w].cutoff
  /\ worker[w].phase \in {"decoded", "unrevoked"} /\ worker[w].wasKilled
       => worker[w].token \in killed
  /\ worker[w].phase = "served" => ~worker[w].wasKilled

KilledToken(t) ==
  /\ t \in Minted
  /\ token[t].owner \in Users
  /\ token[t].minted <= Cutoff(token[t].owner)

CutoffInv ==
  /\ TypeOK
  /\ \A u \in Users : Cutoff(u) <= now
  /\ \A t \in killed : KilledToken(t)
  /\ \A w \in Workers : CuttingWorker(w)

\* Truncation to whole seconds never rounds up.
LEMMA WholeSecondsIsBelow ==
  ASSUME NEW time \in Nat
  PROVE  WholeSeconds(time) <= time
BY SessionAssumption DEF WholeSeconds

\* A token that was killed does not pass the check of the cutoff.
LEMMA KilledIsCutOff ==
  ASSUME TypeOK, NEW t \in Tokens, KilledToken(t)
  PROVE  CutOff(t, Cutoff(token[t].owner))
<1>1. token[t].minted \in Nat /\ Cutoff(token[t].owner) \in Int
  BY SessionAssumption
  DEF TypeOK, Token, Account, Instant, Never, KilledToken, Minted, Cutoff
<1>2. IssuedAt(t) <= token[t].minted /\ IssuedAt(t) \in Int
  BY <1>1, WholeSecondsIsBelow, SessionAssumption DEF IssuedAt, WholeSeconds
<1> QED
  BY <1>1, <1>2 DEF CutOff, KilledToken, Never

LEMMA InitCutoffInv == Init => CutoffInv
<1> SUFFICES ASSUME Init PROVE CutoffInv
  OBVIOUS
<1>1. TypeOK
  BY InitTypeOK
<1> QED
  BY <1>1 DEF Init, CutoffInv, CuttingWorker, Idle, Cutoff, Never

LEMMA NextCutoffInv == CutoffInv /\ [Next]_vars => CutoffInv'
<1> SUFFICES ASSUME CutoffInv, [Next]_vars
             PROVE  CutoffInv'
  OBVIOUS
<1>1. TypeOK /\ TypeOK'
  BY NextTypeOK DEF CutoffInv
<1>2. now <= now' /\ \A t \in Minted : t \in Minted' /\ token'[t] = token[t]
  BY <1>1, TokensAreStable
<1>3. /\ now \in Int /\ now' \in Int
      /\ \A u \in Users : Cutoff(u) \in Int /\ Cutoff(u)' \in Int
      /\ \A w \in Workers : worker[w].cutoff \in Int
      /\ \A t \in Tokens : token[t].minted \in Int
  BY <1>1, SessionAssumption
  DEF TypeOK, Account, Worker, Token, Instant, Never, Cutoff
<1>4. ASSUME \A u \in Users : Cutoff(u)' = Cutoff(u), killed' = killed,
             \A w \in Workers : worker'[w] = worker[w] \/ CuttingWorker(w)'
      PROVE  CutoffInv'
  <2>1. \A u \in Users : Cutoff(u)' <= now'
    BY <1>2, <1>3, <1>4 DEF CutoffInv
  <2>2. ASSUME NEW t \in killed' PROVE KilledToken(t)'
    BY <1>2, <1>4, <2>2 DEF CutoffInv, KilledToken, Cutoff
  <2>3. ASSUME NEW w \in Workers, worker'[w] = worker[w]
        PROVE  CuttingWorker(w)'
    <3>1. \A t \in killed : t \in Minted /\ token'[t] = token[t]
      BY <1>2 DEF CutoffInv, KilledToken
    <3> QED
      BY <1>2, <1>3, <1>4, <2>3, <3>1 DEF CutoffInv, CuttingWorker
  <2> QED
    BY <1>1, <1>4, <2>1, <2>2, <2>3 DEF CutoffInv
<1>5. CASE \/ UNCHANGED vars \/ Tick
           \/ \E u \in Users : \/ RegisterUser(u) \/ DeleteUser(u)
                              \/ \E active \in BOOLEAN :
                                   UpdateUserStatus(u, active)
  <2>1. /\ killed' = killed /\ worker' = worker
        /\ \A u \in Users : Cutoff(u)' = Cutoff(u)
    BY <1>1, <1>5
    DEF vars, Tick, RegisterUser, DeleteUser, UpdateUserStatus, TypeOK,
        Account, Cutoff
  <2> QED
    BY <1>4, <2>1
\* A worker that takes a step in which no cutoff is committed.
<1>6. ASSUME NEW w \in Workers, UNCHANGED <<account, killed>>,
             worker' = [worker EXCEPT ![w] = worker'[w]], CuttingWorker(w)'
      PROVE  CutoffInv'
  BY <1>1, <1>4, <1>6 DEF Cutoff, TypeOK
<1>7. ASSUME NEW w \in Workers,
             worker'[w].phase \notin {"cutting", "decoded", "unrevoked", "served"}
      PROVE  CuttingWorker(w)'
  BY <1>7 DEF CuttingWorker
<1>8. ASSUME NEW w \in Workers, NEW u \in Users, LoginVerified(w, u)
      PROVE  CutoffInv'
  <2>1. /\ worker'[w].phase = "minting"
        /\ worker' = [worker EXCEPT ![w] = worker'[w]]
    BY <1>1, <1>8 DEF LoginVerified, Goes, Idle, TypeOK
  <2> QED
    BY <1>6, <1>7, <1>8, <2>1 DEF LoginVerified
<1>9. ASSUME NEW w \in Workers, NEW u \in Users, RevokeAllSessions(w, u)
      PROVE  CutoffInv'
  <2>1. /\ worker'[w].phase = "cutting" /\ worker'[w].cutoff = now
        /\ worker' = [worker EXCEPT ![w] = worker'[w]]
        /\ UNCHANGED <<now, account, killed, token>>
    BY <1>1, <1>9 DEF RevokeAllSessions, Goes, Idle, NewCutoff, TypeOK
  <2>2. \A t \in killed : token[t].minted <= now
    <3> SUFFICES ASSUME NEW t \in killed PROVE token[t].minted <= now
      OBVIOUS
    <3>1. /\ t \in Tokens /\ token[t].owner \in Users
          /\ token[t].minted <= Cutoff(token[t].owner)
          /\ Cutoff(token[t].owner) <= now
      BY <1>1 DEF CutoffInv, KilledToken, TypeOK
    <3> QED
      BY <1>3, <3>1
  <2>3. now <= now
    BY <1>3
  <2>4. CuttingWorker(w)'
    BY <2>1, <2>2, <2>3 DEF CuttingWorker
  <2> QED
    BY <1>6, <2>1, <2>4
<1>10. ASSUME NEW w \in Workers, NEW t \in Tokens, CreateAccessToken(w, t)
       PROVE  CutoffInv'
  <2>1. /\ worker'[w].phase = "idle"
        /\ worker' = [worker EXCEPT ![w] = worker'[w]]
    BY <1>1, <1>10 DEF CreateAccessToken, Goes, Idle, TypeOK
  <2> QED
    BY <1>6, <1>7, <1>10, <2>1 DEF CreateAccessToken
<1>11. ASSUME NEW w \in Workers, NEW t \in Tokens, ReadTokenClaims(w, t)
       PROVE  CutoffInv'
  <2>1. /\ worker'[w].phase = "decoded" /\ worker'[w].token = t
        /\ worker'[w].wasKilled <=> t \in killed
        /\ worker' = [worker EXCEPT ![w] = worker'[w]]
        /\ UNCHANGED <<account, killed>>
    BY <1>1, <1>11 DEF ReadTokenClaims, Goes, Idle, TypeOK
  <2>2. CuttingWorker(w)'
    BY <2>1 DEF CuttingWorker
  <2> QED
    BY <1>6, <2>1, <2>2
<1>12. ASSUME NEW w \in Workers, NEW t \in Tokens, LogoutUser(w, t)
       PROVE  CutoffInv'
  <2>1. /\ worker'[w].phase = "leaving"
        /\ worker' = [worker EXCEPT ![w] = worker'[w]]
    BY <1>1, <1>12 DEF LogoutUser, Goes, Idle, TypeOK
  <2> QED
    BY <1>6, <1>7, <1>12, <2>1 DEF LogoutUser
<1>13. ASSUME NEW w \in Workers, LookUpRevocation(w)
       PROVE  CutoffInv'
  <2>1. /\ worker[w].phase = "decoded"
        /\ worker'[w].phase \in {"refused", "unrevoked"}
        /\ worker'[w].token = worker[w].token
        /\ worker'[w].wasKilled = worker[w].wasKilled
        /\ worker' = [worker EXCEPT ![w] = worker'[w]]
        /\ UNCHANGED <<account, killed>>
    BY <1>1, <1>13 DEF LookUpRevocation, Goes, TypeOK, Worker
  <2>2. CuttingWorker(w)'
    BY <2>1 DEF CutoffInv, CuttingWorker
  <2> QED
    BY <1>6, <2>1, <2>2
<1>14. ASSUME NEW w \in Workers, LookUpUser(w)
       PROVE  CutoffInv'
  <2> DEFINE t == worker[w].token
  <2>1. /\ worker[w].phase = "unrevoked"
        /\ worker'[w].phase \in {"refused", "served"}
        /\ worker'[w].phase = "served" => ~CutOff(t, Cutoff(token[t].owner))
        /\ worker'[w].wasKilled = worker[w].wasKilled
        /\ worker' = [worker EXCEPT ![w] = worker'[w]]
        /\ UNCHANGED <<account, killed>>
    BY <1>1, <1>14 DEF LookUpUser, Goes, TypeOK, Worker, Cutoff
  <2>2. worker[w].wasKilled => KilledToken(t) /\ t \in Tokens
    BY <1>1, <2>1 DEF CutoffInv, CuttingWorker, TypeOK
  <2>3. worker'[w].phase = "served" => ~worker'[w].wasKilled
    BY <1>1, <2>1, <2>2, KilledIsCutOff
  <2>4. CuttingWorker(w)'
    BY <2>1, <2>3 DEF CuttingWorker
  <2> QED
    BY <1>6, <2>1, <2>4
<1>15. ASSUME NEW w \in Workers,
              \/ Respond(w) \/ AlreadyRevoked(w) \/ CommitRevocation(w)
              \/ RevocationConflict(w) \/ UserGone(w)
       PROVE  CutoffInv'
  <2>1. /\ worker'[w].phase \in {"idle", "conflict", "stale"}
        /\ worker' = [worker EXCEPT ![w] = worker'[w]]
        /\ UNCHANGED <<account, killed>>
    BY <1>1, <1>15
    DEF Respond, AlreadyRevoked, CommitRevocation, RevocationConflict,
        UserGone, Goes, Idle, TypeOK
  <2> QED
    BY <1>6, <1>7, <2>1
<1>16. ASSUME NEW w \in Workers, NotYetRevoked(w)
       PROVE  CutoffInv'
  <2>1. /\ worker'[w].phase = "recording"
        /\ worker' = [worker EXCEPT ![w] = worker'[w]]
    BY <1>1, <1>16 DEF NotYetRevoked, Goes, TypeOK, Worker
  <2> QED
    BY <1>6, <1>7, <1>16, <2>1 DEF NotYetRevoked
\* The one commit that moves a cutoff, forward or back, but never behind a
\* token that is to stay ended.
<1>17. ASSUME NEW w \in Workers, CommitCutoff(w)
       PROVE  CutoffInv'
  <2>0. PICK u, c : u = worker[w].user /\ c = worker[w].cutoff
    OBVIOUS
  <2>1. /\ worker[w].phase = "cutting" /\ worker' = [worker EXCEPT ![w] = Idle]
        /\ account' = [account EXCEPT ![u].sessions_revoked_at = c]
        /\ killed' = killed \cup ToBeEnded(u)
        /\ UNCHANGED <<now, token>>
    BY <1>17, <2>0 DEF CommitCutoff, Goes
  <2>2. /\ c <= now /\ c \in Int
        /\ \A t \in killed : token[t].owner = u => token[t].minted <= c
    BY <1>3, <2>0, <2>1 DEF CutoffInv, CuttingWorker
  <2>3. u \in Users
    BY <1>1, <2>0, <2>1 DEF TypeOK, Worker, WithUser
  <2>4. Cutoff(u)' = c /\ \A x \in Users \ {u} : Cutoff(x)' = Cutoff(x)
    BY <1>1, <2>1, <2>3 DEF TypeOK, Account, Cutoff
  <2>5. \A x \in Users : Cutoff(x)' <= now'
    BY <2>1, <2>2, <2>4 DEF CutoffInv
  <2>6. ASSUME NEW t \in killed' PROVE KilledToken(t)'
    <3>1. CASE t \in killed
      <4>1. /\ t \in Minted /\ t \in Tokens /\ token[t].owner \in Users
            /\ token[t].minted <= Cutoff(token[t].owner)
        BY <1>1, <3>1 DEF CutoffInv, KilledToken, TypeOK
      <4>2. token[t].minted <= Cutoff(token[t].owner)'
        <5>1. CASE token[t].owner = u
          BY <2>1, <2>2, <2>4, <3>1, <5>1
        <5>2. CASE token[t].owner # u
          BY <2>1, <2>4, <4>1, <5>2
        <5> QED
          BY <5>1, <5>2
      <4> QED
        BY <1>2, <2>1, <4>1, <4>2 DEF KilledToken, Cutoff
    <3>2. CASE t \in ToBeEnded(u)
      <4>1. t \in Minted /\ token[t].owner = u /\ token[t].minted <= c
        BY <2>0, <2>1, <3>2 DEF ToBeEnded
      <4> QED
        BY <1>2, <2>1, <2>3, <2>4, <4>1 DEF KilledToken, Cutoff
    <3> QED
      BY <2>1, <2>6, <3>1, <3>2
  <2>7. ASSUME NEW v \in Workers PROVE CuttingWorker(v)'
    <3>1. CASE v = w
      BY <1>1, <1>7, <2>1, <3>1 DEF Idle, TypeOK
    <3>2. CASE v # w
      <4>1. worker'[v] = worker[v]
        BY <1>1, <2>1, <3>2 DEF TypeOK
      <4>2. ASSUME worker[v].phase = "cutting", NEW t \in killed',
                   token[t].owner = worker[v].user
            PROVE  token[t].minted <= worker[v].cutoff
        <5>1. CASE t \in killed
          BY <4>2, <5>1 DEF CutoffInv, CuttingWorker
        <5>2. CASE t \in ToBeEnded(u)
          BY <4>2, <5>2 DEF ToBeEnded
        <5> QED
          BY <2>1, <4>2, <5>1, <5>2
      <4> QED
        BY <2>1, <4>1, <4>2 DEF CutoffInv, CuttingWorker
    <3> QED
      BY <3>1, <3>2
  <2> QED
    BY <1>1, <2>5, <2>6, <2>7 DEF CutoffInv
<1> QED
  BY <1>5, <1>8, <1>9, <1>10, <1>11, <1>12, <1>13, <1>14, <1>15, <1>16, <1>17
  DEF Next

\* However many revoke-alls overlap and in whatever order they commit, a token
\* that had been minted when the oldest of them computed its cutoff is never
\* served again once the first has committed.
THEOREM KilledAlwaysStaysKilled == Spec => []KilledStaysKilled
<1>1. CutoffInv => KilledStaysKilled
  BY DEF CutoffInv, CuttingWorker, KilledStaysKilled
<1> QED
  BY <1>1, InitCutoffInv, NextCutoffInv, PTL DEF Spec

-----------------------------------------------------------------------------
(* Logouts of one token, one after the other *)

Recording(w) == worker[w].phase = "recording"

\* No two logouts of one token are between their lookup and their commit.
OneLogout ==
  \A v, w \in Workers :
    Recording(v) /\ Recording(w) /\ worker[v].token = worker[w].token => v = w

\* What a logout has not found is still not there.
StillNotRevoked(w) ==
  /\ worker[w].phase # "conflict"
  /\ Recording(w) => worker[w].token \notin revoked \ worker[w].purge

\* A step of worker w to another phase, after which there are no more rows.
LEMMA WorkerStep ==
  ASSUME TypeOK, \A v \in Workers : StillNotRevoked(v), NEW w \in Workers, NEW from, NEW next,
         Goes(w, from, next), next.phase \notin {"recording", "conflict"},
         revoked' \subseteq revoked
  PROVE  \A v \in Workers : StillNotRevoked(v)'
<1>1. worker'[w] = next /\ \A v \in Workers \ {w} : worker'[v] = worker[v]
  BY DEF Goes, TypeOK
<1> QED
  BY <1>1 DEF StillNotRevoked, Recording

LEMMA CommitKeepsOthersFree ==
  ASSUME TypeOK, OneLogout, \A v \in Workers : StillNotRevoked(v),
         NEW w \in Workers, CommitRevocation(w)
  PROVE  \A v \in Workers : StillNotRevoked(v)'
<1>1. /\ Recording(w) /\ worker'[w].phase = "idle"
      /\ \A v \in Workers \ {w} : worker'[v] = worker[v]
      /\ revoked' \subseteq revoked \cup {worker[w].token}
  BY DEF CommitRevocation, Goes, Idle, Recording, TypeOK
<1>2. \A v \in Workers \ {w} : Recording(v) => worker[v].token # worker[w].token
  BY <1>1 DEF OneLogout
<1> QED
  BY <1>1, <1>2 DEF StillNotRevoked, Recording

LEMMA NextKeepsFree ==
  ASSUME TypeOK, OneLogout, \A w \in Workers : StillNotRevoked(w), [Next]_vars
  PROVE  \A w \in Workers : StillNotRevoked(w)'
<1>1. CASE UNCHANGED <<revoked, worker>>
  BY <1>1 DEF StillNotRevoked, Recording
<1>2. ASSUME NEW w \in Workers, CommitRevocation(w)
      PROVE  \A v \in Workers : StillNotRevoked(v)'
  BY <1>2, CommitKeepsOthersFree
<1>3. ASSUME NEW w \in Workers, NotYetRevoked(w)
      PROVE  \A v \in Workers : StillNotRevoked(v)'
  <2>1. /\ worker'[w].token = worker[w].token /\ revoked' = revoked
        /\ worker'[w].phase = "recording"
        /\ worker'[w].purge = {t \in revoked : Dead(t)}
        /\ \A v \in Workers \ {w} : worker'[v] = worker[v]
    BY <1>3 DEF NotYetRevoked, Goes, TypeOK, Worker
  <2>2. worker[w].token \notin revoked \ {t \in revoked : Dead(t)}
    BY <1>3 DEF NotYetRevoked, IsRevoked
  <2> QED
    BY <2>1, <2>2 DEF StillNotRevoked, Recording
<1>4. ASSUME NEW w \in Workers PROVE ~RevocationConflict(w)
  BY DEF RevocationConflict, Goes, StillNotRevoked, Recording
<1>5. ASSUME NEW w \in Workers, AlreadyRevoked(w)
      PROVE  \A v \in Workers : StillNotRevoked(v)'
  BY <1>5, WorkerStep DEF AlreadyRevoked, Idle
<1>6. ASSUME NEW w \in Workers, LookUpRevocation(w) \/ LookUpUser(w)
      PROVE  \A v \in Workers : StillNotRevoked(v)'
  <2>1. /\ worker'[w].phase \in {"refused", "unrevoked", "served"}
        /\ \A v \in Workers \ {w} : worker'[v] = worker[v]
        /\ revoked' = revoked
    BY <1>6 DEF LookUpRevocation, LookUpUser, Goes, TypeOK, Worker
  <2> QED
    BY <2>1 DEF StillNotRevoked, Recording
<1>7. ASSUME NEW w \in Workers, NEW t \in Tokens,
             CreateAccessToken(w, t) \/ ReadTokenClaims(w, t) \/ LogoutUser(w, t)
      PROVE  \A v \in Workers : StillNotRevoked(v)'
  BY <1>7, WorkerStep DEF CreateAccessToken, ReadTokenClaims, LogoutUser, Idle
<1>8. ASSUME NEW w \in Workers, NEW u \in Users,
             LoginVerified(w, u) \/ RevokeAllSessions(w, u)
      PROVE  \A v \in Workers : StillNotRevoked(v)'
  BY <1>8, WorkerStep DEF LoginVerified, RevokeAllSessions, Idle
<1>9. ASSUME NEW w \in Workers, CommitCutoff(w) \/ UserGone(w)
      PROVE  \A v \in Workers : StillNotRevoked(v)'
  BY <1>9, WorkerStep DEF CommitCutoff, UserGone, Idle
<1>10. ASSUME NEW w \in Workers, Respond(w)
       PROVE  \A v \in Workers : StillNotRevoked(v)'
  BY <1>10 DEF Respond, Idle, TypeOK, StillNotRevoked, Recording
<1>11. CASE \/ UNCHANGED vars \/ Tick
            \/ \E u \in Users : \/ RegisterUser(u) \/ DeleteUser(u)
                                \/ \E active \in BOOLEAN : UpdateUserStatus(u, active)
  BY <1>1, <1>11 DEF vars, Tick, RegisterUser, DeleteUser, UpdateUserStatus
<1> QED
  BY <1>2, <1>3, <1>4, <1>5, <1>6, <1>7, <1>8, <1>9, <1>10, <1>11 DEF Next

\* Only the overlap of two logouts of one token, between lookup and commit, runs
\* into the primary key: one after the other they are idempotent, whatever other
\* logouts purge meanwhile.
THEOREM LogoutIdempotentOneByOne == Spec /\ []OneLogout => []LogoutIdempotent
<1>1. Init => \A w \in Workers : StillNotRevoked(w)
  BY DEF Init, Idle, StillNotRevoked, Recording
<1>2. TypeOK /\ OneLogout /\ (\A w \in Workers : StillNotRevoked(w)) /\ [Next]_vars
        => (\A w \in Workers : StillNotRevoked(w))'
  BY NextKeepsFree
<1>3. (\A w \in Workers : StillNotRevoked(w)) => LogoutIdempotent
  BY DEF StillNotRevoked, LogoutIdempotent
<1> QED
  BY <1>1, <1>2, <1>3, TypeCorrect, PTL DEF Spec
=============================================================================
