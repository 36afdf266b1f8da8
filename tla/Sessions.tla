------------------------------- MODULE Sessions -------------------------------
(***************************************************************************)
(* Access tokens and the three ways to end a session: logging out (one row *)
(* in `revoked_tokens`), revoking all sessions of an account (a cutoff on  *)
(* the user row) and deactivating or deleting the account.                 *)
(*                                                                         *)
(* A token is stateless: it carries its issue and expiry times in whole    *)
(* seconds, while the clock, and the cutoff, are finer.  A request decodes *)
(* the token first, then reads the revocation row, then the user row; time *)
(* passes and other requests commit between these reads.                   *)
(*                                                                         *)
(* Passwords, the throttles and the audit rows are left out.  The handlers *)
(* that change only whether an account exists or is active load and commit *)
(* one row with nothing in between, and are single steps.                  *)
(***************************************************************************)
EXTENDS Integers

CONSTANTS
  Users,
  Tokens,         \* session ids (jti), each minted at most once
  Workers,        \* the threads that serve requests, one at a time each
  None,           \* no token, no user
  TicksPerSecond, \* resolution of the clock
  Lifetime,       \* JWT_EXPIRE_MINUTES, in ticks
  MaxTime         \* the clock stops here: the bound of the model

ASSUME SessionAssumption ==
  /\ None \notin Users \cup Tokens
  /\ TicksPerSecond \in Nat \ {0}
  /\ Lifetime \in Nat
  /\ MaxTime \in Nat

VARIABLES
  now,        \* the clock
  account,    \* the users table
  token,      \* what each token says
  revoked,    \* the session ids in revoked_tokens
  worker,     \* what each worker is doing
  loggedOut,  \* history: the tokens whose logout was committed
  killed      \* history: the tokens that committed revoke-alls ended for good

vars == <<now, account, token, revoked, worker, loggedOut, killed>>

-----------------------------------------------------------------------------

Never == -1     \* sessions_revoked_at is NULL; a token not minted yet

Instant == {Never} \cup 0..MaxTime

Account == [state : {"absent", "active", "inactive", "deleted"},
            sessions_revoked_at : Instant]

\* owner is the sub claim; minted is the instant of create_access_token.
Token == [owner : Users \cup {None}, minted : Instant]

\* phase: a login is "minting" once its password is verified; an authenticated
\* request is "decoded" after the check of signature and expiry, "unrevoked"
\* after the revocation lookup, and ends "served" or "refused"; a logout is
\* "leaving" after decoding and "recording" after its lookup; a revoke-all is
\* "cutting" between computing the cutoff and its commit.  "conflict" is a
\* logout that ends in a duplicate key error, "stale" a revoke-all whose user
\* row has gone: unhandled database errors, status 500.
Phase == {"idle", "minting", "decoded", "unrevoked", "served", "refused",
          "leaving", "recording", "conflict", "cutting", "stale"}

WithToken == {"decoded", "unrevoked", "leaving", "recording"}
WithUser  == {"minting", "cutting"}

Worker ==
  {x \in [phase        : Phase,
          token        : Tokens \cup {None}, \* the token presented
          user         : Users \cup {None},  \* to log in or to cut off
          cutoff       : Instant,            \* the cutoff to commit
          purge        : SUBSET Tokens,      \* rows deleted, not committed yet
          wasLoggedOut : BOOLEAN,            \* logged out before decoding
          wasKilled    : BOOLEAN] :          \* killed before decoding
     /\ x.phase \in WithToken => x.token \in Tokens
     /\ x.phase \in WithUser => x.user \in Users}

Idle == [phase |-> "idle", token |-> None, user |-> None, cutoff |-> Never,
         purge |-> {}, wasLoggedOut |-> FALSE, wasKilled |-> FALSE]

-----------------------------------------------------------------------------
(* Mutated forms of the definitions below; no specification uses them.     *)

DeadOnceOld(t) == token[t].minted + TicksPerSecond < now
CutOffIfBefore(t, cutoff) == cutoff # Never /\ token[t].minted < cutoff
NewCutoffAhead == now + TicksPerSecond

-----------------------------------------------------------------------------
(* Time *)

Minted == {t \in Tokens : token[t].minted # Never}

\* iat and exp are truncated to whole seconds by the JWT encoding.
WholeSeconds(time) == (time \div TicksPerSecond) * TicksPerSecond
IssuedAt(t)  == WholeSeconds(token[t].minted)
ExpiresAt(t) == WholeSeconds(token[t].minted + Lifetime)

\* jwt.decode raises ExpiredSignatureError from `exp` on.
Decodes(t) == t \in Minted /\ now < ExpiresAt(t)

\* purge_expired_revocations drops the row of t.
Dead(t) == ExpiresAt(t) < now

\* get_current_user: the token was minted at or before the cutoff.
CutOff(t, cutoff) == cutoff # Never /\ IssuedAt(t) <= cutoff

\* revoke_all_sessions: the cutoff that will be written.
NewCutoff == now

\* is_token_revoked
IsRevoked(t) == t \in revoked

Tick ==
  /\ now < MaxTime
  /\ now' = now + 1
  /\ UNCHANGED <<account, token, revoked, worker, loggedOut, killed>>

\* Worker w goes from an expected phase to its next record.
Goes(w, from, next) ==
  /\ worker[w].phase = from
  /\ worker' = [worker EXCEPT ![w] = next]

-----------------------------------------------------------------------------
(* Accounts *)

\* POST /auth/register and POST /admin/users: a fresh user id.
RegisterUser(u) ==
  /\ account[u].state = "absent"
  /\ account' = [account EXCEPT ![u].state = "active"]
  /\ UNCHANGED <<now, token, revoked, worker, loggedOut, killed>>

\* PATCH /admin/users/{id}
UpdateUserStatus(u, active) ==
  /\ account[u].state \in {"active", "inactive"}
  /\ account' = [account EXCEPT
                   ![u].state = IF active THEN "active" ELSE "inactive"]
  /\ UNCHANGED <<now, token, revoked, worker, loggedOut, killed>>

\* DELETE /admin/users/{id}.  Rows of revoked_tokens stay behind.
DeleteUser(u) ==
  /\ account[u].state \in {"active", "inactive"}
  /\ account' = [account EXCEPT ![u].state = "deleted"]
  /\ UNCHANGED <<now, token, revoked, worker, loggedOut, killed>>

\* POST /auth/login: the user row is read and the password verified, a slow
\* hash; the token is minted afterwards without reading the row again.
LoginVerified(w, u) ==
  /\ account[u].state = "active"
  /\ Goes(w, "idle", [Idle EXCEPT !.phase = "minting", !.user = u])
  /\ UNCHANGED <<now, account, token, revoked, loggedOut, killed>>

CreateAccessToken(w, t) ==
  /\ t \notin Minted
  /\ Goes(w, "minting", Idle)
  /\ token' = [token EXCEPT ![t] = [owner |-> worker[w].user, minted |-> now]]
  /\ UNCHANGED <<now, account, revoked, loggedOut, killed>>

-----------------------------------------------------------------------------
(* An authenticated request: get_current_user *)

\* read_token_claims; a token that does not decode is refused at once.
ReadTokenClaims(w, t) ==
  /\ Decodes(t)
  /\ Goes(w, "idle", [Idle EXCEPT !.phase = "decoded", !.token = t,
                                  !.wasLoggedOut = t \in loggedOut,
                                  !.wasKilled = t \in killed])
  /\ UNCHANGED <<now, account, token, revoked, loggedOut, killed>>

LookUpRevocation(w) ==
  /\ Goes(w, "decoded",
          [worker[w] EXCEPT
             !.phase = IF IsRevoked(worker[w].token) THEN "refused" ELSE "unrevoked"])
  /\ UNCHANGED <<now, account, token, revoked, loggedOut, killed>>

LookUpUser(w) ==
  LET t == worker[w].token
      a == account[token[t].owner]
      ok == a.state = "active" /\ ~CutOff(t, a.sessions_revoked_at)
  IN  /\ Goes(w, "unrevoked",
              [worker[w] EXCEPT !.phase = IF ok THEN "served" ELSE "refused"])
      /\ UNCHANGED <<now, account, token, revoked, loggedOut, killed>>

\* The answer is on its way, a success or an error; the worker is free again.
Respond(w) ==
  /\ worker[w].phase \in {"served", "refused", "conflict", "stale"}
  /\ worker' = [worker EXCEPT ![w] = Idle]
  /\ UNCHANGED <<now, account, token, revoked, loggedOut, killed>>

-----------------------------------------------------------------------------
(* POST /auth/logout, which checks the token but not the account *)

LogoutUser(w, t) ==
  /\ Decodes(t)
  /\ Goes(w, "idle", [Idle EXCEPT !.phase = "leaving", !.token = t])
  /\ UNCHANGED <<now, account, token, revoked, loggedOut, killed>>

\* revoke_token: the transaction deletes the dead rows, then looks for the
\* token's own.  It is there: only the deletion and an audit row are committed.
AlreadyRevoked(w) ==
  LET dead == {t \in revoked : Dead(t)}
  IN  /\ IsRevoked(worker[w].token) /\ worker[w].token \notin dead
      /\ Goes(w, "leaving", Idle)
      /\ revoked' = revoked \ dead
      /\ UNCHANGED <<now, account, token, loggedOut, killed>>

\* It is not: a row is added to the session.
NotYetRevoked(w) ==
  LET dead == {t \in revoked : Dead(t)}
  IN  /\ ~IsRevoked(worker[w].token) \/ worker[w].token \in dead
      /\ Goes(w, "leaving",
              [worker[w] EXCEPT !.phase = "recording", !.purge = dead])
      /\ UNCHANGED <<now, account, token, revoked, loggedOut, killed>>

CommitRevocation(w) ==
  LET t == worker[w].token
      kept == revoked \ worker[w].purge
  IN  /\ t \notin kept
      /\ Goes(w, "recording", Idle)
      /\ revoked' = kept \cup {t}
      /\ loggedOut' = loggedOut \cup {t}
      /\ UNCHANGED <<now, account, token, killed>>

\* Another logout of the same token has committed its row since the lookup:
\* the primary key refuses this one and the transaction is rolled back.
RevocationConflict(w) ==
  /\ worker[w].token \in revoked \ worker[w].purge
  /\ Goes(w, "recording", [Idle EXCEPT !.phase = "conflict"])
  /\ UNCHANGED <<now, account, token, revoked, loggedOut, killed>>

-----------------------------------------------------------------------------
(* POST /auth/revoke-all-sessions and POST /admin/users/{id}/revoke-sessions *)

\* The user is loaded and the cutoff computed.  The owner needs a token that
\* decodes, an administrator needs none of the user's: no guard on tokens.
RevokeAllSessions(w, u) ==
  /\ account[u].state \in {"active", "inactive"}
  /\ Goes(w, "idle", [Idle EXCEPT !.phase = "cutting", !.user = u,
                                  !.cutoff = NewCutoff])
  /\ UNCHANGED <<now, account, token, revoked, loggedOut, killed>>

\* The tokens of u that every revoke-all of u now on its way is to end: those
\* minted at or before the cutoff of the oldest of them.
ToBeEnded(u) ==
  {t \in Minted :
     /\ token[t].owner = u
     /\ \A w \in Workers :
          worker[w].phase = "cutting" /\ worker[w].user = u
            => token[t].minted <= worker[w].cutoff}

\* The last commit wins, whichever cutoff is the later one.
CommitCutoff(w) ==
  LET u == worker[w].user
      c == worker[w].cutoff
  IN  /\ Goes(w, "cutting", Idle)
      /\ account[u].state \in {"active", "inactive"}
      /\ account' = [account EXCEPT ![u].sessions_revoked_at = c]
      /\ killed' = killed \cup ToBeEnded(u)
      /\ UNCHANGED <<now, token, revoked, loggedOut>>

\* The UPDATE matches no row: StaleDataError.
UserGone(w) ==
  /\ Goes(w, "cutting", [Idle EXCEPT !.phase = "stale"])
  /\ account[worker[w].user].state = "deleted"
  /\ UNCHANGED <<now, account, token, revoked, loggedOut, killed>>

-----------------------------------------------------------------------------

Init ==
  /\ now = 0
  /\ account = [u \in Users |-> [state |-> "absent",
                                 sessions_revoked_at |-> Never]]
  /\ token = [t \in Tokens |-> [owner |-> None, minted |-> Never]]
  /\ revoked = {}
  /\ worker = [w \in Workers |-> Idle]
  /\ loggedOut = {}
  /\ killed = {}

Next ==
  \/ Tick
  \/ \E u \in Users :
       \/ RegisterUser(u)
       \/ \E active \in BOOLEAN : UpdateUserStatus(u, active)
       \/ DeleteUser(u)
  \/ \E w \in Workers :
       \/ \E u \in Users : LoginVerified(w, u) \/ RevokeAllSessions(w, u)
       \/ \E t \in Tokens :
            CreateAccessToken(w, t) \/ ReadTokenClaims(w, t) \/ LogoutUser(w, t)
       \/ LookUpRevocation(w)
       \/ LookUpUser(w)
       \/ Respond(w)
       \/ AlreadyRevoked(w)
       \/ NotYetRevoked(w)
       \/ CommitRevocation(w)
       \/ RevocationConflict(w)
       \/ CommitCutoff(w)
       \/ UserGone(w)

Spec == Init /\ [][Next]_vars

-----------------------------------------------------------------------------
(* Properties *)

\* Rows, tokens and requests have their shape; no time lies ahead of MaxTime.
TypeOK ==
  /\ now \in 0..MaxTime
  /\ account \in [Users -> Account]
  /\ token \in [Tokens -> Token]
  /\ revoked \subseteq Tokens
  /\ worker \in [Workers -> Worker]
  /\ loggedOut \subseteq Tokens
  /\ killed \subseteq Tokens

\* The row of a token that was logged out is there until the token has expired
\* by itself, although any other logout may purge rows at any time, and an
\* open transaction may hold a purge it computed earlier.
RevocationOutlivesToken ==
  \A t \in loggedOut \ revoked : ExpiresAt(t) <= now

\* A request that presents a token after its logout is not served while the
\* token is valid.  (A request that decodes a valid token and reads the
\* revocation row only after the expiry may find the row already purged.)
LogoutHolds ==
  [][\A w \in Workers :
       worker'[w].phase = "served" /\ worker[w].phase # "served"
         /\ worker[w].wasLoggedOut
       => ExpiresAt(worker[w].token) <= now]_vars

\* Any number of revoke-alls of one account may overlap, and the one with the
\* older cutoff may commit last.  Still, a token that had been minted when the
\* oldest of those on their way computed its cutoff is ended by the first of
\* them to commit, and for good: a request that presents it afterwards is never
\* served, in whatever order the others commit and whatever is revoked,
\* deactivated or reactivated later.
KilledStaysKilled ==
  \A w \in Workers : worker[w].phase = "served" => ~worker[w].wasKilled

-----------------------------------------------------------------------------
(* What the code and its comments say and overlapping requests break *)

\* "Every token minted at or before this instant is rejected" (models.py, of
\* sessions_revoked_at), so the cutoff that a caller was told must not be taken
\* back.  Of two revoke-alls the one that computed the older cutoff may commit
\* last, and the tokens minted between the two cutoffs are valid again.
CutoffNeverGoesBack ==
  [][\A u \in Users :
       account[u].sessions_revoked_at <= account'[u].sessions_revoked_at]_vars

\* "Idempotent: revoking twice is still 200" (logout_user): a logout is never
\* answered with a database error.
LogoutIdempotent == \A w \in Workers : worker[w].phase # "conflict"
=============================================================================
