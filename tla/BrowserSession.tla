--------------------------- MODULE BrowserSession ---------------------------
(***************************************************************************)
(* Browser sessions (app/browser_sessions): a login verifies a password    *)
(* outside any transaction and then inserts a session, every request       *)
(* slides it, and logout, limits, expiry, security changes and the cleanup *)
(* worker end it.                                                          *)
(*                                                                         *)
(* Each action is one committed transaction.  A management request slides  *)
(* the session it acts through and then does its work: that is Use and the *)
(* action that follows it.  Sessions are numbered as they are inserted.    *)
(***************************************************************************)
EXTENDS Integers, FiniteSets

CONSTANTS
    NumSessions,   \* sessions ever created (bound)
    Users,
    Addresses,     \* e-mail addresses a user may have
    Logins,        \* concurrent login requests
    None,
    Ttl, Slide, AbsoluteTtl,  \* ttl_seconds, slide_seconds, absolute_ttl_seconds, in ticks
    MaxSessions,   \* max_sessions_per_user
    BatchSize,     \* cleanup_batch_size
    MaxPasswords,  \* passwords set per user (bound)
    MaxNow         \* the clock stops here (bound)

Sessions == 1..NumSessions

ASSUME BrowserSessionAssumption ==
    /\ NumSessions \in Nat
    /\ None \notin Users /\ None \notin Nat
    /\ Slide \in Nat \ {0} /\ Ttl \in Nat /\ AbsoluteTtl \in Nat
    /\ Slide <= Ttl /\ Ttl <= AbsoluteTtl
    /\ MaxSessions \in Nat \ {0} /\ BatchSize \in Nat \ {0}
    /\ MaxPasswords \in Nat /\ MaxNow \in Nat \ {0}

VARIABLES
    session,   \* browser_session, and of a row: when a request was last authenticated by
               \* it, and the password it was opened with
    hash,      \* hashed_password: of which password, and whether its policy is outdated
    address,   \* the current address
    account,   \* the user: active with a verified address, or not, or deleted
    invalidBefore,  \* sessions_invalid_before; 0 is NULL
    now,
    login,     \* what each login carries while it verifies a password
    cutoff,    \* of the running cleanup pass; None between passes
    ended      \* history: sessions that were revoked, removed or past a deadline

user == <<hash, address, account, invalidBefore>>
vars == <<session, user, now, login, cutoff, ended>>

Time == 1..MaxNow
Hashes == [password : 0..MaxPasswords, due : BOOLEAN]
\* The columns; used and opened are history.
Rows == [row : {"open", "revoked"}, owner : Users, created : Time, expires : Nat,
         lastSeen : Time, used : Time, opened : 0..MaxPasswords]
Absent == [row |-> "absent"]
Deleted == [row |-> "deleted"]
Idle == [pc |-> "idle", user |-> None, hash |-> None, address |-> None]
Least(a, b) == IF a <= b THEN a ELSE b
Deadline(s) == session[s].created + AbsoluteTtl  \* absolute_expires_at
Existing == {s \in Sessions : session[s].row \in {"open", "revoked"}}
SessionsOf(U) == {s \in Existing : session[s].owner \in U}

Init ==
    /\ session = [s \in Sessions |-> Absent]
    /\ hash \in [Users -> [password : {0}, due : BOOLEAN]]
    /\ address \in [Users -> Addresses]
    /\ account \in [Users -> {"eligible", "ineligible"}]
    /\ invalidBefore = [u \in Users |-> 0]
    /\ now = 1
    /\ login = [l \in Logins |-> Idle]
    /\ cutoff = None
    /\ ended = {}

-----------------------------------------------------------------------------
(* Validity.                                                               *)

\* Mutant: the idle deadline is not looked at.
ValidAnytime(s) == session[s].row = "open" /\ now < Deadline(s)

\* load_session, and the sessions the limit counts.
Valid(s) == session[s].row = "open" /\ now < session[s].expires /\ now < Deadline(s)

\* _resolve_browser_user_context.
Usable(s) ==
    /\ Valid(s)
    /\ account[session[s].owner] = "eligible"
    /\ invalidBefore[session[s].owner] < session[s].created

Revoke(S) ==
    LET open == {s \in S : session[s].row = "open"}
    IN  /\ session' = [s \in Sessions |-> IF s \in open THEN [session[s] EXCEPT !.row = "revoked"]
                                         ELSE session[s]]
        /\ ended' = ended \cup open

Delete(S) ==
    /\ session' = [s \in Sessions |-> IF s \in S THEN Deleted ELSE session[s]]
    /\ ended' = ended \cup S

-----------------------------------------------------------------------------
(* Login.                                                                  *)

\* _get_identity_by_email and the password: a wrong one, or a user who may not log
\* in, ends the request.
BeginLogin(l, u) ==
    /\ login[l] = Idle
    /\ account[u] = "eligible"
    /\ login' = [login EXCEPT ![l] = [pc |-> "verified", user |-> u, hash |-> hash[u],
                                      address |-> address[u]]]
    /\ UNCHANGED <<session, user, now, cutoff, ended>>

\* Mutant: the hash that was verified is not compared.
LoginStateEligible(l) ==
    /\ account[login[l].user] = "eligible"
    /\ address[login[l].user] = login[l].address

\* _lock_if_login_state_unchanged.
LoginStateUnchanged(l) ==
    /\ account[login[l].user] = "eligible"
    /\ address[login[l].user] = login[l].address
    /\ hash[login[l].user] = login[l].hash

\* Mutants: the limit does not count the new session; any of the others are kept.
KeptBesides(limit, candidates, K) == Cardinality(K) = Least(limit, Cardinality(candidates))
KeptAny(limit, candidates, K) == Cardinality(K) = Least(limit - 1, Cardinality(candidates))

\* K: the newest of the user's other valid sessions, one less than the limit.
Kept(limit, candidates, K) ==
    /\ K \subseteq candidates
    /\ Cardinality(K) = Least(limit - 1, Cardinality(candidates))
    /\ \A k \in K, e \in candidates \ K : session[e].created <= session[k].created

Opened(u, password) ==
    [row |-> "open", owner |-> u, created |-> now, expires |-> Least(now + Ttl, now + AbsoluteTtl),
     lastSeen |-> now, used |-> now, opened |-> password]

\* The hash is upgraded if its policy is outdated, the session is inserted, and the
\* oldest valid sessions beyond the limit are deleted.
Login(l, s) ==
    LET u == login[l].user
        others == {t \in SessionsOf({u}) : Valid(t)}
    IN  \E K \in SUBSET others :
        /\ login[l].pc = "verified"
        /\ LoginStateUnchanged(l)
        /\ session[s].row = "absent" /\ \A t \in Sessions : t < s => session[t].row # "absent"
        /\ Kept(MaxSessions, others, K)
        /\ hash' = [hash EXCEPT ![u].due = FALSE]
        /\ session' = [t \in Sessions |->
               IF t = s THEN Opened(u, login[l].hash.password)
               ELSE IF t \in others \ K THEN Deleted ELSE session[t]]
        /\ ended' = ended \cup (others \ K)
        /\ login' = [login EXCEPT ![l] = Idle]
        /\ UNCHANGED <<address, account, invalidBefore, now, cutoff>>

\* The login state changed, or the transaction fails.
LoginFails(l) ==
    /\ login[l] # Idle
    /\ login' = [login EXCEPT ![l] = Idle]
    /\ UNCHANGED <<session, user, now, cutoff, ended>>

-----------------------------------------------------------------------------
(* Requests.                                                               *)

\* Mutant: the absolute deadline does not cap.
SlidUncapped(s) ==
    IF session[s].expires - now <= Slide /\ now + Ttl > session[s].expires
    THEN now + Ttl ELSE session[s].expires

\* expires_at after slide_session.
Slid(s) ==
    LET patch == Least(now + Ttl, Deadline(s))
    IN  IF session[s].expires - now <= Slide /\ patch > session[s].expires
        THEN patch ELSE session[s].expires

\* The row after slide_session.
Touched(s) ==
    [session[s] EXCEPT
        !.expires = Slid(s),
        !.lastSeen = IF Slid(s) > session[s].expires \/ now - session[s].lastSeen >= Slide
                     THEN now ELSE session[s].lastSeen,
        !.used = now]

\* A request is authenticated by s.
Use(s) ==
    /\ Usable(s)
    /\ session' = [session EXCEPT ![s] = Touched(s)]
    /\ UNCHANGED <<user, now, login, cutoff, ended>>

\* Scope "current"; the row need not be valid any more.
Logout(s) ==
    /\ Revoke({s})
    /\ UNCHANGED <<user, now, login, cutoff>>

\* Scopes "others" and "all": by a valid session, whatever became of its user.
LogoutOthers(s) ==
    /\ Valid(s)
    /\ Revoke(SessionsOf({session[s].owner}) \ {s})
    /\ UNCHANGED <<user, now, login, cutoff>>

LogoutAll(s) ==
    /\ Valid(s)
    /\ Revoke(SessionsOf({session[s].owner}))
    /\ UNCHANGED <<user, now, login, cutoff>>

\* A user ends another session of theirs.
RevokeOne(s, t) ==
    /\ Usable(s) /\ s # t /\ t \in SessionsOf({session[s].owner})
    /\ Revoke({t})
    /\ UNCHANGED <<user, now, login, cutoff>>

-----------------------------------------------------------------------------
(* Security changes.                                                       *)

\* revoke_user_security_sessions, for one user, an organization's, or all.
Secure(U) ==
    /\ Revoke(SessionsOf(U))
    /\ invalidBefore' = [u \in Users |-> IF u \in U THEN now ELSE invalidBefore[u]]

\* By a link, which also verifies the address, or by the user; the policy of the new
\* hash is current.
ChangePassword(u, a) ==
    /\ account[u] # "deleted" /\ a \in {account[u], "eligible"}
    /\ hash[u].password < MaxPasswords
    /\ hash' = [hash EXCEPT ![u] = [password |-> hash[u].password + 1, due |-> FALSE]]
    /\ account' = [account EXCEPT ![u] = a]
    /\ Secure({u})
    /\ UNCHANGED <<address, now, login, cutoff>>

\* Mutant: the sessions are left to themselves.
ChangeUserAlone(u, a, m) ==
    /\ account[u] # "deleted" /\ a # "deleted"
    /\ account' = [account EXCEPT ![u] = a]
    /\ address' = [address EXCEPT ![u] = m]
    /\ UNCHANGED <<session, ended, hash, invalidBefore, now, login, cutoff>>

\* An update of the user, or a confirmed address: (de)activation, verification, its
\* withdrawal, another address, another role.
ChangeUser(u, a, m) ==
    /\ account[u] # "deleted" /\ a # "deleted"
    /\ account' = [account EXCEPT ![u] = a]
    /\ address' = [address EXCEPT ![u] = m]
    /\ Secure({u})
    /\ UNCHANGED <<hash, now, login, cutoff>>

RevokeUsers(U) ==
    /\ Secure(U)
    /\ UNCHANGED <<hash, address, account, now, login, cutoff>>

\* Of a user, of an organization's users, of all.
DeleteSessions(U) ==
    /\ Delete(SessionsOf(U))
    /\ UNCHANGED <<user, now, login, cutoff>>

DeleteUser(u) ==
    /\ account[u] # "deleted"
    /\ account' = [account EXCEPT ![u] = "deleted"]
    /\ Delete(SessionsOf({u}))
    /\ UNCHANGED <<hash, address, invalidBefore, now, login, cutoff>>

-----------------------------------------------------------------------------
(* The cleanup worker.                                                     *)

\* Mutants: a deadline that is not over; revoked rows wait for their deadline.
TerminalSoon(s, limit) ==
    /\ s \in Existing
    /\ session[s].row = "revoked" \/ session[s].expires <= limit + 1 \/ Deadline(s) <= limit
TerminalByTime(s, limit) ==
    s \in Existing /\ (session[s].expires <= limit \/ Deadline(s) <= limit)

Terminal(s, limit) ==
    /\ s \in Existing
    /\ session[s].row = "revoked" \/ session[s].expires <= limit \/ Deadline(s) <= limit

\* One page of the terminal rows, those that expire first.
Pages(limit) ==
    LET candidates == {s \in Sessions : Terminal(s, limit)}
    IN  {B \in SUBSET candidates :
            /\ Cardinality(B) = Least(BatchSize, Cardinality(candidates))
            /\ \A b \in B, c \in candidates \ B : session[b].expires <= session[c].expires}

StartPass ==
    /\ cutoff = None
    /\ cutoff' = now
    /\ UNCHANGED <<session, user, now, login, ended>>

\* One cleanup_terminal_sessions of the pass; a full page asks for another one.
CleanupBatch ==
    /\ cutoff # None
    /\ \E B \in Pages(cutoff) :
        /\ Delete(B)
        /\ cutoff' = IF Cardinality(B) = BatchSize THEN cutoff ELSE None
    /\ UNCHANGED <<user, now, login>>

\* An operator deletes the inactive sessions, one page of them.
DeleteInactive ==
    /\ \E B \in Pages(now) : Delete(B)
    /\ UNCHANGED <<user, now, login, cutoff>>

\* The transaction fails, or the worker stops: the pass is over.
CleanupFails ==
    /\ cutoff # None
    /\ cutoff' = None
    /\ UNCHANGED <<session, user, now, login, ended>>

Tick ==
    /\ now < MaxNow
    /\ now' = now + 1
    /\ ended' = ended \cup {s \in Existing : session[s].expires <= now' \/ Deadline(s) <= now'}
    /\ UNCHANGED <<session, user, login, cutoff>>

-----------------------------------------------------------------------------
Browse ==
    \/ \E l \in Logins : \/ \E u \in Users : BeginLogin(l, u)
                         \/ \E s \in Sessions : Login(l, s)
                         \/ LoginFails(l)
    \/ \E s \in Sessions : \/ Use(s) \/ Logout(s) \/ LogoutOthers(s) \/ LogoutAll(s)
                           \/ \E t \in Sessions : RevokeOne(s, t)

Administer ==
    \/ \E u \in Users : \/ \E a \in {"eligible", "ineligible"} :
                             \/ ChangePassword(u, a)
                             \/ \E m \in Addresses : ChangeUser(u, a, m)
                        \/ DeleteUser(u)
    \/ \E U \in SUBSET Users : RevokeUsers(U) \/ DeleteSessions(U)
    \/ DeleteInactive

Next ==
    \/ Browse
    \/ Administer
    \/ StartPass \/ CleanupBatch \/ CleanupFails
    \/ Tick

Spec == Init /\ [][Next]_vars

-----------------------------------------------------------------------------
(* Properties.                                                             *)

\* Every variable has its type, and no session outlives its absolute deadline.
TypeOK ==
    /\ session \in [Sessions -> {Absent, Deleted} \cup Rows]
    /\ hash \in [Users -> Hashes]
    /\ address \in [Users -> Addresses]
    /\ account \in [Users -> {"eligible", "ineligible", "deleted"}]
    /\ invalidBefore \in [Users -> 0..MaxNow]
    /\ now \in Time
    /\ login \in [Logins -> {Idle} \cup [pc : {"verified"}, user : Users, hash : Hashes,
                                         address : Addresses]]
    /\ cutoff \in Time \cup {None}
    /\ ended \subseteq Sessions
    /\ \A s \in Existing : session[s].expires <= Deadline(s)

\* A session that was logged out, revoked, displaced, deleted or past a deadline
\* never authenticates again: no slide brings it back.
EndedSessionsStayEnded == \A s \in ended : ~Usable(s)

\* Whoever acts through a session has given the user's current password: a login that
\* verified an older one does not come through, and a change ends the sessions that
\* were opened with the older one, the login that commits at the same tick included.
UsableSessionsAreCurrent ==
    \A s \in Sessions : Usable(s) => session[s].opened = hash[session[s].owner].password

\* docs/reference/settings.md:181: a limit of concurrent valid sessions per user.
SessionsAreLimited ==
    \A u \in Users : Cardinality({s \in SessionsOf({u}) : Valid(s)}) <= MaxSessions

\* A session in use does not time out before slide_seconds without a request, unless
\* its absolute deadline comes first, and one out of use does within ttl_seconds;
\* last_seen_at lags by less than slide_seconds.
IdleSessionsTimeOut ==
    \A s \in Existing :
        /\ Least(session[s].used + Slide, Deadline(s)) <= session[s].expires
        /\ session[s].expires <= session[s].used + Ttl
        /\ session[s].used - session[s].lastSeen < Slide

\* The limit is kept, and a valid session is deleted only by an administrator or because
\* as many sessions as the limit allows are at least as new: neither a login that races
\* another one nor a cleanup pass with an old cutoff takes it.
OldestSessionsGiveWay ==
    [][SessionsAreLimited' /\ \A s \in Sessions : Valid(s) /\ session'[s] = Deleted =>
        \/ \E U \in SUBSET Users : DeleteSessions(U)
        \/ \E u \in Users : DeleteUser(u)
        \/ Cardinality({t \in Existing' : Valid(t)' /\ session'[t].owner = session[s].owner
                                         /\ session[s].created <= session'[t].created})
             = MaxSessions]_vars

\* When a cleanup pass finds nothing more to do, every session that is left was valid
\* when the pass began, also if sessions ended while it was under way.
PassesAreComplete ==
    [][CleanupBatch /\ cutoff' = None =>
        \A s \in Existing' : /\ session'[s].row = "open"
                             /\ cutoff < session'[s].expires /\ cutoff < Deadline(s)']_vars

\* What the sessions look like to PasswordSessions: the live ones are those that a
\* request can act through.
Standing ==
    [s \in Sessions |->
        IF Usable(s) THEN [standing |-> "live", user |-> session[s].owner,
                           password |-> session[s].opened]
        ELSE IF session[s].row = "absent" THEN [standing |-> "none"] ELSE [standing |-> "over"]]
Password == [u \in Users |-> hash[u].password]
Acting == INSTANCE PasswordSessions WITH Limit <- MaxSessions, session <- Standing,
                                         password <- Password

\* Sessions implement what PasswordSessions promises: also one that has not ended in the
\* table, but whose user was deactivated or secured, does not act again later, and one
\* that is still listed but cannot act does not cost another one its place.
ImplementsSessions == Acting!Spec
=============================================================================
