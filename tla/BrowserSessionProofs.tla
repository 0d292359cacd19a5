------------------------- MODULE BrowserSessionProofs -------------------------
(* Theorems about BrowserSession, for every value of its constants.        *)
EXTENDS BrowserSession, FiniteSetTheorems, TLAPS

-----------------------------------------------------------------------------
(* The type invariant in parts, and the inductive invariant.               *)

UserOK ==
    /\ hash \in [Users -> Hashes]
    /\ address \in [Users -> Addresses]
    /\ account \in [Users -> {"eligible", "ineligible", "deleted"}]
    /\ invalidBefore \in [Users -> 0..MaxNow]
    /\ now \in Time

SessionOK ==
    /\ session \in [Sessions -> {Absent, Deleted} \cup Rows]
    /\ ended \subseteq Sessions

WorkOK ==
    /\ login \in [Logins -> {Idle} \cup [pc : {"verified"}, user : Users, hash : Hashes,
                                         address : Addresses]]
    /\ cutoff \in Time \cup {None}

\* TypeOK is the conjunction of its parts and of the cap on the expiry.
LEMMA TypeSplit ==
    TypeOK <=> UserOK /\ SessionOK /\ WorkOK /\ \A s \in Existing : session[s].expires <= Deadline(s)
  BY DEF TypeOK, UserOK, SessionOK, WorkOK

\* The times of a row are in order, and an open one has the current password.
Sound(s) ==
    /\ session[s].created <= session[s].used /\ session[s].used <= now
    /\ session[s].row = "open" => session[s].opened = hash[session[s].owner].password

\* IdleSessionsTimeOut, of one row, with the cap.
Timely(s) ==
    /\ session[s].expires <= Deadline(s)
    /\ Least(session[s].used + Slide, Deadline(s)) <= session[s].expires
    /\ session[s].expires <= session[s].used + Ttl
    /\ session[s].used - session[s].lastSeen < Slide

\* What has ended is a row, or was one, and is not valid; a pass has begun.
SessionInv ==
    /\ UserOK /\ SessionOK /\ WorkOK
    /\ \A s \in Existing : Sound(s) /\ Timely(s)
    /\ \A s \in ended : session[s].row # "absent" /\ ~Valid(s)
    /\ cutoff # None => cutoff <= now

\* The invariant implies the types and the cap.
LEMMA InvTyped == SessionInv => TypeOK
  BY TypeSplit DEF SessionInv, Timely

-----------------------------------------------------------------------------
(* What a step can do to a row.                                            *)

Keeps(s) == session'[s] = session[s]
Ends(s) ==
    \/ session'[s] = Deleted /\ s \in Existing
    \/ session[s].row = "open" /\ session'[s] = [session[s] EXCEPT !.row = "revoked"]

\* A row that exists has all its columns.
LEMMA RowTyped ==
    ASSUME SessionOK, NEW s \in Sessions
    PROVE  /\ s \in Existing <=> session[s] \in Rows
           /\ session[s].row = "open" => s \in Existing
           /\ session[s].row \in {"absent", "open", "revoked", "deleted"}
  BY DEF SessionOK, Existing, Rows, Absent, Deleted

\* Rows that are revoked end, and the others stay as they are.
LEMMA RevokeEnds ==
    ASSUME SessionOK, NEW S \in SUBSET Sessions, Revoke(S)
    PROVE  /\ SessionOK'
           /\ \A s \in Sessions : Keeps(s) \/ Ends(s)
           /\ \A s \in S : session'[s].row # "open"
           /\ \A s \in Sessions : session'[s] = Deleted => Keeps(s)
           /\ \A s \in ended' \ ended : session[s].row = "open" /\ session'[s].row = "revoked"
           /\ ended \subseteq ended'
  <1>1. PICK open \in SUBSET S :
           /\ open = {s \in S : session[s].row = "open"}
           /\ session' = [s \in Sessions |-> IF s \in open THEN [session[s] EXCEPT !.row = "revoked"]
                                            ELSE session[s]]
           /\ ended' = ended \cup open
    BY DEF Revoke
  <1>2. \A s \in open : /\ session[s] \in Rows
                        /\ [session[s] EXCEPT !.row = "revoked"] \in Rows
                        /\ [session[s] EXCEPT !.row = "revoked"].row = "revoked"
    BY <1>1, RowTyped DEF Rows
  <1>3. SessionOK'
    BY <1>1, <1>2 DEF SessionOK
  <1>4. \A s \in Sessions : Keeps(s) \/ Ends(s)
    BY <1>1 DEF Keeps, Ends
  <1>5. \A s \in S : session'[s].row # "open"
    BY <1>1, <1>2
  <1>6. \A s \in ended' \ ended : session[s].row = "open" /\ session'[s].row = "revoked"
    BY <1>1, <1>2
  <1>7. \A s \in Sessions : session'[s] = Deleted => Keeps(s)
    BY <1>1, <1>2 DEF Keeps, Deleted
  <1>8. QED
    BY <1>1, <1>3, <1>4, <1>5, <1>6, <1>7

\* Rows that are deleted end, and the others stay as they are.
LEMMA DeleteEnds ==
    ASSUME SessionOK, NEW S \in SUBSET Existing, Delete(S)
    PROVE  /\ SessionOK'
           /\ \A s \in Sessions : IF s \in S THEN session'[s] = Deleted ELSE Keeps(s)
           /\ \A s \in Sessions : Keeps(s) \/ Ends(s)
           /\ \A s \in ended' \ ended : session'[s] = Deleted
           /\ ended \subseteq ended'
  BY DEF SessionOK, Delete, Keeps, Ends, Existing

-----------------------------------------------------------------------------
(* The steps that only end sessions, or leave them alone.                  *)

\* Nothing that decides whether the sessions of u are usable changes.
Undisturbed(u) ==
    /\ hash'[u].password = hash[u].password
    /\ account'[u] = account[u] /\ invalidBefore'[u] = invalidBefore[u]

\* The clock stands, sessions stay or end, what is recorded as ended has ended, and
\* a user who is disturbed has no open session left.
Ending ==
    /\ now' = now
    /\ UserOK' /\ SessionOK'
    /\ \A s \in Sessions : Keeps(s) \/ Ends(s)
    /\ \A s \in ended' : s \in ended \/ session'[s].row \in {"revoked", "deleted"}
    /\ \A s \in Sessions : session'[s].row = "open" => Undisturbed(session[s].owner)

\* Such a step keeps what SessionInv says of the sessions, and makes none valid.
LEMMA EndingSound ==
    ASSUME SessionInv, Ending
    PROVE  /\ \A s \in Existing' : Sound(s)' /\ Timely(s)'
           /\ \A s \in ended' : session'[s].row # "absent" /\ ~Valid(s)'
           /\ \A s \in Sessions : Valid(s)' => Valid(s) /\ Keeps(s)
  <1>1. ASSUME NEW s \in Sessions
        PROVE  /\ s \in Existing' => Sound(s)' /\ Timely(s)'
               /\ Valid(s)' => Valid(s) /\ Keeps(s)
               /\ session'[s].row = "absent" => session[s].row = "absent"
    <2>1. CASE Keeps(s)
      BY <1>1, <2>1 DEF SessionInv, Ending, Undisturbed, Keeps, Existing, Sound, Timely,
                        Deadline, Valid
    <2>2. CASE session'[s] = Deleted
      BY <1>1, <2>2 DEF Deleted, Existing, Valid
    <2>3. CASE session[s].row = "open" /\ session'[s] = [session[s] EXCEPT !.row = "revoked"]
      <3>1. s \in Existing /\ session[s] \in Rows
        BY <1>1, <2>3, RowTyped DEF SessionInv
      <3>2. /\ session'[s].row = "revoked" /\ session'[s].owner = session[s].owner
            /\ session'[s].created = session[s].created /\ session'[s].expires = session[s].expires
            /\ session'[s].used = session[s].used /\ session'[s].lastSeen = session[s].lastSeen
        BY <2>3, <3>1 DEF Rows
      <3>3. QED
        BY <1>1, <2>3, <3>1, <3>2 DEF SessionInv, Ending, Sound, Timely, Deadline, Valid
    <2>4. QED
      BY <1>1, <2>1, <2>2, <2>3 DEF Ending, Ends
  <1>2. ASSUME NEW s \in ended'
        PROVE  session'[s].row # "absent" /\ ~Valid(s)'
    <2>1. s \in Sessions
      BY DEF Ending, SessionOK
    <2>2. CASE s \in ended
      BY <1>1, <2>1, <2>2 DEF SessionInv
    <2>3. CASE session'[s].row \in {"revoked", "deleted"}
      BY <2>3 DEF Valid
    <2>4. QED
      BY <2>2, <2>3 DEF Ending
  <1>3. \A s \in Existing' : s \in Sessions
    BY DEF Existing
  <1>4. QED
    BY <1>1, <1>2, <1>3

\* Logouts and revocations by users.
LEMMA LogoutEnds ==
    ASSUME SessionInv, NEW S \in SUBSET Sessions, Revoke(S), UNCHANGED <<user, now, login, cutoff>>
    PROVE  Ending /\ WorkOK'
  <1>1. SessionOK' /\ \A s \in Sessions : Keeps(s) \/ Ends(s)
    BY RevokeEnds DEF SessionInv
  <1>2. \A s \in ended' : s \in ended \/ session'[s].row \in {"revoked", "deleted"}
    BY RevokeEnds DEF SessionInv
  <1>3. UserOK' /\ WorkOK'
    BY DEF SessionInv, UserOK, WorkOK, user
  <1>4. QED
    BY <1>1, <1>2, <1>3 DEF Ending, Undisturbed, user

\* Security changes of users.
LEMMA SecureEnds ==
    ASSUME SessionInv, NEW U \in SUBSET Users, Secure(U), UNCHANGED <<now, login, cutoff>>,
           hash' \in [Users -> Hashes], address' \in [Users -> Addresses],
           account' \in [Users -> {"eligible", "ineligible", "deleted"}],
           \A u \in Users \ U : hash'[u] = hash[u] /\ account'[u] = account[u]
    PROVE  Ending /\ WorkOK'
  <1>1. SessionsOf(U) \in SUBSET Sessions /\ Revoke(SessionsOf(U))
    BY DEF Secure, SessionsOf, Existing
  <1>2. SessionOK' /\ \A s \in Sessions : Keeps(s) \/ Ends(s)
    BY <1>1, RevokeEnds DEF SessionInv
  <1>3. \A s \in ended' : s \in ended \/ session'[s].row \in {"revoked", "deleted"}
    BY <1>1, RevokeEnds DEF SessionInv
  <1>4. invalidBefore' \in [Users -> 0..MaxNow] /\ now' \in Time
    BY DEF Secure, SessionInv, UserOK, Time
  <1>5. UserOK' /\ WorkOK'
    BY <1>4 DEF SessionInv, UserOK, WorkOK
  <1>6. ASSUME NEW s \in Sessions, session'[s].row = "open"
        PROVE  Undisturbed(session[s].owner)
    <2>1. session[s] = session'[s]
      <3>1. session'[s] # Deleted
        BY <1>6 DEF Deleted
      <3>2. session[s].row = "open" => [session[s] EXCEPT !.row = "revoked"].row = "revoked"
        BY <1>6, RowTyped DEF SessionInv, Rows
      <3>3. QED
        BY <1>2, <1>6, <3>1, <3>2 DEF Keeps, Ends
    <2>2. s \in Existing /\ session[s] \in Rows /\ s \notin SessionsOf(U)
      BY <1>1, <1>6, <2>1, RevokeEnds, RowTyped DEF SessionInv
    <2>3. session[s].owner \in Users \ U
      BY <2>2 DEF SessionsOf, Rows
    <2>4. QED
      BY <2>3 DEF Secure, Undisturbed
  <1>7. QED
    BY <1>2, <1>3, <1>5, <1>6 DEF Ending

\* Deletions, with or without the user, and by the cleanup.
LEMMA DeletionEnds ==
    ASSUME SessionInv, NEW S \in SUBSET Existing, Delete(S),
           UNCHANGED <<hash, address, invalidBefore, now, login>>,
           account' \in [Users -> {"eligible", "ineligible", "deleted"}],
           \A s \in Existing \ S : account'[session[s].owner] = account[session[s].owner],
           cutoff' \in {cutoff, None}
    PROVE  Ending /\ WorkOK'
  <1>1. SessionOK' /\ \A s \in Sessions : Keeps(s) \/ Ends(s)
    BY DeleteEnds DEF SessionInv
  <1>2. \A s \in ended' : s \in ended \/ session'[s].row \in {"revoked", "deleted"}
    BY DeleteEnds DEF SessionInv, Deleted
  <1>3. UserOK' /\ WorkOK'
    BY DEF SessionInv, UserOK, WorkOK
  <1>4. ASSUME NEW s \in Sessions, session'[s].row = "open"
        PROVE  Undisturbed(session[s].owner)
    <2>1. s \notin S /\ Keeps(s)
      BY <1>4, DeleteEnds DEF SessionInv, Deleted
    <2>2. s \in Existing
      BY <1>4, <2>1 DEF Keeps, Existing
    <2>3. QED
      BY <2>1, <2>2 DEF Undisturbed
  <1>5. QED
    BY <1>1, <1>2, <1>3, <1>4 DEF Ending

\* Steps that leave the sessions and users alone.
LEMMA IdleEnds ==
    ASSUME SessionInv, UNCHANGED <<session, user, now, ended>>
    PROVE  Ending
  BY DEF SessionInv, Ending, Undisturbed, Keeps, UserOK, SessionOK, user

\* Every step is one of those, a request, a login, or a tick.
LEMMA StepKinds ==
    ASSUME SessionInv, [Next]_vars
    PROVE  \/ Ending /\ WorkOK' /\ (cutoff' # None => cutoff' <= now')
           \/ \E s \in Sessions : Use(s)
           \/ \E l \in Logins, s \in Sessions : Login(l, s)
           \/ Tick
  <1> DEFINE Idles == Ending /\ WorkOK' /\ (cutoff' # None => cutoff' <= now')
  <1>0. UserOK /\ SessionOK /\ WorkOK /\ (cutoff # None => cutoff <= now)
    BY DEF SessionInv
  <1>1. ASSUME NEW S \in SUBSET Sessions, Revoke(S), UNCHANGED <<user, now, login, cutoff>>
        PROVE  Idles
    BY <1>0, <1>1, LogoutEnds
  <1>2. ASSUME NEW s \in Sessions,
               Logout(s) \/ LogoutOthers(s) \/ LogoutAll(s) \/ \E t \in Sessions : RevokeOne(s, t)
        PROVE  Idles
    <2>1. PICK S \in SUBSET Sessions : Revoke(S) /\ UNCHANGED <<user, now, login, cutoff>>
      <3>1. SessionsOf({session[s].owner}) \in SUBSET Sessions
        BY DEF SessionsOf, Existing
      <3>2. CASE Logout(s)
        BY <3>2 DEF Logout
      <3>3. CASE LogoutOthers(s)
        BY <3>1, <3>3 DEF LogoutOthers
      <3>4. CASE LogoutAll(s)
        BY <3>1, <3>4 DEF LogoutAll
      <3>5. CASE \E t \in Sessions : RevokeOne(s, t)
        BY <3>5 DEF RevokeOne
      <3>6. QED
        BY <1>2, <3>2, <3>3, <3>4, <3>5
    <2>2. QED
      BY <1>1, <2>1
  <1>3. ASSUME NEW U \in SUBSET Users, Secure(U), UNCHANGED <<now, login, cutoff>>,
               hash' \in [Users -> Hashes], address' \in [Users -> Addresses],
               account' \in [Users -> {"eligible", "ineligible", "deleted"}],
               \A u \in Users \ U : hash'[u] = hash[u] /\ account'[u] = account[u]
        PROVE  Idles
    BY <1>0, <1>3, SecureEnds
  <1>4. ASSUME NEW u \in Users, NEW a \in {"eligible", "ineligible"}, ChangePassword(u, a)
        PROVE  Idles
    <2>1. hash[u].password + 1 \in 0..MaxPasswords
      BY <1>0, <1>4, BrowserSessionAssumption DEF ChangePassword, UserOK, Hashes
    <2>2. /\ hash' \in [Users -> Hashes]
          /\ account' \in [Users -> {"eligible", "ineligible", "deleted"}]
          /\ \A v \in Users \ {u} : hash'[v] = hash[v] /\ account'[v] = account[v]
      BY <1>0, <1>4, <2>1 DEF ChangePassword, UserOK, Hashes
    <2>3. QED
      BY <1>0, <1>3, <1>4, <2>2 DEF ChangePassword, UserOK
  <1>5. ASSUME NEW u \in Users, NEW a \in {"eligible", "ineligible"}, NEW m \in Addresses,
               ChangeUser(u, a, m)
        PROVE  Idles
    <2>1. /\ address' \in [Users -> Addresses] /\ hash' = hash
          /\ account' \in [Users -> {"eligible", "ineligible", "deleted"}]
          /\ \A v \in Users \ {u} : account'[v] = account[v]
      BY <1>0, <1>5 DEF ChangeUser, UserOK
    <2>2. QED
      BY <1>0, <1>3, <1>5, <2>1 DEF ChangeUser, UserOK
  <1>6. ASSUME NEW U \in SUBSET Users, RevokeUsers(U)
        PROVE  Idles
    BY <1>0, <1>3, <1>6 DEF RevokeUsers, UserOK
  <1>7. ASSUME NEW S \in SUBSET Existing, Delete(S),
               UNCHANGED <<hash, address, invalidBefore, now, login>>,
               account' \in [Users -> {"eligible", "ineligible", "deleted"}],
               \A s \in Existing \ S : account'[session[s].owner] = account[session[s].owner],
               cutoff' \in {cutoff, None}
        PROVE  Idles
    BY <1>0, <1>7, DeletionEnds
  <1>8. ASSUME NEW U \in SUBSET Users, DeleteSessions(U)
        PROVE  Idles
    <2>1. SessionsOf(U) \in SUBSET Existing
      BY DEF SessionsOf
    <2>2. QED
      BY <1>0, <1>7, <1>8, <2>1 DEF DeleteSessions, UserOK, user
  <1>9. ASSUME NEW u \in Users, DeleteUser(u)
        PROVE  Idles
    <2>1. SessionsOf({u}) \in SUBSET Existing
      BY DEF SessionsOf
    <2>2. /\ account' \in [Users -> {"eligible", "ineligible", "deleted"}]
          /\ \A s \in Existing \ SessionsOf({u}) :
               account'[session[s].owner] = account[session[s].owner]
      BY <1>0, <1>9 DEF DeleteUser, UserOK, SessionsOf
    <2>3. QED
      BY <1>7, <1>9, <2>1, <2>2 DEF DeleteUser
  <1>10. \A limit : Pages(limit) \subseteq SUBSET Existing
    BY DEF Pages, Terminal
  <1>11. ASSUME CleanupBatch \/ DeleteInactive
         PROVE  Idles
    <2>1. PICK S \in SUBSET Existing : Delete(S)
      BY <1>10, <1>11 DEF CleanupBatch, DeleteInactive
    <2>2. /\ UNCHANGED <<user, now, login>> /\ cutoff' \in {cutoff, None}
      BY <1>11 DEF CleanupBatch, DeleteInactive
    <2>3. QED
      BY <1>0, <1>7, <2>1, <2>2 DEF UserOK, user
  <1>12. ASSUME \/ \E l \in Logins : (\E u \in Users : BeginLogin(l, u)) \/ LoginFails(l)
                \/ StartPass \/ CleanupFails \/ UNCHANGED vars
         PROVE  Idles
    <2>1. UNCHANGED <<session, user, now, ended>>
      BY <1>12 DEF BeginLogin, LoginFails, StartPass, CleanupFails, vars
    <2>2. WorkOK'
      <3>1. CASE \E l \in Logins, u \in Users : BeginLogin(l, u)
        BY <1>0, <3>1 DEF BeginLogin, WorkOK, UserOK
      <3>2. CASE \E l \in Logins : LoginFails(l)
        BY <1>0, <3>2 DEF LoginFails, WorkOK
      <3>3. CASE StartPass \/ CleanupFails \/ UNCHANGED vars
        BY <1>0, <3>3 DEF StartPass, CleanupFails, vars, WorkOK, UserOK
      <3>4. QED
        BY <1>12, <3>1, <3>2, <3>3
    <2>3. cutoff' # None => cutoff' <= now'
      <3>1. now <= now
        BY <1>0 DEF UserOK, Time
      <3>2. QED
        BY <1>0, <1>12, <3>1 DEF BeginLogin, LoginFails, StartPass, CleanupFails, vars
    <2>4. QED
      BY <2>1, <2>2, <2>3, IdleEnds
  <1> DEFINE Others == \/ \E s \in Sessions : Use(s)
                       \/ \E l \in Logins, s \in Sessions : Login(l, s)
                       \/ Tick
  <1> HIDE DEF Idles
  <1>13. Browse => Idles \/ Others
    BY <1>2, <1>12 DEF Browse
  <1>14. Administer => Idles
    BY <1>4, <1>5, <1>6, <1>8, <1>9, <1>11 DEF Administer
  <1>15. Idles \/ Others
    BY <1>11, <1>12, <1>13, <1>14 DEF Next
  <1>16. QED
    BY <1>15 DEF Idles

-----------------------------------------------------------------------------
(* Requests, logins and the clock.                                         *)

\* The columns of a row, as SessionInv has them.
Columns(s) ==
    /\ session[s] \in Rows
    /\ session[s].created \in Nat /\ session[s].expires \in Nat
    /\ session[s].lastSeen \in Nat /\ session[s].used \in Nat
    /\ Deadline(s) \in Nat /\ now \in Nat

\* Every row that exists has them.
LEMMA RowColumns ==
    ASSUME SessionInv, NEW s \in Existing
    PROVE  Columns(s) /\ s \in Sessions
  <1>1. s \in Sessions /\ session[s] \in Rows
    BY RowTyped DEF SessionInv, Existing
  <1>2. now \in Nat
    BY DEF SessionInv, UserOK, Time
  <1>3. QED
    BY <1>1, <1>2, BrowserSessionAssumption DEF Rows, Time, Columns, Deadline

\* A request keeps its session timely: the slide neither shortens nor uncaps it.
LEMMA UseSound ==
    ASSUME SessionInv, NEW s \in Sessions, Use(s)
    PROVE  /\ SessionInv'
           /\ \A t \in Sessions : Valid(t)' => Valid(t) /\ session'[t].owner = session[t].owner
  <1>1. /\ s \in Existing /\ Columns(s) /\ Sound(s) /\ Timely(s)
        /\ session[s].row = "open" /\ now < session[s].expires /\ now < Deadline(s)
    BY RowTyped, RowColumns DEF Use, Usable, Valid, SessionInv
  <1>2. PICK e : e = Slid(s)
    OBVIOUS
  <1>3. PICK seen : seen = IF e > session[s].expires \/ now - session[s].lastSeen >= Slide
                           THEN now ELSE session[s].lastSeen
    OBVIOUS
  <1>4. Touched(s) = [session[s] EXCEPT !.expires = e, !.lastSeen = seen, !.used = now]
    BY <1>2, <1>3 DEF Touched
  <1>5. /\ e \in Nat /\ e <= Deadline(s) /\ session[s].expires <= e
        /\ Least(now + Slide, Deadline(s)) <= e /\ e <= now + Ttl
    BY <1>1, <1>2, BrowserSessionAssumption DEF Slid, Least, Columns, Timely, Sound
  <1>6. seen \in Time /\ now - seen < Slide
    <2>1. now \in Time /\ session[s].lastSeen \in Time
      BY <1>1 DEF SessionInv, UserOK, Columns, Rows
    <2>2. QED
      BY <1>1, <1>3, <2>1, BrowserSessionAssumption DEF Columns
  <1>7. /\ session'[s] \in Rows
        /\ session'[s].row = "open" /\ session'[s].owner = session[s].owner
        /\ session'[s].created = session[s].created /\ session'[s].opened = session[s].opened
        /\ session'[s].expires = e /\ session'[s].used = now /\ session'[s].lastSeen = seen
    <2>1. session'[s] = [session[s] EXCEPT !.expires = e, !.lastSeen = seen, !.used = now]
      BY <1>4 DEF Use, SessionInv, SessionOK
    <2>2. now \in Time
      BY DEF SessionInv, UserOK
    <2>3. QED
      BY <1>1, <1>5, <1>6, <2>1, <2>2 DEF Columns, Rows
  <1>8. \A t \in Sessions \ {s} : session'[t] = session[t]
    BY DEF Use, SessionInv, SessionOK
  <1>9. SessionOK' /\ UserOK' /\ WorkOK' /\ (cutoff' # None => cutoff' <= now') /\ now' = now
    BY <1>7, <1>8 DEF Use, SessionInv, SessionOK, UserOK, WorkOK, user
  <1>10. Sound(s)' /\ Timely(s)' /\ (Valid(s)' => Valid(s))
    <2>1. hash' = hash
      BY DEF Use, user
    <2>2. Sound(s)'
      BY <1>1, <1>7, <1>9, <2>1 DEF Sound, Columns
    <2>3. Timely(s)'
      BY <1>1, <1>5, <1>6, <1>7 DEF Timely, Deadline
    <2>4. QED
      BY <1>1, <2>2, <2>3 DEF Valid
  <1>11. ASSUME NEW t \in Sessions \ {s}
         PROVE  /\ t \in Existing' => Sound(t)' /\ Timely(t)'
                /\ Valid(t)' => Valid(t)
    <2>1. hash' = hash
      BY DEF Use, user
    <2>2. QED
      BY <1>8, <1>9, <1>11, <2>1 DEF SessionInv, Existing, Sound, Timely, Deadline, Valid
  <1>12. \A t \in ended' : session'[t].row # "absent" /\ ~Valid(t)'
    <2>1. ended' = ended /\ ended \subseteq Sessions
      BY DEF Use, SessionInv, SessionOK
    <2>2. QED
      BY <1>7, <1>8, <1>10, <1>11, <2>1 DEF SessionInv
  <1>13. \A t \in Existing' : t \in Sessions
    BY DEF Existing
  <1>14. QED
    BY <1>7, <1>8, <1>9, <1>10, <1>11, <1>12, <1>13 DEF SessionInv

\* Time ends sessions and brings none back.
LEMMA TickSound ==
    ASSUME SessionInv, Tick
    PROVE  SessionInv' /\ \A t \in Sessions : Valid(t)' => Valid(t) /\ session'[t] = session[t]
  <1>1. /\ now' = now + 1 /\ now' \in Time /\ now \in Nat /\ session' = session /\ hash' = hash
        /\ ended' = ended \cup {s \in Existing : session[s].expires <= now' \/ Deadline(s) <= now'}
    BY BrowserSessionAssumption DEF Tick, SessionInv, UserOK, Time, user
  <1>2. UserOK' /\ WorkOK'
    BY <1>1 DEF Tick, SessionInv, UserOK, WorkOK, user
  <1>3. SessionOK'
    BY <1>1 DEF SessionInv, SessionOK, Existing
  <1>4. ASSUME NEW s \in Existing
        PROVE  Sound(s)' /\ Timely(s)'
    <2>1. Columns(s)
      BY <1>4, RowColumns
    <2>2. QED
      BY <1>1, <1>4, <2>1 DEF SessionInv, Sound, Timely, Deadline, Columns
  <1>5. Existing' = Existing
    BY <1>1 DEF Existing
  <1>6. ASSUME NEW s \in Sessions, Valid(s)'
        PROVE  Valid(s)
    <2>1. s \in Existing
      BY <1>1, <1>6 DEF Valid, Existing
    <2>2. Columns(s)
      BY <2>1, RowColumns
    <2>3. QED
      BY <1>1, <1>6, <2>2 DEF Valid, Columns, Deadline
  <1>7. \A s \in ended' : session'[s].row # "absent" /\ ~Valid(s)'
    <2>1. ASSUME NEW s \in Existing, session[s].expires <= now' \/ Deadline(s) <= now'
          PROVE  session'[s].row # "absent" /\ ~Valid(s)'
      <3>1. Columns(s)
        BY <2>1, RowColumns
      <3>2. QED
        BY <1>1, <2>1, <3>1 DEF Existing, Valid, Deadline, Columns, Time
    <2>2. ASSUME NEW s \in ended
          PROVE  session'[s].row # "absent" /\ ~Valid(s)'
      BY <1>1, <1>6, <2>2 DEF SessionInv, SessionOK
    <2>3. QED
      BY <1>1, <2>1, <2>2
  <1>8. cutoff' # None => cutoff' <= now'
    <2>1. cutoff' = cutoff /\ (cutoff # None => cutoff \in Nat)
      BY DEF Tick, SessionInv, WorkOK, Time
    <2>2. QED
      BY <1>1, <2>1 DEF SessionInv
  <1>9. QED
    BY <1>1, <1>2, <1>3, <1>4, <1>5, <1>6, <1>7, <1>8 DEF SessionInv

\* Session s is opened for u with the current password, and of the others only those
\* in K stay.
Opens(s, u, others, K) ==
    /\ u \in Users /\ others \subseteq Existing /\ K \subseteq others
    /\ others = {t \in SessionsOf({u}) : Valid(t)} /\ Kept(MaxSessions, others, K)
    /\ session[s].row = "absent"
    /\ session'[s] = Opened(u, hash[u].password) /\ session'[s] \in Rows
    /\ \A t \in others \ K : session'[t] = Deleted
    /\ \A t \in Sessions \ {s} : t \notin others \ K => Keeps(t)
    /\ ended' = ended \cup (others \ K)
    /\ \A v \in Users : Undisturbed(v)
    /\ SessionOK' /\ UserOK' /\ WorkOK' /\ now' = now /\ cutoff' = cutoff

\* Every login does that.
LEMMA LoginOpens ==
    ASSUME SessionInv, NEW l \in Logins, NEW s \in Sessions, Login(l, s)
    PROVE  \E u, others, K : Opens(s, u, others, K)
  <1>1. /\ login[l].user \in Users /\ login[l].hash \in Hashes /\ login[l].pc = "verified"
        /\ hash[login[l].user] = login[l].hash
    BY DEF Login, LoginStateUnchanged, SessionInv, WorkOK, Idle
  <1>2. PICK u \in Users : u = login[l].user
    BY <1>1
  <1>3. PICK others : others = {t \in SessionsOf({u}) : Valid(t)}
    OBVIOUS
  <1>4. others \in SUBSET Existing /\ others \in SUBSET Sessions
    BY <1>3 DEF SessionsOf, Existing
  <1>5. PICK K \in SUBSET others :
           /\ Kept(MaxSessions, others, K)
           /\ session' = [t \in Sessions |->
                 IF t = s THEN Opened(u, login[l].hash.password)
                 ELSE IF t \in others \ K THEN Deleted ELSE session[t]]
           /\ ended' = ended \cup (others \ K)
    BY <1>2, <1>3 DEF Login
  <1>6. session[s].row = "absent" /\ s \notin Existing
    BY DEF Login, Existing
  <1>7. hash' = [hash EXCEPT ![u].due = FALSE] /\ UNCHANGED <<address, account, invalidBefore, now, cutoff>>
    BY <1>2 DEF Login
  <1>8. hash' \in [Users -> Hashes] /\ \A v \in Users : Undisturbed(v)
    BY <1>7 DEF SessionInv, UserOK, Hashes, Undisturbed
  <1>9. login' = [login EXCEPT ![l] = Idle]
    BY DEF Login
  <1>10. UserOK' /\ WorkOK'
    BY <1>7, <1>8, <1>9 DEF SessionInv, UserOK, WorkOK
  <1>11. Opened(u, login[l].hash.password) \in Rows
    <2>1. now \in Time /\ Least(now + Ttl, now + AbsoluteTtl) \in Nat
      BY BrowserSessionAssumption DEF SessionInv, UserOK, Time, Least
    <2>2. login[l].hash.password \in 0..MaxPasswords
      BY <1>1 DEF Hashes
    <2>3. QED
      BY <2>1, <2>2 DEF Opened, Rows
  <1>12. SessionOK'
    <2>1. session' \in [Sessions -> {Absent, Deleted} \cup Rows]
      BY <1>5, <1>11 DEF SessionInv, SessionOK
    <2>2. QED
      BY <1>4, <1>5, <2>1 DEF SessionInv, SessionOK
  <1>13. \A t \in others \ K : session'[t] = Deleted
    BY <1>4, <1>5, <1>6
  <1>14. \A t \in Sessions \ {s} : t \notin others \ K => Keeps(t)
    BY <1>5 DEF Keeps
  <1>15. session'[s] = Opened(u, hash[u].password) /\ session'[s] \in Rows
    BY <1>1, <1>2, <1>5, <1>11
  <1>16. Opens(s, u, others, K)
    BY <1>3, <1>4, <1>5, <1>6, <1>7, <1>8, <1>10, <1>12, <1>13, <1>14, <1>15 DEF Opens
  <1>17. QED
    BY <1>16

\* A login keeps the invariant.
LEMMA LoginSound ==
    ASSUME SessionInv, NEW l \in Logins, NEW s \in Sessions, Login(l, s)
    PROVE  SessionInv'
  <1>1. PICK u, others, K : Opens(s, u, others, K)
    BY LoginOpens
  <1>2. /\ session'[s].row = "open" /\ session'[s].owner = u
        /\ session'[s].created = now /\ session'[s].used = now /\ session'[s].lastSeen = now
        /\ session'[s].opened = hash[u].password
        /\ session'[s].expires = Least(now + Ttl, now + AbsoluteTtl)
    BY <1>1 DEF Opens, Opened
  <1>3. now \in Nat
    BY DEF SessionInv, UserOK, Time
  <1>0. \A t \in others \ K : session'[t].row = "deleted"
    <2>1. \A t \in others \ K : session'[t] = Deleted
      BY <1>1 DEF Opens
    <2>2. QED
      BY <2>1 DEF Deleted
  <1>4. Sound(s)' /\ Timely(s)'
    BY <1>1, <1>2, <1>3, BrowserSessionAssumption
       DEF Opens, Undisturbed, Sound, Timely, Deadline, Least
  <1>5. ASSUME NEW t \in Sessions \ {s}, t \in Existing'
        PROVE  Sound(t)' /\ Timely(t)'
    <2>1. Keeps(t)
      BY <1>0, <1>1, <1>5 DEF Opens, Existing
    <2>2. t \in Existing
      BY <1>5, <2>1 DEF Keeps, Existing
    <2>3. hash'[session[t].owner].password = hash[session[t].owner].password
      BY <1>1, <2>2, RowColumns DEF Opens, Undisturbed, Columns, Rows
    <2>4. QED
      BY <1>1, <2>1, <2>2, <2>3 DEF Opens, SessionInv, Keeps, Sound, Timely, Deadline
  <1>6. ASSUME NEW t \in ended'
        PROVE  session'[t].row # "absent" /\ ~Valid(t)'
    <2>1. CASE t \in others \ K
      BY <1>0, <2>1 DEF Valid
    <2>2. CASE t \in ended /\ t \notin others \ K
      <3>1. t \in Sessions \ {s} /\ Keeps(t)
        BY <1>1, <2>2 DEF Opens, SessionInv, SessionOK
      <3>2. QED
        BY <1>1, <2>2, <3>1 DEF Opens, SessionInv, Keeps, Valid, Deadline
    <2>3. QED
      BY <1>1, <1>6, <2>1, <2>2 DEF Opens
  <1>7. \A t \in Existing' : t \in Sessions
    BY DEF Existing
  <1>8. QED
    BY <1>1, <1>4, <1>5, <1>6, <1>7 DEF Opens, SessionInv

-----------------------------------------------------------------------------
(* The theorems.                                                           *)

\* There are no sessions at first.
LEMMA InitInv == Init => SessionInv
  <1> SUFFICES ASSUME Init PROVE SessionInv
    OBVIOUS
  <1>1. UserOK /\ SessionOK /\ WorkOK
    BY BrowserSessionAssumption DEF Init, UserOK, SessionOK, WorkOK, Hashes, Time
  <1>2. Existing = {} /\ ended = {} /\ cutoff = None
    BY DEF Init, Existing, Absent
  <1>3. QED
    BY <1>1, <1>2 DEF SessionInv

\* Every step keeps the invariant.
LEMMA NextInv == SessionInv /\ [Next]_vars => SessionInv'
  <1> SUFFICES ASSUME SessionInv, [Next]_vars PROVE SessionInv'
    OBVIOUS
  <1>1. CASE Ending /\ WorkOK' /\ (cutoff' # None => cutoff' <= now')
    BY <1>1, EndingSound DEF SessionInv, Ending
  <1>2. CASE \E s \in Sessions : Use(s)
    BY <1>2, UseSound
  <1>3. CASE \E l \in Logins, s \in Sessions : Login(l, s)
    BY <1>3, LoginSound
  <1>4. CASE Tick
    BY <1>4, TickSound
  <1>5. QED
    BY <1>1, <1>2, <1>3, <1>4, StepKinds

\* SessionInv is an invariant: sessions keep their times in order, open ones have
\* the current password, and what ended is not valid again.
THEOREM SessionInvHolds == Spec => []SessionInv
  BY InitInv, NextInv, PTL DEF Spec

\* Every variable has its type, and no slide exceeds the absolute deadline.
THEOREM TypeCorrect == Spec => []TypeOK
  BY SessionInvHolds, InvTyped, PTL

\* No request, login, cleanup or change of a user brings an ended session back.
THEOREM EndedStayEnded == Spec => []EndedSessionsStayEnded
  <1>1. SessionInv => EndedSessionsStayEnded
    BY DEF SessionInv, EndedSessionsStayEnded, Usable
  <1>2. QED
    BY <1>1, SessionInvHolds, PTL

\* For any users and logins, whoever acts through a session gave the password that is
\* the user's now.
THEOREM UsableAreCurrent == Spec => []UsableSessionsAreCurrent
  <1>1. SessionInv => UsableSessionsAreCurrent
    BY RowTyped DEF SessionInv, UsableSessionsAreCurrent, Usable, Valid, Sound
  <1>2. QED
    BY <1>1, SessionInvHolds, PTL

\* For any settings with slide_seconds <= ttl_seconds <= absolute_ttl_seconds, the idle
\* timeout is what they promise.
THEOREM IdleTimeOut == Spec => []IdleSessionsTimeOut
  <1>1. SessionInv => IdleSessionsTimeOut
    BY DEF SessionInv, IdleSessionsTimeOut, Timely
  <1>2. QED
    BY <1>1, SessionInvHolds, PTL

-----------------------------------------------------------------------------
(* The limit on concurrent sessions, the cleanup pass, and what they delete. *)

\* What SessionsAreLimited counts.
ValidOf(u) == {s \in SessionsOf({u}) : Valid(s)}

\* Sets of sessions can be counted.
LEMMA SessionsFinite ==
    IsFiniteSet(Sessions) /\ \A S \in SUBSET Sessions : IsFiniteSet(S) /\ Cardinality(S) \in Nat
  <1>1. IsFiniteSet(Sessions)
    BY FS_Interval, BrowserSessionAssumption DEF Sessions
  <1>2. \A S \in SUBSET Sessions : IsFiniteSet(S)
    BY <1>1, FS_Subset
  <1>3. \A S \in SUBSET Sessions : Cardinality(S) \in Nat
    BY <1>2, FS_CardinalityType
  <1>4. QED
    BY <1>1, <1>2, <1>3

\* What a user may have stays within the limit if no session becomes valid.
LEMMA NarrowLimited ==
    ASSUME SessionInv, NEW u \in Users, Cardinality(ValidOf(u)) <= MaxSessions,
           NEW S \in SUBSET ValidOf(u)
    PROVE  Cardinality(S) <= MaxSessions
  <1>1. ValidOf(u) \in SUBSET Sessions
    BY DEF ValidOf, SessionsOf, Existing
  <1>2. Cardinality(S) <= Cardinality(ValidOf(u)) /\ Cardinality(S) \in Nat
    BY <1>1, SessionsFinite, FS_Subset
  <1>3. QED
    BY <1>1, <1>2, SessionsFinite, BrowserSessionAssumption

\* The new session is valid, and with it only those of the user's that were kept.
LEMMA OpensValid ==
    ASSUME SessionInv, NEW s \in Sessions, NEW u, NEW others, NEW K, Opens(s, u, others, K)
    PROVE  /\ ValidOf(u)' = K \cup {s}
           /\ s \notin K /\ \A t \in K : Keeps(t)
           /\ \A v \in Users \ {u} : ValidOf(v)' \subseteq ValidOf(v)
  <1>1. /\ session'[s].row = "open" /\ session'[s].owner = u /\ session'[s].created = now
        /\ session'[s].expires = Least(now + Ttl, now + AbsoluteTtl)
    BY DEF Opens, Opened
  <1>2. now \in Nat
    BY DEF SessionInv, UserOK, Time
  <1>3. Valid(s)'
    BY <1>1, <1>2, BrowserSessionAssumption DEF Opens, Valid, Deadline, Least
  <1>4. \A t \in others \ K : session'[t].row = "deleted"
    <2>1. \A t \in others \ K : session'[t] = Deleted
      BY DEF Opens
    <2>2. QED
      BY <2>1 DEF Deleted
  <1>5. s \notin K /\ \A t \in K : Keeps(t)
    BY DEF Opens, Existing
  <1>6. ASSUME NEW t \in Sessions \ {s}, NEW v, t \in ValidOf(v)'
        PROVE  t \in ValidOf(v) /\ t \notin others \ K
    <2>1. session'[t].row = "open" /\ Valid(t)' /\ session'[t].owner = v
      BY <1>6 DEF ValidOf, SessionsOf, Valid
    <2>2. t \notin others \ K
      BY <1>4, <2>1
    <2>3. Keeps(t)
      BY <2>2 DEF Opens
    <2>4. Valid(t) /\ session[t].owner = v /\ t \in Existing
      BY <2>1, <2>3 DEF Opens, Keeps, Valid, Deadline, Existing
    <2>5. QED
      BY <2>2, <2>4 DEF ValidOf, SessionsOf
  <1>7. \A v : ValidOf(v)' \subseteq Sessions
    BY DEF ValidOf, SessionsOf, Existing
  <1>8. others = ValidOf(u)
    BY DEF Opens, ValidOf
  <1>9. s \in ValidOf(u)'
    BY <1>1, <1>3 DEF ValidOf, SessionsOf, Existing
  <1>10. ASSUME NEW t \in K
         PROVE  t \in ValidOf(u)'
    <2>1. Keeps(t) /\ Valid(t) /\ t \in Existing /\ session[t].owner = u
      BY <1>5, <1>8 DEF Opens, ValidOf, SessionsOf
    <2>2. QED
      BY <2>1 DEF Opens, Keeps, ValidOf, SessionsOf, Existing, Valid, Deadline
  <1>11. ValidOf(u)' = K \cup {s}
    BY <1>6, <1>7, <1>8, <1>9, <1>10
  <1>12. \A v \in Users \ {u} : ValidOf(v)' \subseteq ValidOf(v)
    <2>1. \A v \in Users \ {u} : s \notin ValidOf(v)'
      BY <1>1 DEF ValidOf, SessionsOf
    <2>2. QED
      BY <1>6, <1>7, <2>1
  <1>13. QED
    BY <1>5, <1>11, <1>12

\* What the limit keeps, counted.
LEMMA KeptCount ==
    ASSUME NEW others \in SUBSET Sessions, NEW K, Kept(MaxSessions, others, K)
    PROVE  /\ K \in SUBSET others /\ IsFiniteSet(K) /\ Cardinality(K) \in Nat
           /\ Cardinality(K) <= MaxSessions - 1
           /\ K # others => Cardinality(K) = MaxSessions - 1
           /\ \A k \in K, e \in others \ K : session[e].created <= session[k].created
  <1>1. K \in SUBSET others /\ Cardinality(K) = Least(MaxSessions - 1, Cardinality(others))
    BY DEF Kept
  <1>2. IsFiniteSet(K) /\ Cardinality(K) \in Nat /\ IsFiniteSet(others) /\ Cardinality(others) \in Nat
    BY <1>1, SessionsFinite
  <1>3. K # others => Cardinality(K) # Cardinality(others)
    BY <1>1, <1>2, FS_Subset
  <1>4. QED
    BY <1>1, <1>2, <1>3, BrowserSessionAssumption DEF Least, Kept

\* Limits are kept by every step.
LEMMA NextLimited ==
    ASSUME SessionInv, [Next]_vars, SessionsAreLimited
    PROVE  SessionsAreLimited'
  <1>1. \A u \in Users : Cardinality(ValidOf(u)) <= MaxSessions
    BY DEF SessionsAreLimited, ValidOf
  <1>2. ASSUME \A s \in Sessions : Valid(s)' => Valid(s) /\ session'[s].owner = session[s].owner
        PROVE  SessionsAreLimited'
    <2>1. \A u \in Users : ValidOf(u)' \subseteq ValidOf(u)
      BY <1>2, RowTyped DEF SessionInv, ValidOf, SessionsOf, Existing, Valid
    <2>2. \A u \in Users : Cardinality(ValidOf(u)') <= MaxSessions
      BY <1>1, <2>1, NarrowLimited
    <2>3. QED
      BY <2>2 DEF SessionsAreLimited, ValidOf
  <1>3. CASE \E l \in Logins, s \in Sessions : Login(l, s)
    <2>0. PICK s \in Sessions : \E l \in Logins : Login(l, s)
      BY <1>3
    <2>1. PICK u, others, K : Opens(s, u, others, K)
      BY <2>0, LoginOpens
    <2>2. others \in SUBSET Sessions /\ Kept(MaxSessions, others, K)
      BY <2>1 DEF Opens, Existing
    <2>3. Cardinality(K \cup {s}) <= MaxSessions
      <3>1. IsFiniteSet(K) /\ Cardinality(K) \in Nat /\ Cardinality(K) <= MaxSessions - 1
        BY <2>2, KeptCount
      <3>2. Cardinality(K \cup {s}) <= Cardinality(K) + 1 /\ Cardinality(K \cup {s}) \in Nat
        BY <3>1, FS_AddElement, FS_CardinalityType
      <3>3. QED
        BY <3>1, <3>2, BrowserSessionAssumption
    <2>4. ASSUME NEW v \in Users
          PROVE  Cardinality(ValidOf(v)') <= MaxSessions
      <3>1. CASE v = u
        BY <2>1, <2>3, <3>1, OpensValid
      <3>2. CASE v # u
        BY <1>1, <2>1, <3>2, OpensValid, NarrowLimited
      <3>3. QED
        BY <3>1, <3>2
    <2>5. QED
      BY <2>4 DEF SessionsAreLimited, ValidOf
  <1>4. CASE Ending
    BY <1>2, <1>4, EndingSound DEF Keeps
  <1>5. CASE \E s \in Sessions : Use(s)
    BY <1>2, <1>5, UseSound
  <1>6. CASE Tick
    BY <1>2, <1>6, TickSound
  <1>7. QED
    BY <1>3, <1>4, <1>5, <1>6, StepKinds

\* For any limit and any interleaving of logins, no user has more valid sessions.
THEOREM SessionsLimited == Spec => []SessionsAreLimited
  <1>1. Init => SessionsAreLimited
    <2> SUFFICES ASSUME Init PROVE SessionsAreLimited
      OBVIOUS
    <2>1. Existing = {}
      BY DEF Init, Existing, Absent
    <2>2. QED
      BY <2>1, FS_EmptySet, BrowserSessionAssumption DEF SessionsAreLimited, SessionsOf
  <1>2. QED
    BY <1>1, NextLimited, SessionInvHolds, PTL DEF Spec

\* A step that deletes a valid session is an administrator's or a login's: a page of
\* the cleanup holds none, however old its cutoff.
LEMMA DeletionKinds ==
    ASSUME SessionInv, [Next]_vars, NEW s \in Sessions, Valid(s), session'[s] = Deleted
    PROVE  \/ \E U \in SUBSET Users : DeleteSessions(U)
           \/ \E u \in Users : DeleteUser(u)
           \/ \E l \in Logins, t \in Sessions : Login(l, t)
  <1>1. ~Keeps(s) /\ s \in Existing
    BY DEF Keeps, Valid, Deleted, Existing
  <1>2. ASSUME NEW S \in SUBSET Sessions, Revoke(S)
        PROVE  FALSE
    BY <1>1, <1>2, RevokeEnds DEF SessionInv
  <1>3. \A U : SessionsOf(U) \in SUBSET Sessions
    BY DEF SessionsOf, Existing
  <1>4. ASSUME NEW t \in Sessions,
               Logout(t) \/ LogoutOthers(t) \/ LogoutAll(t) \/ \E x \in Sessions : RevokeOne(t, x)
        PROVE  FALSE
    BY <1>2, <1>3, <1>4 DEF Logout, LogoutOthers, LogoutAll, RevokeOne
  <1>5. ASSUME \/ \E u \in Users, a \in {"eligible", "ineligible"} :
                    \/ ChangePassword(u, a)
                    \/ \E m \in Addresses : ChangeUser(u, a, m)
               \/ \E U \in SUBSET Users : RevokeUsers(U)
        PROVE  FALSE
    BY <1>2, <1>3, <1>5 DEF ChangePassword, ChangeUser, RevokeUsers, Secure
  <1>6. ASSUME NEW limit \in Nat, limit <= now, NEW B \in Pages(limit), Delete(B)
        PROVE  FALSE
    <2>1. B \in SUBSET Existing /\ \A b \in B : Terminal(b, limit)
      BY <1>6 DEF Pages, Terminal
    <2>2. s \in B
      BY <1>1, <1>6, <2>1, DeleteEnds DEF SessionInv
    <2>3. Columns(s)
      BY <1>1, RowColumns
    <2>4. QED
      BY <1>6, <2>1, <2>2, <2>3 DEF Terminal, Valid, Columns
  <1>7. ~CleanupBatch /\ ~DeleteInactive
    <2>1. now \in Nat /\ (cutoff # None => cutoff \in Nat /\ cutoff <= now)
      BY DEF SessionInv, UserOK, WorkOK, Time
    <2>2. QED
      BY <1>6, <2>1 DEF CleanupBatch, DeleteInactive
  <1>8. ASSUME \/ \E l \in Logins : (\E u \in Users : BeginLogin(l, u)) \/ LoginFails(l)
               \/ StartPass \/ CleanupFails \/ UNCHANGED vars \/ Tick
        PROVE  FALSE
    BY <1>1, <1>8 DEF BeginLogin, LoginFails, StartPass, CleanupFails, Tick, vars, Keeps
  <1>9. \A t \in Sessions : ~Use(t)
    <2>1. ASSUME NEW t \in Sessions, Use(t)
          PROVE  FALSE
      <3>1. t = s
        BY <1>1, <2>1 DEF Use, SessionInv, SessionOK, Keeps
      <3>2. session'[s] = Touched(s)
        BY <2>1, <3>1 DEF Use, SessionInv, SessionOK
      <3>3. Touched(s).row = session[s].row
        BY <1>1, RowColumns DEF Touched, Columns, Rows
      <3>4. QED
        BY <3>2, <3>3 DEF Valid, Deleted
    <2>2. QED
      BY <2>1
  <1>10. Browse => \E l \in Logins, t \in Sessions : Login(l, t)
    BY <1>4, <1>8, <1>9 DEF Browse
  <1>11. Administer => \/ \E U \in SUBSET Users : DeleteSessions(U)
                       \/ \E u \in Users : DeleteUser(u)
    BY <1>5, <1>7 DEF Administer
  <1>12. QED
    BY <1>7, <1>8, <1>10, <1>11 DEF Next

\* A login that deletes a valid session leaves as many newer ones as the limit allows.
LEMMA NextGivesWay ==
    ASSUME SessionInv, [Next]_vars, NEW s \in Sessions, Valid(s), session'[s] = Deleted
    PROVE  \/ \E U \in SUBSET Users : DeleteSessions(U)
           \/ \E u \in Users : DeleteUser(u)
           \/ Cardinality({t \in Existing' : Valid(t)' /\ session'[t].owner = session[s].owner
                                            /\ session[s].created <= session'[t].created})
                = MaxSessions
  <1> SUFFICES ASSUME \E l \in Logins, t \in Sessions : Login(l, t)
               PROVE  Cardinality({t \in Existing' : Valid(t)' /\ session'[t].owner = session[s].owner
                                            /\ session[s].created <= session'[t].created})
                        = MaxSessions
    BY DeletionKinds
  <1>0. PICK n \in Sessions : \E l \in Logins : Login(l, n)
    OBVIOUS
  <1>1. PICK u, others, K : Opens(n, u, others, K)
    BY <1>0, LoginOpens
  <1>2. others \in SUBSET Sessions /\ Kept(MaxSessions, others, K)
    BY <1>1 DEF Opens, Existing
  <1>3. session[s].row = "open" /\ session'[s].row = "deleted"
    BY DEF Valid, Deleted
  <1>4. s \in others \ K
    BY <1>1, <1>3 DEF Opens, Keeps
  <1>5. session[s].owner = u /\ session[s].created <= now
    <2>1. session[s].owner = u /\ s \in Existing
      BY <1>1, <1>4 DEF Opens, SessionsOf
    <2>2. QED
      BY <2>1, RowColumns DEF SessionInv, Sound, Columns
  <1>6. Cardinality(K) = MaxSessions - 1 /\ \A k \in K : session[s].created <= session[k].created
    BY <1>2, <1>4, KeptCount
  <1>7. ValidOf(u)' = K \cup {n} /\ n \notin K /\ \A k \in K : Keeps(k)
    BY <1>1, OpensValid
  <1>8. session'[n].created = now
    BY <1>1 DEF Opens, Opened
  <1>9. \A t \in ValidOf(u)' : session[s].created <= session'[t].created
    BY <1>5, <1>6, <1>7, <1>8 DEF Keeps
  <1>10. {t \in Existing' : Valid(t)' /\ session'[t].owner = session[s].owner
                            /\ session[s].created <= session'[t].created} = ValidOf(u)'
    BY <1>5, <1>9 DEF ValidOf, SessionsOf
  <1>11. Cardinality(K \cup {n}) = MaxSessions
    <2>1. IsFiniteSet(K)
      BY <1>2, KeptCount
    <2>2. Cardinality(K \cup {n}) = Cardinality(K) + 1
      BY <1>7, <2>1, FS_AddElement
    <2>3. QED
      BY <1>6, <2>2, BrowserSessionAssumption
  <1>12. QED
    BY <1>7, <1>10, <1>11

\* No login, however it races others, and no cleanup pass takes a valid session unless
\* the limit is filled by newer ones.
THEOREM OldestGiveWay == Spec => OldestSessionsGiveWay
  <1>1. SessionInv /\ [Next]_vars /\ SessionsAreLimited' =>
          [SessionsAreLimited' /\ \A s \in Sessions : Valid(s) /\ session'[s] = Deleted =>
              \/ \E U \in SUBSET Users : DeleteSessions(U)
              \/ \E u \in Users : DeleteUser(u)
              \/ Cardinality({t \in Existing' : Valid(t)' /\ session'[t].owner = session[s].owner
                                               /\ session[s].created <= session'[t].created})
                   = MaxSessions]_vars
    BY NextGivesWay
  <1>2. QED
    BY <1>1, SessionInvHolds, SessionsLimited, PTL DEF Spec, OldestSessionsGiveWay

\* A page that is not full held everything that was terminal.
LEMMA NextCompletes ==
    ASSUME SessionInv, CleanupBatch, cutoff' = None, NEW s \in Existing'
    PROVE  session'[s].row = "open" /\ cutoff < session'[s].expires /\ cutoff < Deadline(s)'
  <1>1. PICK B \in Pages(cutoff) : Delete(B) /\ Cardinality(B) # BatchSize /\ cutoff # None
    BY DEF CleanupBatch
  <1>2. PICK candidates \in SUBSET Sessions : candidates = {t \in Sessions : Terminal(t, cutoff)}
    OBVIOUS
  <1>3. B \in SUBSET candidates /\ Cardinality(B) = Least(BatchSize, Cardinality(candidates))
    BY <1>1, <1>2 DEF Pages
  <1>4. B = candidates
    BY <1>1, <1>3, SessionsFinite, FS_Subset DEF Least
  <1>5. B \in SUBSET Existing
    BY <1>2, <1>4 DEF Terminal
  <1>6. s \in Sessions /\ s \notin B /\ Keeps(s)
    <2>1. s \in Sessions /\ session'[s].row # "deleted"
      BY DEF Existing
    <2>2. session'[s] # Deleted
      BY <2>1 DEF Deleted
    <2>3. QED
      BY <1>1, <1>5, <2>1, <2>2, DeleteEnds DEF SessionInv
  <1>7. s \in Existing /\ ~Terminal(s, cutoff)
    BY <1>2, <1>4, <1>6 DEF Existing, Keeps
  <1>8. Columns(s) /\ cutoff \in Nat
    BY <1>1, <1>7, RowColumns DEF SessionInv, WorkOK, Time
  <1>9. session[s].row = "open" /\ cutoff < session[s].expires /\ cutoff < Deadline(s)
    BY <1>7, <1>8 DEF Terminal, Existing, Columns
  <1>10. QED
    BY <1>6, <1>9 DEF Keeps, Deadline

\* For any batch size, a cleanup pass that ends of itself leaves nothing terminal.
THEOREM PassesComplete == Spec => PassesAreComplete
  <1>1. SessionInv /\ [Next]_vars =>
          [CleanupBatch /\ cutoff' = None =>
              \A s \in Existing' : /\ session'[s].row = "open"
                                   /\ cutoff < session'[s].expires /\ cutoff < Deadline(s)']_vars
    BY NextCompletes
  <1>2. QED
    BY <1>1, SessionInvHolds, PTL DEF Spec, PassesAreComplete

-----------------------------------------------------------------------------
(* Sessions implement what PasswordSessions promises.                      *)

\* PasswordSessions counts as BrowserSession does.
LEMMA SameCount == \A S : Acting!Cardinality(S) = Cardinality(S)
  BY DEF Acting!Cardinality, Cardinality

\* The sessions that live, and of a user, are the usable ones.
LEMMA StandingIs ==
    /\ Acting!LiveSessions = {s \in Sessions : Usable(s)}
    /\ \A u : Acting!LiveSessionsOf(u) = {s \in Sessions : Usable(s) /\ session[s].owner = u}
    /\ \A s \in Sessions : session[s].row = "absent" => Standing[s] = Acting!Unopened
  <1>1. \A s \in Sessions :
           Standing[s] = IF Usable(s) THEN Acting!Live(session[s].owner, session[s].opened)
                         ELSE IF session[s].row = "absent" THEN Acting!Unopened ELSE Acting!Over
    BY DEF Standing, Acting!Live, Acting!Unopened, Acting!Over
  <1>2. ASSUME NEW s \in Sessions
        PROVE  /\ Standing[s].standing = "live" <=> Usable(s)
               /\ Usable(s) => Standing[s].user = session[s].owner
    <2>1. CASE Usable(s)
      <3>1. Standing[s] = Acting!Live(session[s].owner, session[s].opened)
        BY <1>1, <2>1
      <3>2. QED
        BY <2>1, <3>1 DEF Acting!Live
    <2>2. CASE ~Usable(s)
      <3>1. Standing[s] \in {Acting!Unopened, Acting!Over}
        BY <1>1, <2>2
      <3>2. QED
        BY <2>2, <3>1 DEF Acting!Unopened, Acting!Over
    <2>3. QED
      BY <2>1, <2>2
  <1>3. \A s \in Sessions : session[s].row = "absent" => Standing[s] = Acting!Unopened
    BY <1>1 DEF Usable, Valid
  <1>4. QED
    BY <1>2, <1>3 DEF Acting!LiveSessions, Acting!LiveSessionsOf

\* What a session is to the user after a step that does not open it.
Lasts(s) ==
    /\ Usable(s)' => /\ Usable(s)
                     /\ session'[s].owner = session[s].owner
                     /\ session'[s].opened = session[s].opened
    /\ session'[s].row = "absent" <=> session[s].row = "absent"

\* It stands as before, or it lived and is over.
LEMMA StandingAfter ==
    ASSUME NEW s \in Sessions, Lasts(s)
    PROVE  Standing'[s] = IF Usable(s) /\ ~Usable(s)' THEN Acting!Over ELSE Standing[s]
  BY DEF Lasts, Standing, Acting!Over, Usable, Valid

\* A step after which no session lives that did not live before ends some.
LEMMA LastingEnds ==
    ASSUME \A s \in Sessions : Lasts(s), Password' = Password
    PROVE  Acting!End
  <1>1. PICK S \in SUBSET Acting!LiveSessions : S = {s \in Sessions : Usable(s) /\ ~Usable(s)'}
    BY StandingIs
  <1>2. \A s \in Sessions : Standing'[s] = IF s \in S THEN Acting!Over ELSE Standing[s]
    BY <1>1, StandingAfter
  <1>3. Standing' = Acting!Ended(S)
    BY <1>2 DEF Standing, Acting!Ended
  <1>4. QED
    BY <1>3 DEF Acting!End

\* A session of a user who is not disturbed is as usable as it is valid.
LEMMA UsableStays ==
    ASSUME NEW s \in Sessions, Keeps(s), Undisturbed(session[s].owner), Valid(s) <=> Valid(s)'
    PROVE  Usable(s) <=> Usable(s)'
  BY DEF Keeps, Undisturbed, Usable

\* Sessions that stay or end last.
LEMMA EndingLasts ==
    ASSUME SessionInv, Ending, NEW s \in Sessions
    PROVE  Lasts(s)
  <1>1. Usable(s)' => Usable(s) /\ Keeps(s)
    <2> SUFFICES ASSUME Usable(s)' PROVE Usable(s) /\ Keeps(s)
      OBVIOUS
    <2>1. Valid(s)' /\ Valid(s) /\ Keeps(s)
      BY EndingSound DEF Usable
    <2>2. Undisturbed(session[s].owner)
      BY <2>1 DEF Ending, Valid
    <2>3. QED
      BY <2>1, <2>2, UsableStays
  <1>2. session'[s].row = "absent" <=> session[s].row = "absent"
    <2>1. CASE Keeps(s)
      BY <2>1 DEF Keeps
    <2>2. CASE Ends(s)
      BY <2>2, RowTyped DEF SessionInv, Ends, Deleted, Rows, Existing
    <2>3. QED
      BY <2>1, <2>2 DEF Ending
  <1>3. QED
    BY <1>1, <1>2 DEF Lasts, Keeps

\* A new password ends the sessions of its user and leaves the others alone.
LEMMA PasswordEnds ==
    ASSUME SessionInv, Ending, NEW u \in Users, NEW a, ChangePassword(u, a)
    PROVE  Acting!ChangePassword(u)
  <1>1. Password' = [Password EXCEPT ![u] = @ + 1]
    BY DEF ChangePassword, SessionInv, UserOK, Hashes, Password
  <1>2. SessionsOf({u}) \in SUBSET Sessions /\ Revoke(SessionsOf({u}))
    BY DEF ChangePassword, Secure, SessionsOf, Existing
  <1>3. ASSUME NEW s \in Sessions, Usable(s)
        PROVE  Usable(s)' <=> session[s].owner # u
    <2>1. s \in Existing /\ session[s] \in Rows /\ session[s].owner \in Users
      BY <1>3, RowTyped DEF SessionInv, Usable, Valid, Rows
    <2>2. CASE session[s].owner = u
      <3>1. session'[s].row # "open"
        BY <1>2, <2>1, <2>2, RevokeEnds DEF SessionInv, SessionsOf
      <3>2. QED
        BY <2>2, <3>1 DEF Usable, Valid
    <2>3. CASE session[s].owner # u
      <3>1. Keeps(s)
        BY <1>2, <2>1, <2>3 DEF Revoke, SessionsOf, Keeps
      <3>2. Undisturbed(session[s].owner)
        BY <2>1, <2>3 DEF ChangePassword, Secure, SessionInv, UserOK, Undisturbed
      <3>3. Valid(s) <=> Valid(s)'
        BY <3>1 DEF Keeps, Ending, Valid, Deadline
      <3>4. QED
        BY <1>3, <2>3, <3>1, <3>2, <3>3, UsableStays
    <2>4. QED
      BY <2>2, <2>3
  <1>4. \A s \in Sessions :
           Standing'[s] = IF Usable(s) /\ session[s].owner = u THEN Acting!Over ELSE Standing[s]
    BY <1>3, EndingLasts, StandingAfter DEF Lasts
  <1>5. Standing' = Acting!Ended(Acting!LiveSessionsOf(u))
    BY <1>4, StandingIs DEF Standing, Acting!Ended
  <1>6. QED
    BY <1>1, <1>5 DEF Acting!ChangePassword

\* A login ends no session of others, and none that stays.
LEMMA LoginLasts ==
    ASSUME SessionInv, NEW s \in Sessions, NEW u, NEW others, NEW K, Opens(s, u, others, K)
    PROVE  /\ ~Usable(s)
           /\ \A t \in Sessions \ {s} : Lasts(t) /\ (Usable(t)' <=> Usable(t) /\ t \notin others \ K)
  <1>1. \A t \in others \ K : session'[t].row = "deleted" /\ t \in Existing
    <2>1. \A t \in others \ K : session'[t] = Deleted /\ t \in Existing
      BY DEF Opens
    <2>2. QED
      BY <2>1 DEF Deleted
  <1>2. ASSUME NEW t \in Sessions \ {s}, t \notin others \ K
        PROVE  Lasts(t) /\ (Usable(t)' <=> Usable(t))
    <2>1. Keeps(t) /\ (Valid(t) <=> Valid(t)')
      BY <1>2 DEF Opens, Keeps, Valid, Deadline
    <2>2. Valid(t) => Undisturbed(session[t].owner)
      BY <1>2, RowTyped DEF SessionInv, Opens, Valid, Rows
    <2>3. Usable(t)' <=> Usable(t)
      BY <2>1, <2>2, UsableStays DEF Usable
    <2>4. QED
      BY <2>1, <2>3 DEF Lasts, Keeps
  <1>3. ASSUME NEW t \in Sessions \ {s}, t \in others \ K
        PROVE  Lasts(t) /\ ~Usable(t)'
    BY <1>1, <1>3 DEF Lasts, Usable, Valid, Existing
  <1>4. ~Usable(s)
    BY DEF Opens, Usable, Valid
  <1>5. QED
    BY <1>2, <1>3, <1>4

\* If one session of the user is usable at a login, the new one is as well, and so are
\* all that the limit prefers to it.
LEMMA LoginUsable ==
    ASSUME SessionInv, NEW s \in Sessions, NEW u, NEW others, NEW K, Opens(s, u, others, K),
           NEW e \in others, Usable(e)
    PROVE  Usable(s)' /\ (e \notin K => \A k \in K : Usable(k))
  <1>1. e \in Existing /\ Columns(e) /\ session[e].owner = u /\ Sound(e)
    BY RowColumns DEF Opens, SessionsOf, SessionInv
  <1>2. /\ account[u] = "eligible" /\ invalidBefore[u] < session[e].created
        /\ session[e].created <= now
    BY <1>1 DEF Usable, Sound, Columns
  <1>3. u \in Users /\ invalidBefore[u] \in Nat
    BY DEF Opens, SessionInv, UserOK
  <1>4. Valid(s)'
    <2>1. s \in ValidOf(u)'
      BY OpensValid
    <2>2. QED
      BY <2>1 DEF ValidOf
  <1>5. session'[s].owner = u /\ session'[s].created = now
    BY DEF Opens, Opened
  <1>6. account'[u] = account[u] /\ invalidBefore'[u] = invalidBefore[u]
    BY <1>3 DEF Opens, Undisturbed
  <1>7. invalidBefore[u] < now
    BY <1>1, <1>2, <1>3 DEF Columns
  <1>8. Usable(s)'
    BY <1>2, <1>4, <1>5, <1>6, <1>7 DEF Usable
  <1>9. ASSUME NEW k \in K, e \notin K
        PROVE  Usable(k)
    <2>1. session[e].created <= session[k].created
      BY <1>9 DEF Opens, Kept
    <2>2. k \in Existing /\ Columns(k) /\ Valid(k) /\ session[k].owner = u
      BY RowColumns DEF Opens, SessionsOf
    <2>3. QED
      BY <1>1, <1>2, <1>3, <2>1, <2>2 DEF Columns, Usable
  <1>10. QED
    BY <1>8, <1>9

\* A login opens a session, within the limit, or misses.
LEMMA LoginActs ==
    ASSUME SessionInv, NEW s \in Sessions, NEW u, NEW others, NEW K, Opens(s, u, others, K)
    PROVE  Acting!Next
  <1>1. /\ others \in SUBSET Sessions /\ Kept(MaxSessions, others, K) /\ u \in Users
        /\ others = {t \in SessionsOf({u}) : Valid(t)}
    BY DEF Opens, Existing
  <1>2. Standing[s] = Acting!Unopened
    BY StandingIs DEF Opens
  <1>3. Password' = Password
    BY DEF Opens, Undisturbed, Password
  <1>4. PICK gone \in SUBSET Sessions : gone = {t \in others \ K : Usable(t)}
    BY <1>1
  <1>5. ASSUME NEW t \in Sessions \ {s}
        PROVE  Standing'[t] = IF t \in gone THEN Acting!Over ELSE Standing[t]
    BY <1>4, <1>5, LoginLasts, StandingAfter
  <1>6. CASE Usable(s)'
    <2>1. PICK kept \in SUBSET Acting!LiveSessionsOf(u) : kept = Acting!LiveSessionsOf(u) \ gone
      OBVIOUS
    <2>2. Acting!LiveSessionsOf(u) = {t \in others : Usable(t)}
      BY <1>1, StandingIs, RowTyped DEF SessionInv, Usable, Valid, SessionsOf, Existing
    <2>3. gone = Acting!LiveSessionsOf(u) \ kept /\ kept = {t \in K : Usable(t)}
      BY <1>1, <1>4, <2>1, <2>2 DEF Kept
    <2>4. /\ IsFiniteSet(K) /\ Cardinality(K) \in Nat /\ Cardinality(K) <= MaxSessions - 1
          /\ K # others => Cardinality(K) = MaxSessions - 1
      BY <1>1, KeptCount
    <2>5. Cardinality(kept) \in Nat /\ Cardinality(kept) <= Cardinality(K)
      BY <2>3, <2>4, FS_Subset, FS_CardinalityType
    <2>6. Cardinality(kept) < MaxSessions
      BY <2>4, <2>5, BrowserSessionAssumption
    <2>7. ASSUME kept # Acting!LiveSessionsOf(u)
          PROVE  Cardinality(kept) = MaxSessions - 1
      <3>1. PICK e \in others \ K : Usable(e)
        BY <2>2, <2>3, <2>7
      <3>2. kept = K /\ K # others
        BY <2>3, <3>1, LoginUsable
      <3>3. QED
        BY <2>4, <3>2
    <2>8. Standing'[s] = Acting!Live(u, Password[u])
      <3>1. session'[s].owner = u /\ session'[s].opened = hash[u].password
        BY DEF Opens, Opened
      <3>2. QED
        BY <1>1, <1>6, <3>1 DEF Standing, Password, Acting!Live
    <2>9. Standing' = [Acting!Ended(Acting!LiveSessionsOf(u) \ kept)
                          EXCEPT ![s] = Acting!Live(u, Password[u])]
      BY <1>5, <2>3, <2>8 DEF Standing, Acting!Ended
    <2>10. Acting!Open(s, u)
      <3>1. kept # Acting!LiveSessionsOf(u) => Cardinality(kept) = MaxSessions - 1
        BY <2>7
      <3>2. QED
        BY <1>2, <1>3, <2>6, <2>9, <3>1, SameCount DEF Acting!Open
    <2>11. QED
      BY <1>1, <2>10 DEF Acting!Next
  <1>7. CASE ~Usable(s)'
    <2>1. gone = {}
      BY <1>4, <1>7, LoginUsable
    <2>2. Standing'[s] = Acting!Over
      <3>1. session'[s].row # "absent"
        BY DEF Opens, Opened
      <3>2. QED
        BY <1>7, <3>1 DEF Standing, Acting!Over
    <2>3. Standing' = Acting!Ended({s})
      BY <1>5, <2>1, <2>2 DEF Standing, Acting!Ended
    <2>4. QED
      BY <1>2, <1>3, <2>3 DEF Acting!Miss, Acting!Next
  <1>8. QED
    BY <1>6, <1>7

\* Only a password change changes a password.
LEMMA PasswordsStay ==
    ASSUME SessionInv, [Next]_vars, ~\E u \in Users, a \in {"eligible", "ineligible"} : ChangePassword(u, a)
    PROVE  Password' = Password
  <1>1. ASSUME NEW l \in Logins, NEW s \in Sessions, Login(l, s)
        PROVE  Password' = Password
    <2>1. PICK u, others, K : Opens(s, u, others, K)
      BY <1>1, LoginOpens
    <2>2. QED
      BY <2>1 DEF Opens, Undisturbed, Password
  <1>2. ASSUME hash' = hash
        PROVE  Password' = Password
    BY <1>2 DEF Password
  <1>3. Browse => Password' = Password
    BY <1>1, <1>2 DEF Browse, BeginLogin, LoginFails, Use, Logout, LogoutOthers, LogoutAll,
                      RevokeOne, user
  <1>4. Administer => Password' = Password
    BY <1>2 DEF Administer, ChangeUser, RevokeUsers, DeleteUser, DeleteSessions, DeleteInactive,
                user
  <1>5. QED
    BY <1>2, <1>3, <1>4 DEF Next, StartPass, CleanupBatch, CleanupFails, Tick, vars, user

\* A request and a tick bring no session back.
LEMMA TimeLasts ==
    ASSUME SessionInv, NEW s \in Sessions, Tick \/ \E t \in Sessions : Use(t)
    PROVE  Lasts(s)
  <1>1. account' = account /\ invalidBefore' = invalidBefore
    BY DEF Tick, Use, user
  <1>2. Valid(s)' => Valid(s)
    BY TickSound, UseSound
  <1>3. \/ session'[s] = session[s]
        \/ session[s] \in Rows /\ session[s].row = "open" /\ session'[s] = Touched(s)
    <2>1. ASSUME NEW t \in Sessions, Use(t)
          PROVE  \/ session'[s] = session[s]
                 \/ session[s] \in Rows /\ session[s].row = "open" /\ session'[s] = Touched(s)
      BY <2>1, RowTyped DEF Use, Usable, Valid, SessionInv, SessionOK
    <2>2. QED
      BY <2>1 DEF Tick
  <1>4. /\ session'[s].row = session[s].row
        /\ session[s].row = "open" => /\ session'[s].owner = session[s].owner
                                      /\ session'[s].opened = session[s].opened
                                      /\ session'[s].created = session[s].created
    BY <1>3 DEF Touched, Rows
  <1>5. QED
    BY <1>1, <1>2, <1>4 DEF Lasts, Usable, Valid

\* Every step is one that PasswordSessions allows.
LEMMA ActingStep ==
    ASSUME SessionInv, [Next]_vars
    PROVE  [Acting!Next]_(Acting!sessionVars)
  <1>1. CASE \E l \in Logins, s \in Sessions : Login(l, s)
    BY <1>1, LoginOpens, LoginActs
  <1>2. ASSUME NEW u \in Users, NEW a \in {"eligible", "ineligible"}, ChangePassword(u, a), Ending
        PROVE  Acting!Next
    BY <1>2, PasswordEnds DEF Acting!Next
  <1>3. ASSUME \A s \in Sessions : Lasts(s),
               ~\E u \in Users, a \in {"eligible", "ineligible"} : ChangePassword(u, a)
        PROVE  Acting!Next
    BY <1>3, PasswordsStay, LastingEnds DEF Acting!Next
  <1>4. CASE Ending
    BY <1>2, <1>3, <1>4, EndingLasts
  <1>5. CASE Tick \/ \E s \in Sessions : Use(s)
    <2>1. ~\E u \in Users, a \in {"eligible", "ineligible"} : ChangePassword(u, a)
      <3>1. hash' = hash
        BY <1>5 DEF Tick, Use, user
      <3>2. ASSUME NEW u \in Users, NEW a, ChangePassword(u, a)
            PROVE  FALSE
        BY <3>1, <3>2 DEF ChangePassword, SessionInv, UserOK, Hashes
      <3>3. QED
        BY <3>2
    <2>2. QED
      BY <1>3, <1>5, <2>1, TimeLasts
  <1>6. QED
    BY <1>1, <1>4, <1>5, StepKinds

\* At first no session is open and every password is the first.
LEMMA ActingInit == Init => Acting!Init
  <1> SUFFICES ASSUME Init PROVE Acting!Init
    OBVIOUS
  <1>1. \A s \in Sessions : Standing[s] = Acting!Unopened
    BY StandingIs DEF Init, Absent
  <1>2. \A u \in Users : hash[u].password = 0
    BY DEF Init
  <1>3. QED
    BY <1>1, <1>2 DEF Acting!Init, Standing, Password

\* Whatever logins, requests, revocations, account changes and passes do in whatever
\* order, for any users, limit and lifetimes, the sessions through which a request can act
\* are what PasswordSessions promises.
THEOREM BrowserIsSessions == Spec => ImplementsSessions
  BY ActingInit, ActingStep, SessionInvHolds, PTL DEF Spec, ImplementsSessions, Acting!Spec
=============================================================================
