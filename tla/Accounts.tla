------------------------------ MODULE Accounts ------------------------------
(***************************************************************************)
(* Staff accounts and sessions of the web server (app.js, postgres.js).    *)
(* The accounts are one list in one setting, read and written whole.  A    *)
(* session is a row; with Redis on, a copy of it is cached for a minute,   *)
(* and revoking a user's sessions stamps a marker that makes older copies  *)
(* stale.  Every statement and every Redis command is a step of its own;   *)
(* Redis commands, and statements whose error is swallowed, may fail, and  *)
(* the server may die between any two steps.                               *)
(***************************************************************************)
EXTENDS Naturals, FiniteSets

CONSTANTS
    Handlers,   \* requests the server handles at a time
    Ids, Tokens,
    Names, Roles, Passwords,
    Unused,     \* an id no account has had yet
    Removed,    \* the id of a removed account
    NoSession,
    Created,    \* what an account may be created as
    Scenarios   \* initial accounts and how many edits, creates, logins, calls, logouts and faults

Account == [name : Names, role : Roles, password : Passwords, legacy : BOOLEAN]
Session == [user : Ids, role : Roles, password : Passwords]

ASSUME DistinctAssumption ==
    {Unused, Removed} \cap Account = {} /\ NoSession \notin Session /\ Unused # Removed

Lists == [Ids -> Account \cup {Unused, Removed}]
In(list) == {u \in Ids : list[u] \in Account}
Unique(list) == \A u, v \in In(list) : list[u].name = list[v].name => u = v

ASSUME ConstantsAssumption ==
    /\ Created \subseteq Account
    /\ \A s \in Scenarios :
        /\ s.users \in Lists /\ Unique(s.users)
        /\ \A kind \in {"edits", "creates", "logins", "calls", "logouts", "faults"} : s[kind] \in Nat

VARIABLES
    users,      \* the staff_users setting
    rows,       \* sessions; the password is history: the one it was opened with
    cache,      \* Redis: session:<token>, with the marker as it was when cached
    marker,     \* Redis: userrevoke:<id>, how often it was stamped
    handler,    \* requests under way
    issued,     \* tokens given out
    budget,     \* what is left of the scenario
    loggedOut,  \* history: tokens whose logout has answered
    unsettled,  \* history: users with a change that a login or another write crossed, that
                \* the data API made, or whose rows were not deleted for a failure or a crash
    raced       \* history: tokens whose copy was written after their row was deleted, or
                \* outlived its revocation for a failure or a crash

stored == <<users, rows, cache, marker>>
history == <<loggedOut, unsettled, raced>>
vars == <<stored, handler, issued, budget, history>>

Idle == [step |-> "idle"]

Init ==
    /\ budget \in Scenarios
    /\ users = budget.users
    /\ rows = [t \in Tokens |-> NoSession] /\ cache = [t \in Tokens |-> NoSession]
    /\ marker = [u \in Ids |-> 0]
    /\ handler = [h \in Handlers |-> Idle] /\ issued = {}
    /\ loggedOut = {} /\ unsettled = {} /\ raced = {}

Spend(kind) == budget[kind] > 0 /\ budget' = [budget EXCEPT ![kind] = @ - 1]
Fault == Spend("faults")
Fine == UNCHANGED budget

Go(h, step) == handler' = [handler EXCEPT ![h].step = step]
End(h) == handler' = [handler EXCEPT ![h] = Idle]

-----------------------------------------------------------------------------
(* Accounts.  The list is read, changed in memory and written whole.       *)

\* Slip: only the account changed is written, into what the list is by now.
WrittenAlone(list, u, next) == [users EXCEPT ![u] = next]

\* What the list is after a copy of it was written back with one account changed.
Written(list, u, next) ==
    [v \in Ids |-> IF v = u THEN next
                   ELSE IF list[v] = Unused /\ users[v] # Unused THEN Removed ELSE list[v]]

Opens(account, session) ==
    account \in Account /\ account.role = session.role /\ account.password = session.password
Differs(a, b) ==
    (a \in Account) # (b \in Account) \/ (a \in Account /\ (a.role # b.role \/ a.password # b.password))

\* The accounts a write changes besides its own were written by others since it read; the
\* sessions of its own are revoked next, or not at all.
Write(list, u, next, revoke) ==
    /\ users' = Written(list, u, next)
    /\ unsettled' = unsettled \cup {v \in Ids : Differs(users'[v], users[v]) /\
                                     (v = u => ~revoke /\ users[u] # Unused)}

Start(h, kind, request) ==
    handler[h] = Idle /\ Spend(kind) /\ handler' = [handler EXCEPT ![h] = request]
Change(u, next, revoke) ==
    [step |-> "write", user |-> u, list |-> users, next |-> next, revoke |-> revoke]

\* Creates an account under a name the list does not have.
StartCreate(h, u, account) ==
    /\ users[u] = Unused
    /\ \A g \in Handlers : handler[g].step = "write" => handler[g].user # u
    /\ \A v \in In(users) : users[v].name # account.name
    /\ Start(h, "creates", Change(u, account, FALSE))
    /\ UNCHANGED <<stored, issued, history>>

\* Removes an account, changes its role or resets its password.
Edits(u) ==
    {Removed} \cup {[users[u] EXCEPT !.role = role] : role \in Roles}
    \cup {[users[u] EXCEPT !.password = password, !.legacy = FALSE] : password \in Passwords}

\* The page may not reset the password of an admin.
StartEdit(h, u) ==
    /\ u \in In(users)
    /\ \E next \in Edits(u) :
        /\ next \in Account /\ next.password # users[u].password => users[u].role # "admin"
        /\ Start(h, "edits", Change(u, next, TRUE))
    /\ UNCHANGED <<stored, issued, history>>

\* The data API may, and revokes no session.
StartApiEdit(h, u) ==
    /\ u \in In(users)
    /\ \E next \in Edits(u) : Start(h, "edits", Change(u, next, FALSE))
    /\ UNCHANGED <<stored, issued, history>>

WriteList(h) ==
    /\ handler[h].step = "write"
    /\ Write(handler[h].list, handler[h].user, handler[h].next, handler[h].revoke)
    /\ IF handler[h].revoke THEN Go(h, "drop") ELSE End(h)
    /\ Fine /\ UNCHANGED <<rows, cache, marker, issued, loggedOut, raced>>

\* Slip: the marker is all that revokes.
KeepRows(u) == rows
RowsWithout(u) ==
    [t \in Tokens |-> IF rows[t] # NoSession /\ rows[t].user = u THEN NoSession ELSE rows[t]]

\* An error is swallowed, and the change is answered with success.
DropRows(h) ==
    /\ handler[h].step = "drop"
    /\ \/ rows' = RowsWithout(handler[h].user) /\ unsettled' = unsettled \ {handler[h].user} /\ Fine
       \/ Fault /\ unsettled' = unsettled \cup {handler[h].user} /\ UNCHANGED rows
    /\ Go(h, "stamp")
    /\ UNCHANGED <<users, cache, marker, issued, loggedOut, raced>>

\* Slip: no marker.
NotStamped(u) == marker
Stamped(u) == [marker EXCEPT ![u] = @ + 1]
CachedFor(u) == {t \in Tokens : cache[t] # NoSession /\ cache[t].user = u}

StampMarker(h) ==
    /\ handler[h].step = "stamp"
    /\ \/ marker' = Stamped(handler[h].user) /\ raced' = raced \ CachedFor(handler[h].user) /\ Fine
       \/ Fault /\ raced' = raced \cup CachedFor(handler[h].user) /\ UNCHANGED marker
    /\ End(h)
    /\ UNCHANGED <<users, rows, cache, issued, loggedOut, unsettled>>

-----------------------------------------------------------------------------
(* Sign-in.  The account is looked up and verified in one read of the      *)
(* list; an account of the old format is rewritten in that copy.           *)

StartLogin(h, u) ==
    /\ u \in In(users)
    /\ Start(h, "logins", [step |-> IF users[u].legacy THEN "upgrade" ELSE "issue",
                           user |-> u, list |-> users])
    /\ UNCHANGED <<stored, issued, history>>

Upgrade(h) ==
    /\ handler[h].step = "upgrade"
    /\ LET list == handler[h].list  u == handler[h].user IN
       \/ /\ users' = Written(list, u, [list[u] EXCEPT !.legacy = FALSE])
          /\ unsettled' = unsettled \cup {v \in Ids : Differs(users'[v], users[v])} /\ Fine
       \/ Fault /\ UNCHANGED <<users, unsettled>>
    /\ Go(h, "issue")
    /\ UNCHANGED <<rows, cache, marker, issued, loggedOut, raced>>

\* The session carries the role the copy of the list had.
Issue(h, t) ==
    /\ handler[h].step = "issue" /\ t \notin issued
    /\ LET u == handler[h].user
           account == handler[h].list[u]
           session == [user |-> u, role |-> account.role, password |-> account.password]
       IN  /\ rows' = [rows EXCEPT ![t] = session]
           /\ unsettled' = IF Opens(users[u], session) THEN unsettled ELSE unsettled \cup {u}
    /\ issued' = issued \cup {t}
    /\ End(h) /\ Fine
    /\ UNCHANGED <<users, cache, marker, loggedOut, raced>>

-----------------------------------------------------------------------------
(* A request with a cookie.  The copy and the marker are read apart.       *)

Fresh(entry) == entry.at >= marker[entry.user]
Uncached(t) == [cache EXCEPT ![t] = NoSession]

Stale(entry) == ~Fresh(entry)

StartCall(h, t) ==
    /\ t \in issued
    /\ Start(h, "calls", [step |-> IF cache[t] = NoSession THEN "row" ELSE "marker",
                          token |-> t, session |-> cache[t]])
    /\ UNCHANGED <<stored, issued, history>>

\* A marker that cannot be read revokes nothing.
CheckMarker(h) ==
    /\ handler[h].step = "marker"
    /\ \/ /\ Stale(handler[h].session)
          /\ cache' = Uncached(handler[h].token) /\ raced' = raced \ {handler[h].token}
          /\ Go(h, "row") /\ Fine
       \/ /\ ~Stale(handler[h].session) \/ budget.faults > 0
          /\ End(h) /\ UNCHANGED <<cache, raced>>
          /\ IF Stale(handler[h].session) THEN Fault ELSE Fine
    /\ UNCHANGED <<users, rows, marker, issued, loggedOut, unsettled>>

ReadRow(h) ==
    /\ handler[h].step = "row"
    /\ IF rows[handler[h].token] = NoSession THEN End(h)
       ELSE handler' = [handler EXCEPT ![h].step = "put", ![h].session = rows[handler[h].token]]
    /\ Fine /\ UNCHANGED <<stored, issued, history>>

Entry(session) == [user |-> session.user, role |-> session.role, at |-> marker[session.user]]

\* The copy is dated when it is written, not when its row was read.
Put(h) ==
    /\ handler[h].step = "put"
    /\ LET t == handler[h].token IN
       \/ /\ cache' = [cache EXCEPT ![t] = Entry(handler[h].session)]
          /\ raced' = IF rows[t] = NoSession THEN raced \cup {t} ELSE raced \ {t}
          /\ Fine
       \/ Fault /\ UNCHANGED <<cache, raced>>
    /\ End(h)
    /\ UNCHANGED <<users, rows, marker, issued, loggedOut, unsettled>>

\* Slip: a copy is kept until it is replaced.
NeverExpires(t) == FALSE
Expires(t) == cache[t] # NoSession

Expire(t) ==
    /\ Expires(t)
    /\ cache' = Uncached(t) /\ raced' = raced \ {t}
    /\ UNCHANGED <<users, rows, marker, handler, issued, budget, loggedOut, unsettled>>

-----------------------------------------------------------------------------
(* Logout: the row, then the copy.  An error is swallowed.                 *)

StartLogout(h, t) ==
    /\ t \in issued \ loggedOut
    /\ Start(h, "logouts", [step |-> "logout", token |-> t])
    /\ UNCHANGED <<stored, issued, history>>

LogoutRow(h) ==
    /\ handler[h].step = "logout"
    /\ \/ rows' = [rows EXCEPT ![handler[h].token] = NoSession] /\ Fine
       \/ Fault /\ UNCHANGED rows
    /\ Go(h, "forget")
    /\ UNCHANGED <<users, cache, marker, issued, history>>

LogoutCopy(h) ==
    /\ handler[h].step = "forget"
    /\ LET t == handler[h].token IN
       /\ \/ cache' = Uncached(t) /\ raced' = raced \ {t} /\ Fine
          \/ Fault /\ raced' = raced \cup {t} /\ UNCHANGED cache
       /\ loggedOut' = loggedOut \cup {t}
    /\ End(h)
    /\ UNCHANGED <<users, rows, marker, issued, unsettled>>

-----------------------------------------------------------------------------
At(step) == {h \in Handlers : handler[h].step = step}

\* The server dies and is started again: requests are gone, also those that have changed an
\* account or deleted a row and have yet to revoke.  The database and Redis keep what they have.
Crash ==
    /\ Fault /\ handler' = [h \in Handlers |-> Idle]
    /\ unsettled' = unsettled \cup {handler[h].user : h \in At("drop")}
    /\ raced' = raced \cup {handler[h].token : h \in At("forget")}
                     \cup UNION {CachedFor(handler[h].user) : h \in At("stamp")}
    /\ UNCHANGED <<stored, issued, loggedOut>>

Step(h) ==
    \/ WriteList(h) \/ DropRows(h) \/ StampMarker(h)
    \/ Upgrade(h) \/ \E t \in Tokens : Issue(h, t)
    \/ CheckMarker(h) \/ ReadRow(h) \/ Put(h)
    \/ LogoutRow(h) \/ LogoutCopy(h)

Next ==
    \/ \E h \in Handlers :
        \/ Step(h)
        \/ \E u \in Ids : StartEdit(h, u) \/ StartApiEdit(h, u) \/ StartLogin(h, u)
                       \/ \E a \in Created : StartCreate(h, u, a)
        \/ \E t \in Tokens : StartCall(h, t) \/ StartLogout(h, t)
    \/ \E t \in Tokens : Expire(t)
    \/ Crash

Spec == Init /\ [][Next]_vars

\* A statement answers or fails, and Redis expires what it keeps.
FairSpec ==
    /\ Spec /\ \A h \in Handlers : WF_vars(Step(h)) /\ \A t \in Tokens : WF_vars(Expire(t))

-----------------------------------------------------------------------------
(* Properties.                                                             *)

\* The state of the accounts, sessions and requests has the shape the code gives it.
TypeOK ==
    /\ users \in Lists
    /\ rows \in [Tokens -> Session \cup {NoSession}]
    /\ \A t \in Tokens : cache[t] # NoSession =>
        cache[t].user \in Ids /\ cache[t].role \in Roles /\ cache[t].at <= marker[cache[t].user]
    /\ \A t \in Tokens \ issued : rows[t] = NoSession /\ cache[t] = NoSession
    /\ \A h \in Handlers : handler[h].step \in
        {"idle", "write", "drop", "stamp", "upgrade", "issue", "marker", "row", "put", "logout", "forget"}
    /\ loggedOut \subseteq issued /\ raced \subseteq Tokens /\ unsettled \subseteq Ids

\* A session opens no account, and no role or password, but the one its user has
\* (postgres.js:1375), until the change that revokes it has deleted its row, unless the
\* user is unsettled: a login or a write of the list crossed the change, the data API made it, or
\* the delete failed or was cut off.
SessionIsCurrent ==
    \A t \in Tokens : rows[t] # NoSession /\ rows[t].user \notin unsettled =>
        \/ Opens(users[rows[t].user], rows[t])
        \/ \E h \in Handlers : handler[h].step = "drop" /\ handler[h].user = rows[t].user

\* A cached copy that a request would use has its row, while the row's deletion is not
\* under way, unless it was written after the row was gone, or Redis failed the revocation or a crash cut
\* it off (app.js:1721-1725).
CopyHasRow ==
    \A t \in Tokens : cache[t] # NoSession /\ Fresh(cache[t]) /\ rows[t] = NoSession /\ t \notin raced =>
        \E h \in Handlers :
            \/ handler[h].step = "stamp" /\ handler[h].user = cache[t].user
            \/ handler[h].step = "forget" /\ handler[h].token = t

\* No two accounts have one name, although the check and the write are apart (app.js:5521).
NamesUnique == Unique(users)

\* Once its row is gone a session is used for no longer than a copy lasts, whatever failed.
RevokedEnds == \A t \in Tokens : t \in issued /\ rows[t] = NoSession ~> [](cache[t] = NoSession)
=============================================================================
