-------------------------- MODULE Accounts_proofs --------------------------
(***************************************************************************)
(* Types, unique names and current sessions, for any number of requests,   *)
(* accounts, tokens and failures.                                          *)
(***************************************************************************)
EXTENDS Accounts, TLAPS

-----------------------------------------------------------------------------
(* The inductive invariant                                                 *)

Copy == [user : Ids, role : Roles, at : Nat]

\* A request is one of four kinds, each with what it keeps from step to step.
Editing == [step : {"write", "drop", "stamp"}, user : Ids, list : Lists,
            next : Account \cup {Removed}, revoke : BOOLEAN]
Login == [step : {"upgrade", "issue"}, user : Ids, list : Lists]
Call == [step : {"marker", "row", "put"}, token : issued, session : Session \cup Copy \cup {NoSession}]
Logout == [step : {"logout", "forget"}, token : issued]
Request == {Idle} \cup Editing \cup Login \cup Call \cup Logout

Shape ==
    /\ users \in Lists
    /\ rows \in [Tokens -> Session \cup {NoSession}]
    /\ cache \in [Tokens -> Copy \cup {NoSession}]
    /\ marker \in [Ids -> Nat]
    /\ handler \in [Handlers -> Request]
    /\ issued \subseteq Tokens /\ loggedOut \subseteq issued
    /\ raced \subseteq Tokens /\ unsettled \subseteq Ids

\* What a request has read fits the step it is at.
InHand ==
    \A h \in Handlers :
        /\ handler[h].step = "marker" => handler[h].session \in Copy
        /\ handler[h].step = "put" => handler[h].session \in Session
        /\ handler[h].step \in {"upgrade", "issue"} => handler[h].list[handler[h].user] \in Account

Unissued == \A t \in Tokens \ issued : rows[t] = NoSession /\ cache[t] = NoSession
NotAhead == \A t \in Tokens : cache[t] # NoSession => cache[t].at <= marker[cache[t].user]

TypeInv == Shape /\ InHand /\ Unissued /\ NotAhead

\* Every list that may be written has unique names once it is changed.
Pending ==
    \A h \in Handlers :
        /\ handler[h].step = "write" => Unique([handler[h].list EXCEPT ![handler[h].user] = handler[h].next])
        /\ handler[h].step \in {"upgrade", "issue"} => Unique(handler[h].list)
NamesInv == NamesUnique /\ Pending

\* Who has a session, or is signing in, has had an account.
HadAccount ==
    /\ \A t \in Tokens : rows[t] # NoSession => users[rows[t].user] # Unused
    /\ \A h \in Handlers : handler[h].step \in {"upgrade", "issue"} => users[handler[h].user] # Unused
SessionsInv == HadAccount /\ SessionIsCurrent

Inv == TypeInv /\ NamesInv /\ SessionsInv

-----------------------------------------------------------------------------
LEMMA Kinds ==
    ASSUME NEW r \in Request
    PROVE  /\ r.step \in {"idle", "write", "drop", "stamp", "upgrade", "issue",
                          "marker", "row", "put", "logout", "forget"}
           /\ r.step \in {"write", "drop", "stamp"} => r \in Editing
           /\ r.step \in {"upgrade", "issue"} => r \in Login
           /\ r.step \in {"marker", "row", "put"} => r \in Call
           /\ r.step \in {"logout", "forget"} => r \in Logout
BY DEF Request, Editing, Login, Call, Logout, Idle

LEMMA TypeInvImplies == TypeInv => TypeOK
<1> SUFFICES ASSUME TypeInv PROVE TypeOK
    OBVIOUS
<1>1. \A t \in Tokens : cache[t] # NoSession => cache[t] \in Copy
    BY DEF TypeInv, Shape
<1>2. \A h \in Handlers : handler[h] \in Request
    BY DEF TypeInv, Shape
<1> QED
    BY <1>1, <1>2, Kinds DEF TypeInv, Shape, Unissued, NotAhead, Copy, TypeOK

\* Writing a list back keeps the accounts of the copy, the one changed, and no others.
LEMMA WrittenList ==
    ASSUME users \in Lists, NEW list \in Lists, NEW u \in Ids, NEW next \in Account \cup {Removed}
    PROVE  /\ Written(list, u, next) \in Lists
           /\ Unique([list EXCEPT ![u] = next]) => Unique(Written(list, u, next))
           /\ \A v \in Ids : users[v] # Unused => Written(list, u, next)[v] # Unused
<1> DEFINE w == Written(list, u, next)
           c == [list EXCEPT ![u] = next]
<1>1. w \in Lists /\ c \in Lists
    BY DEF Written, Lists
<1>2. \A v \in Ids : w[v] = c[v] \/ w[v] = Removed
    BY DEF Written, Lists
<1>3. Unique(c) => Unique(w)
    BY <1>1, <1>2, DistinctAssumption DEF Unique, In, Lists
<1>4. \A v \in Ids : users[v] # Unused => w[v] # Unused
    BY DistinctAssumption DEF Written, Lists
<1> QED
    BY <1>1, <1>3, <1>4

LEMMA InitInv == Init => Inv
<1> SUFFICES ASSUME Init PROVE Inv
    OBVIOUS
<1>1. Shape
    BY ConstantsAssumption DEF Init, Shape, Request
<1>2. \A h \in Handlers : handler[h].step = "idle"
    BY DEF Init, Idle
<1>3. TypeInv
    BY <1>1, <1>2 DEF Init, InHand, Unissued, NotAhead, TypeInv
<1>4. NamesInv
    BY <1>2, ConstantsAssumption DEF Init, NamesInv, NamesUnique, Pending
<1>5. SessionsInv
    BY <1>2 DEF Init, SessionsInv, HadAccount, SessionIsCurrent
<1> QED
    BY <1>3, <1>4, <1>5 DEF Inv


-----------------------------------------------------------------------------
(* One lemma per action.                                                   *)

\* A request begins: nothing stored changes.
LEMMA Begun ==
    ASSUME Inv, NEW h \in Handlers, NEW r \in Request,
           handler' = [handler EXCEPT ![h] = r], handler[h] = Idle,
           UNCHANGED <<stored, issued, history>>,
           r.step = "marker" => r.session \in Copy,
           r.step # "put",
           r.step \in {"upgrade", "issue"} =>
               Unique(r.list) /\ r.list[r.user] \in Account /\ users[r.user] # Unused,
           r.step = "write" => Unique([r.list EXCEPT ![r.user] = r.next])
    PROVE  Inv'
<1>1. \A g \in Handlers : handler'[g] = IF g = h THEN r ELSE handler[g]
    BY DEF Inv, TypeInv, Shape
<1>2. Request' = Request
    BY DEF Request, Call, Logout
<1>3. TypeInv'
    BY <1>1, <1>2 DEF Inv, TypeInv, Shape, InHand, Unissued, NotAhead, stored, history
<1>4. NamesInv'
    BY <1>1 DEF Inv, NamesInv, NamesUnique, Pending, stored
<1>5. HadAccount'
    BY <1>1 DEF Inv, SessionsInv, HadAccount, stored
<1>6. SessionIsCurrent'
    BY <1>1 DEF Inv, SessionsInv, SessionIsCurrent, Idle, stored, history
<1> QED
    BY <1>3, <1>4, <1>5, <1>6 DEF Inv, SessionsInv

LEMMA Starts ==
    ASSUME Inv, NEW h \in Handlers,
           \/ \E u \in Ids : \/ StartEdit(h, u) \/ StartApiEdit(h, u) \/ StartLogin(h, u)
                             \/ \E a \in Created : StartCreate(h, u, a)
           \/ \E t \in Tokens : StartCall(h, t) \/ StartLogout(h, t)
    PROVE  Inv'
<1>1. users \in Lists /\ Unique(users)
    BY DEF Inv, TypeInv, Shape, NamesInv, NamesUnique
<1>2. ASSUME NEW u \in In(users), NEW next \in Edits(u), NEW revoke \in BOOLEAN
      PROVE  /\ Change(u, next, revoke) \in Editing /\ Change(u, next, revoke).step = "write"
             /\ Unique([users EXCEPT ![u] = next])
    <2>1. users[u] \in Account /\ u \in Ids
        BY DEF In
    <2>2. next = Removed \/ (next \in Account /\ next.name = users[u].name)
        BY <2>1 DEF Edits, Account
    <2>3. Unique([users EXCEPT ![u] = next])
        BY <1>1, <2>1, <2>2, DistinctAssumption DEF Unique, In, Lists
    <2>4. next \in Account \cup {Removed}
        BY <2>2
    <2> QED
        BY <1>1, <2>1, <2>3, <2>4 DEF Change, Editing
<1>3. ASSUME NEW u \in Ids, StartEdit(h, u) \/ StartApiEdit(h, u) PROVE Inv'
    <2>1. PICK next \in Edits(u), revoke \in BOOLEAN : Start(h, "edits", Change(u, next, revoke))
        BY <1>3 DEF StartEdit, StartApiEdit
    <2>2. u \in In(users) /\ UNCHANGED <<stored, issued, history>>
        BY <1>3 DEF StartEdit, StartApiEdit
    <2>3. Change(u, next, revoke) \in Request
        BY <1>2, <2>2 DEF Request
    <2>4. /\ Change(u, next, revoke).list = users /\ Change(u, next, revoke).user = u
          /\ Change(u, next, revoke).next = next
        BY DEF Change
    <2> QED
        BY <1>2, <2>1, <2>2, <2>3, <2>4, Begun DEF Start
<1>4. ASSUME NEW u \in Ids, NEW a \in Created, StartCreate(h, u, a) PROVE Inv'
    <2> DEFINE r == Change(u, a, FALSE)
    <2>1. Start(h, "creates", r) /\ users[u] = Unused /\ UNCHANGED <<stored, issued, history>>
        BY <1>4 DEF StartCreate
    <2>2. a \in Account /\ \A v \in In(users) : users[v].name # a.name
        BY <1>4, ConstantsAssumption DEF StartCreate
    <2>3. Unique([users EXCEPT ![u] = a])
        BY <1>1, <2>1, <2>2, DistinctAssumption DEF Unique, In, Lists
    <2>4. r \in Editing /\ r.step = "write" /\ r.list = users /\ r.user = u /\ r.next = a
        BY <1>1, <2>2 DEF Change, Editing
    <2> QED
        BY <2>1, <2>3, <2>4, Begun DEF Start, Request
<1>5. ASSUME NEW u \in Ids, StartLogin(h, u) PROVE Inv'
    <2> DEFINE r == [step |-> IF users[u].legacy THEN "upgrade" ELSE "issue", user |-> u, list |-> users]
    <2>1. Start(h, "logins", r) /\ u \in In(users) /\ UNCHANGED <<stored, issued, history>>
        BY <1>5 DEF StartLogin
    <2>2. users[u] \in Account /\ users[u] # Unused
        BY <2>1, DistinctAssumption DEF In
    <2>3. r \in Login /\ r.step \in {"upgrade", "issue"} /\ r.list = users /\ r.user = u
        BY <1>1 DEF Login
    <2> HIDE DEF r
    <2> QED
        BY <1>1, <2>1, <2>2, <2>3, Begun DEF Start, Request
<1>6. ASSUME NEW t \in Tokens, StartCall(h, t) PROVE Inv'
    <2> DEFINE r == [step |-> IF cache[t] = NoSession THEN "row" ELSE "marker", token |-> t, session |-> cache[t]]
    <2>1. Start(h, "calls", r) /\ t \in issued /\ UNCHANGED <<stored, issued, history>>
        BY <1>6 DEF StartCall
    <2>2. cache[t] \in Copy \cup {NoSession}
        BY DEF Inv, TypeInv, Shape
    <2>3. r \in Call /\ r.step \in {"row", "marker"} /\ (r.step = "marker" => r.session \in Copy)
        BY <2>1, <2>2 DEF Call
    <2> HIDE DEF r
    <2> QED
        BY <2>1, <2>3, Begun DEF Start, Request
<1>7. ASSUME NEW t \in Tokens, StartLogout(h, t) PROVE Inv'
    <2> DEFINE r == [step |-> "logout", token |-> t]
    <2>1. Start(h, "logouts", r) /\ t \in issued /\ UNCHANGED <<stored, issued, history>>
        BY <1>7 DEF StartLogout
    <2>2. r \in Logout /\ r.step = "logout"
        BY <2>1 DEF Logout
    <2> HIDE DEF r
    <2> QED
        BY <2>1, <2>2, Begun DEF Start, Request
<1> QED
    BY <1>3, <1>4, <1>5, <1>6, <1>7

-----------------------------------------------------------------------------
\* A request goes on, or is over.
LEMMA Onward ==
    ASSUME TypeInv, NEW h \in Handlers, issued \subseteq issued', NEW r, r \in Request',
           handler' = [handler EXCEPT ![h] = r],
           r.step # "marker", r.step = "put" => r.session \in Session,
           r.step = "issue" => r.list[r.user] \in Account, r.step # "upgrade"
    PROVE  handler' \in [Handlers -> Request'] /\ InHand'
<1>1. \A g \in Handlers : handler'[g] = IF g = h THEN r ELSE handler[g]
    BY DEF TypeInv, Shape
<1>2. Request \subseteq Request'
    BY DEF Request, Call, Logout
<1>3. handler' \in [Handlers -> Request']
    BY <1>2 DEF TypeInv, Shape
<1>4. InHand'
    BY <1>1 DEF TypeInv, InHand
<1> QED
    BY <1>3, <1>4

\* The request at the next step of its kind.
LEMMA GoesOn ==
    ASSUME TypeInv, NEW h \in Handlers, NEW step, Go(h, step), UNCHANGED issued,
           \/ handler[h].step \in {"write", "drop", "stamp"} /\ step \in {"drop", "stamp"}
           \/ handler[h].step \in {"upgrade", "issue"} /\ step = "issue"
           \/ handler[h].step = "marker" /\ step = "row"
           \/ handler[h].step \in {"logout", "forget"} /\ step = "forget"
    PROVE  /\ handler' \in [Handlers -> Request'] /\ InHand'
           /\ \A g \in Handlers : g # h => handler'[g] = handler[g]
           /\ handler'[h] = [handler[h] EXCEPT !.step = step] /\ handler'[h].step = step
<1> DEFINE r == [handler[h] EXCEPT !.step = step]
<1>1. handler' = [handler EXCEPT ![h] = r] /\ handler[h] \in Request
    BY DEF Go, TypeInv, Shape
<1>2. CASE handler[h].step \in {"write", "drop", "stamp"}
    <2>1. handler[h] \in Editing /\ step \in {"drop", "stamp"}
        BY <1>1, <1>2, Kinds
    <2>2. r \in Editing /\ r.step = step
        BY <2>1 DEF Editing
    <2> QED
        BY <1>1, <2>1, <2>2, Onward DEF Request, TypeInv, Shape
<1>3. CASE handler[h].step \in {"upgrade", "issue"}
    <2>1. handler[h] \in Login /\ step = "issue" /\ handler[h].list[handler[h].user] \in Account
        BY <1>1, <1>3, Kinds DEF TypeInv, InHand
    <2>2. r \in Login /\ r.step = step /\ r.list = handler[h].list /\ r.user = handler[h].user
        BY <2>1 DEF Login
    <2>3. r \in Request'
        BY <2>2 DEF Request
    <2>4. handler' \in [Handlers -> Request'] /\ InHand'
        <3> HIDE DEF r
        <3> QED
            BY <1>1, <2>1, <2>2, <2>3, Onward
    <2> QED
        BY <1>1, <2>2, <2>4 DEF TypeInv, Shape
<1>4. CASE handler[h].step = "marker"
    <2>1. handler[h] \in Call /\ step = "row"
        BY <1>1, <1>4, Kinds
    <2>2. r \in Call /\ r.step = step
        BY <2>1 DEF Call
    <2>3. r \in Request'
        BY <2>2 DEF Request, Call
    <2> QED
        BY <1>1, <2>1, <2>2, <2>3, Onward DEF TypeInv, Shape
<1>5. CASE handler[h].step \in {"logout", "forget"}
    <2>1. handler[h] \in Logout /\ step = "forget"
        BY <1>1, <1>5, Kinds
    <2>2. r \in Logout /\ r.step = step
        BY <2>1 DEF Logout
    <2>3. r \in Request'
        BY <2>2 DEF Request, Logout
    <2> QED
        BY <1>1, <2>1, <2>2, <2>3, Onward DEF TypeInv, Shape
<1> QED
    BY <1>2, <1>3, <1>4, <1>5

LEMMA IsOver ==
    ASSUME TypeInv, NEW h \in Handlers, End(h), issued \subseteq issued'
    PROVE  /\ handler' \in [Handlers -> Request'] /\ InHand'
           /\ \A g \in Handlers : g # h => handler'[g] = handler[g]
           /\ handler'[h] = Idle /\ handler'[h].step = "idle"
<1>1. Idle \in Request' /\ Idle.step = "idle"
    BY DEF Request, Idle
<1> QED
    BY <1>1, Onward DEF End, TypeInv, Shape

\* A step that leaves accounts and rows alone, and no change or sign-in behind.
LEMMA Elsewhere ==
    ASSUME Inv, TypeInv', UNCHANGED <<users, rows, unsettled>>,
           \A g \in Handlers :
               \/ handler'[g] = handler[g]
               \/ handler[g].step # "drop" /\ handler'[g].step \notin {"write", "upgrade", "issue"}
    PROVE  Inv'
<1>1. NamesInv'
    BY DEF Inv, NamesInv, NamesUnique, Pending
<1>2. HadAccount'
    BY DEF Inv, SessionsInv, HadAccount
<1>3. SessionIsCurrent'
    BY DEF Inv, SessionsInv, SessionIsCurrent
<1> QED
    BY <1>1, <1>2, <1>3 DEF Inv, SessionsInv

-----------------------------------------------------------------------------
\* The cached copies and the marker.
LEMMA CacheSteps ==
    ASSUME Inv, NEW h \in Handlers, StampMarker(h) \/ CheckMarker(h) \/ ReadRow(h) \/ Put(h) \/ LogoutCopy(h)
    PROVE  Inv'
<1>1. TypeInv /\ handler[h] \in Request /\ handler \in [Handlers -> Request]
    BY DEF Inv, TypeInv, Shape
<1>2. CASE StampMarker(h)
    <2>1. End(h) /\ handler[h].step = "stamp" /\ UNCHANGED <<users, rows, cache, issued, loggedOut, unsettled>>
        BY <1>2 DEF StampMarker
    <2>2. handler[h].user \in Ids
        BY <1>1, <2>1, Kinds DEF Editing
    <2>3. /\ marker' \in [Ids -> Nat] /\ \A u \in Ids : marker[u] <= marker'[u]
          /\ raced' \subseteq Tokens
        BY <1>1, <1>2, <2>2 DEF StampMarker, Stamped, CachedFor, TypeInv, Shape
    <2>4. NotAhead'
        BY <1>1, <2>1, <2>3 DEF TypeInv, Shape, NotAhead, Copy
    <2>5. TypeInv'
        BY <1>1, <2>1, <2>3, <2>4, IsOver DEF TypeInv, Shape, Unissued
    <2> QED
        BY <1>1, <2>1, <2>5, IsOver, Elsewhere
<1>3. CASE CheckMarker(h)
    <2>1. handler[h].step = "marker" /\ UNCHANGED <<users, rows, marker, issued, loggedOut, unsettled>>
        BY <1>3 DEF CheckMarker
    <2>2. Go(h, "row") \/ End(h)
        BY <1>3 DEF CheckMarker
    <2>3. handler[h].token \in issued
        BY <1>1, <2>1, Kinds DEF Call
    <2>4. cache' \in {cache, [cache EXCEPT ![handler[h].token] = NoSession]} /\ raced' \subseteq raced
        BY <1>3 DEF CheckMarker, Uncached
    <2>5. /\ cache' \in [Tokens -> Copy \cup {NoSession}]
          /\ \A t \in Tokens : cache'[t] \in {cache[t], NoSession}
        BY <1>1, <2>4 DEF TypeInv, Shape
    <2>6. /\ handler' \in [Handlers -> Request'] /\ InHand' /\ handler'[h].step \in {"row", "idle"}
          /\ \A g \in Handlers : g # h => handler'[g] = handler[g]
        BY <1>1, <2>1, <2>2, GoesOn, IsOver
    <2>7. TypeInv'
        BY <1>1, <2>1, <2>4, <2>5, <2>6 DEF TypeInv, Shape, Unissued, NotAhead
    <2> QED
        BY <2>1, <2>6, <2>7, Elsewhere
<1>4. CASE ReadRow(h)
    <2>1. handler[h].step = "row" /\ UNCHANGED <<stored, issued, history>>
        BY <1>4 DEF ReadRow
    <2>2. handler[h] \in Call /\ rows[handler[h].token] \in Session \cup {NoSession}
        <3>1. handler[h] \in Call
            BY <1>1, <2>1, Kinds
        <3> QED
            BY <1>1, <3>1 DEF Call, TypeInv, Shape
    <2>3. /\ handler' \in [Handlers -> Request'] /\ InHand' /\ handler'[h].step \in {"put", "idle"}
          /\ \A g \in Handlers : g # h => handler'[g] = handler[g]
        <3>1. CASE End(h)
            BY <1>1, <2>1, <3>1, IsOver
        <3>2. CASE ~End(h)
            <4> DEFINE r == [handler[h] EXCEPT !.step = "put", !.session = rows[handler[h].token]]
            <4>1. handler' = [handler EXCEPT ![h] = r] /\ rows[handler[h].token] \in Session
                BY <1>4, <2>2, <3>2 DEF ReadRow
            <4>2. r \in Call /\ r.step = "put" /\ r.session \in Session
                BY <2>2, <4>1 DEF Call
            <4>3. r \in Request'
                BY <2>1, <4>2 DEF Request, Call
            <4>4. handler' \in [Handlers -> Request'] /\ InHand'
                <5> HIDE DEF r
                <5> QED
                    BY <1>1, <2>1, <4>1, <4>2, <4>3, Onward
            <4> QED
                BY <1>1, <4>1, <4>2, <4>4
        <3> QED
            BY <3>1, <3>2
    <2>4. TypeInv'
        BY <1>1, <2>1, <2>3 DEF TypeInv, Shape, Unissued, NotAhead, stored, history
    <2> QED
        BY <2>1, <2>3, <2>4, Elsewhere DEF stored, history
<1>5. CASE Put(h)
    <2> DEFINE t == handler[h].token
    <2>1. handler[h].step = "put" /\ End(h) /\ UNCHANGED <<users, rows, marker, issued, loggedOut, unsettled>>
        BY <1>5 DEF Put
    <2>2. t \in issued /\ handler[h].session \in Session
        BY <1>1, <2>1, Kinds DEF Call, TypeInv, InHand
    <2>3. /\ Entry(handler[h].session) \in Copy
          /\ Entry(handler[h].session).at = marker[Entry(handler[h].session).user]
        BY <1>1, <2>2 DEF Entry, Copy, Session, TypeInv, Shape
    <2>4. cache' \in {cache, [cache EXCEPT ![t] = Entry(handler[h].session)]} /\ raced' \subseteq raced \cup {t}
        BY <1>5 DEF Put
    <2>5. /\ cache' \in [Tokens -> Copy \cup {NoSession}] /\ raced' \subseteq Tokens
          /\ \A k \in Tokens : cache'[k] = cache[k] \/ (k = t /\ cache'[k] = Entry(handler[h].session))
        BY <1>1, <2>2, <2>3, <2>4 DEF TypeInv, Shape
    <2>6. NotAhead'
        <3>1. Entry(handler[h].session).at <= marker[Entry(handler[h].session).user]
            BY <1>1, <2>3 DEF TypeInv, Shape, Copy
        <3> QED
            BY <1>1, <2>1, <2>5, <3>1 DEF TypeInv, NotAhead
    <2>7. Unissued'
        BY <1>1, <2>1, <2>2, <2>5 DEF TypeInv, Unissued
    <2>8. TypeInv'
        BY <1>1, <2>1, <2>5, <2>6, <2>7, IsOver DEF TypeInv, Shape
    <2> QED
        BY <1>1, <2>1, <2>8, IsOver, Elsewhere
<1>6. CASE LogoutCopy(h)
    <2> DEFINE t == handler[h].token
    <2>1. handler[h].step = "forget" /\ End(h) /\ UNCHANGED <<users, rows, marker, issued, unsettled>>
        BY <1>6 DEF LogoutCopy
    <2>2. t \in issued
        BY <1>1, <2>1, Kinds DEF Logout
    <2>3. /\ cache' \in {cache, [cache EXCEPT ![t] = NoSession]}
          /\ raced' \subseteq raced \cup {t} /\ loggedOut' = loggedOut \cup {t}
        BY <1>6 DEF LogoutCopy, Uncached
    <2>4. /\ cache' \in [Tokens -> Copy \cup {NoSession}] /\ \A k \in Tokens : cache'[k] \in {cache[k], NoSession}
        BY <1>1, <2>3 DEF TypeInv, Shape
    <2>5. TypeInv'
        BY <1>1, <2>1, <2>2, <2>3, <2>4, IsOver DEF TypeInv, Shape, Unissued, NotAhead
    <2> QED
        BY <1>1, <2>1, <2>5, IsOver, Elsewhere
<1> QED
    BY <1>2, <1>3, <1>4, <1>5, <1>6

LEMMA Expiry ==
    ASSUME Inv, NEW t \in Tokens, Expire(t)
    PROVE  Inv'
<1>1. /\ cache' = [cache EXCEPT ![t] = NoSession] /\ raced' \subseteq raced
      /\ UNCHANGED <<users, rows, marker, handler, issued, loggedOut, unsettled>>
    BY DEF Expire, Uncached
<1>2. /\ cache' \in [Tokens -> Copy \cup {NoSession}] /\ \A k \in Tokens : cache'[k] \in {cache[k], NoSession}
    BY <1>1 DEF Inv, TypeInv, Shape
<1>3. Request' = Request
    BY <1>1 DEF Request, Call, Logout
<1>4. TypeInv'
    BY <1>1, <1>2, <1>3 DEF Inv, TypeInv, Shape, InHand, Unissued, NotAhead
<1> QED
    BY <1>1, <1>4, Elsewhere

-----------------------------------------------------------------------------
\* The rows of sessions.

LEMMA RowSteps ==
    ASSUME Inv, NEW h \in Handlers, DropRows(h) \/ LogoutRow(h)
    PROVE  Inv'
<1>1. TypeInv /\ handler[h] \in Request /\ handler \in [Handlers -> Request]
    BY DEF Inv, TypeInv, Shape
<1>2. CASE DropRows(h)
    <2> DEFINE u == handler[h].user
    <2>1. handler[h].step = "drop" /\ Go(h, "stamp") /\ UNCHANGED <<users, cache, marker, issued, loggedOut, raced>>
        BY <1>2 DEF DropRows
    <2>2. u \in Ids
        BY <1>1, <2>1, Kinds DEF Editing
    <2>3. /\ rows' \in [Tokens -> Session \cup {NoSession}] /\ unsettled' \subseteq Ids
          /\ \A t \in Tokens : rows'[t] \in {rows[t], NoSession}
          /\ \A t \in Tokens : rows'[t] # NoSession /\ rows[t].user = u => u \in unsettled'
          /\ unsettled' \in {unsettled \ {u}, unsettled \cup {u}}
        BY <1>1, <1>2, <2>2 DEF DropRows, RowsWithout, TypeInv, Shape
    <2>4. /\ handler' \in [Handlers -> Request'] /\ InHand' /\ handler'[h].step = "stamp"
          /\ \A g \in Handlers : g # h => handler'[g] = handler[g]
        BY <1>1, <2>1, GoesOn
    <2>5. TypeInv'
        BY <1>1, <2>1, <2>3, <2>4 DEF TypeInv, Shape, Unissued, NotAhead
    <2>6. NamesInv'
        BY <2>1, <2>4 DEF Inv, NamesInv, NamesUnique, Pending
    <2>7. HadAccount'
        BY <2>1, <2>3, <2>4 DEF Inv, SessionsInv, HadAccount
    <2>8. SessionIsCurrent'
        <3> SUFFICES ASSUME NEW t \in Tokens, rows'[t] # NoSession, rows'[t].user \notin unsettled'
                     PROVE  \/ Opens(users[rows[t].user], rows[t])
                            \/ \E g \in Handlers : handler'[g].step = "drop" /\ handler'[g].user = rows[t].user
            BY <2>1, <2>3 DEF SessionIsCurrent
        <3>1. rows'[t] = rows[t] /\ rows[t].user # u /\ rows[t].user \notin unsettled
            BY <2>3
        <3>2. \/ Opens(users[rows[t].user], rows[t])
              \/ \E g \in Handlers : handler[g].step = "drop" /\ handler[g].user = rows[t].user
            BY <3>1 DEF Inv, SessionsInv, SessionIsCurrent
        <3> QED
            BY <2>4, <3>1, <3>2
    <2> QED
        BY <2>5, <2>6, <2>7, <2>8 DEF Inv, SessionsInv
<1>3. CASE LogoutRow(h)
    <2>1. handler[h].step = "logout" /\ Go(h, "forget") /\ UNCHANGED <<users, cache, marker, issued, history>>
        BY <1>3 DEF LogoutRow
    <2>2. /\ rows' \in [Tokens -> Session \cup {NoSession}]
          /\ \A t \in Tokens : rows'[t] \in {rows[t], NoSession}
        BY <1>1, <1>3 DEF LogoutRow, TypeInv, Shape
    <2>3. /\ handler' \in [Handlers -> Request'] /\ InHand' /\ handler'[h].step = "forget"
          /\ \A g \in Handlers : g # h => handler'[g] = handler[g]
        BY <1>1, <2>1, GoesOn
    <2>4. TypeInv'
        BY <1>1, <2>1, <2>2, <2>3 DEF TypeInv, Shape, Unissued, NotAhead, history
    <2>5. NamesInv'
        BY <2>1, <2>3 DEF Inv, NamesInv, NamesUnique, Pending
    <2>6. HadAccount'
        BY <2>1, <2>2, <2>3 DEF Inv, SessionsInv, HadAccount
    <2>7. SessionIsCurrent'
        BY <2>1, <2>2, <2>3 DEF Inv, SessionsInv, SessionIsCurrent, history
    <2> QED
        BY <2>4, <2>5, <2>6, <2>7 DEF Inv, SessionsInv
<1> QED
    BY <1>2, <1>3

\* A session opens the account as the copy had it; if that is not the account as it is, its user
\* is unsettled.
LEMMA Issues ==
    ASSUME Inv, NEW h \in Handlers, NEW t \in Tokens, Issue(h, t)
    PROVE  Inv'
<1> DEFINE u == handler[h].user
           account == handler[h].list[u]
           session == [user |-> u, role |-> account.role, password |-> account.password]
<1>1. TypeInv /\ handler[h] \in Request
    BY DEF Inv, TypeInv, Shape
<1>2. /\ handler[h].step = "issue" /\ End(h) /\ issued' = issued \cup {t}
      /\ rows' = [rows EXCEPT ![t] = session] /\ t \notin issued
      /\ unsettled' = IF Opens(users[u], session) THEN unsettled ELSE unsettled \cup {u}
      /\ UNCHANGED <<users, cache, marker, loggedOut, raced>>
    BY DEF Issue
<1>3. u \in Ids /\ account \in Account /\ users[u] # Unused
    BY <1>1, <1>2, Kinds DEF Login, TypeInv, InHand, Inv, SessionsInv, HadAccount
<1>4. session \in Session /\ session.user = u
    BY <1>3 DEF Account, Session
<1> HIDE DEF session
<1>5. /\ rows' \in [Tokens -> Session \cup {NoSession}] /\ unsettled' \subseteq Ids
      /\ \A k \in Tokens : rows'[k] = IF k = t THEN session ELSE rows[k]
    BY <1>1, <1>2, <1>3, <1>4 DEF TypeInv, Shape
<1>6. /\ handler' \in [Handlers -> Request'] /\ InHand' /\ handler'[h].step = "idle"
      /\ \A g \in Handlers : g # h => handler'[g] = handler[g]
    BY <1>1, <1>2, IsOver
<1>7. TypeInv'
    BY <1>1, <1>2, <1>5, <1>6 DEF TypeInv, Shape, Unissued, NotAhead
<1>8. NamesInv'
    BY <1>2, <1>6 DEF Inv, NamesInv, NamesUnique, Pending
<1>9. HadAccount'
    BY <1>2, <1>3, <1>4, <1>5, <1>6 DEF Inv, SessionsInv, HadAccount
<1>10. SessionIsCurrent'
    <2> SUFFICES ASSUME NEW k \in Tokens, rows'[k] # NoSession, rows'[k].user \notin unsettled'
                 PROVE  \/ Opens(users[rows'[k].user], rows'[k])
                        \/ \E g \in Handlers : handler'[g].step = "drop" /\ handler'[g].user = rows'[k].user
        BY <1>2 DEF SessionIsCurrent
    <2>1. CASE k = t
        BY <1>2, <1>4, <1>5, <2>1
    <2>2. CASE k # t
        BY <1>2, <1>5, <1>6, <2>2 DEF Inv, SessionsInv, SessionIsCurrent
    <2> QED
        BY <2>1, <2>2
<1> QED
    BY <1>7, <1>8, <1>9, <1>10 DEF Inv, SessionsInv

-----------------------------------------------------------------------------
\* The list.  Sessions of an account that the write changes, and that it does not go on to
\* revoke, are of an unsettled user.
LEMMA ListWritten ==
    ASSUME Inv, NEW h \in Handlers, NEW list \in Lists, NEW u \in Ids, NEW next \in Account \cup {Removed},
           users' = Written(list, u, next), Unique([list EXCEPT ![u] = next]),
           UNCHANGED <<rows, cache, marker, issued, loggedOut, raced>>,
           handler' \in [Handlers -> Request'], InHand',
           \A g \in Handlers : g # h => handler'[g] = handler[g],
           handler[h].step \in {"write", "upgrade"}, handler'[h].step \in {"drop", "issue", "idle"},
           handler[h].step = "upgrade" => handler'[h].list = handler[h].list,
           handler'[h].step = "issue" => handler'[h].user = u /\ Unique(handler'[h].list) /\ users[u] # Unused,
           unsettled \subseteq unsettled', unsettled' \subseteq Ids,
           \A v \in Ids : Differs(users'[v], users[v]) =>
               v \in unsettled' \/ users[v] = Unused
                   \/ (v = u /\ handler'[h].step = "drop" /\ handler'[h].user = u)
    PROVE  Inv'
<1>1. /\ users' \in Lists /\ Unique(users')
      /\ \A v \in Ids : users[v] # Unused => users'[v] # Unused
    BY WrittenList DEF Inv, TypeInv, Shape
<1>2. TypeInv'
    BY <1>1 DEF Inv, TypeInv, Shape, Unissued, NotAhead
<1>3. NamesInv'
    BY <1>1 DEF Inv, NamesInv, NamesUnique, Pending
<1>4. \A t \in Tokens : rows[t] # NoSession => rows[t].user \in Ids
    BY DEF Inv, TypeInv, Shape, Session
<1>5. \A g \in Handlers : handler[g].step \in {"upgrade", "issue"} => handler[g].user \in Ids
    BY Kinds DEF Inv, TypeInv, Shape, Login
<1>6. HadAccount'
    BY <1>1, <1>4, <1>5 DEF Inv, SessionsInv, HadAccount
<1>7. SessionIsCurrent'
    <2> SUFFICES ASSUME NEW t \in Tokens, rows[t] # NoSession, rows[t].user \notin unsettled'
                 PROVE  \/ Opens(users'[rows[t].user], rows[t])
                        \/ \E g \in Handlers : handler'[g].step = "drop" /\ handler'[g].user = rows[t].user
        BY DEF SessionIsCurrent
    <2> DEFINE v == rows[t].user
    <2>1. v \in Ids /\ v \notin unsettled /\ users[v] # Unused
        BY <1>4 DEF Inv, SessionsInv, HadAccount
    <2>2. CASE \E g \in Handlers : handler[g].step = "drop" /\ handler[g].user = v
        BY <2>2
    <2>3. CASE Opens(users[v], rows[t])
        <3>1. ~Differs(users'[v], users[v]) => Opens(users'[v], rows[t])
            BY <2>3 DEF Opens, Differs
        <3> QED
            BY <2>1, <3>1
    <2> QED
        BY <2>1, <2>2, <2>3 DEF Inv, SessionsInv, SessionIsCurrent
<1> QED
    BY <1>2, <1>3, <1>6, <1>7 DEF Inv, SessionsInv

LEMMA ListSteps ==
    ASSUME Inv, NEW h \in Handlers, WriteList(h) \/ Upgrade(h)
    PROVE  Inv'
<1> DEFINE list == handler[h].list  u == handler[h].user
<1>1. TypeInv /\ handler[h] \in Request
    BY DEF Inv, TypeInv, Shape
<1>2. CASE WriteList(h)
    <2> DEFINE next == handler[h].next
    <2>1. /\ handler[h].step = "write" /\ users' = Written(list, u, next)
          /\ unsettled' = unsettled \cup {v \in Ids : Differs(users'[v], users[v]) /\
                                     (v = u => ~handler[h].revoke /\ users[u] # Unused)}
          /\ IF handler[h].revoke THEN Go(h, "drop") ELSE End(h)
          /\ UNCHANGED <<rows, cache, marker, issued, loggedOut, raced>>
        BY <1>2 DEF WriteList, Write
    <2>2. handler[h] \in Editing
        BY <1>1, <2>1, Kinds
    <2>3. list \in Lists /\ u \in Ids /\ next \in Account \cup {Removed} /\ handler[h].revoke \in BOOLEAN
        BY <2>2 DEF Editing
    <2>4. Unique([list EXCEPT ![u] = next])
        BY <2>1 DEF Inv, NamesInv, Pending
    <2>5. /\ handler' \in [Handlers -> Request'] /\ InHand'
          /\ \A g \in Handlers : g # h => handler'[g] = handler[g]
          /\ handler'[h].step \in {"drop", "idle"}
          /\ handler[h].revoke => handler'[h].step = "drop" /\ handler'[h].user = u
        <3>1. CASE handler[h].revoke
            <4>1. [handler[h] EXCEPT !.step = "drop"].user = u
                BY <2>2 DEF Editing
            <4> QED
                BY <1>1, <2>1, <3>1, <4>1, GoesOn
        <3>2. CASE ~handler[h].revoke
            BY <1>1, <2>1, <3>2, IsOver
        <3> QED
            BY <3>1, <3>2
    <2>6. unsettled \subseteq unsettled' /\ unsettled' \subseteq Ids
        BY <1>1, <2>1 DEF TypeInv, Shape
    <2>7. ASSUME NEW v \in Ids, Differs(users'[v], users[v])
          PROVE  \/ v \in unsettled' \/ users[v] = Unused
                 \/ v = u /\ handler'[h].step = "drop" /\ handler'[h].user = u
        BY <2>1, <2>3, <2>5, <2>7
    <2> HIDE DEF list, u, next
    <2> QED
        BY <2>1, <2>3, <2>4, <2>5, <2>6, <2>7, ListWritten
<1>3. CASE Upgrade(h)
    <2> DEFINE next == [list[u] EXCEPT !.legacy = FALSE]
    <2>1. /\ handler[h].step = "upgrade" /\ Go(h, "issue")
          /\ UNCHANGED <<rows, cache, marker, issued, loggedOut, raced>>
          /\ \/ /\ users' = Written(list, u, next)
                /\ unsettled' = unsettled \cup {v \in Ids : Differs(users'[v], users[v])}
             \/ UNCHANGED <<users, unsettled>>
        BY <1>3 DEF Upgrade
    <2>2. handler[h] \in Login
        BY <1>1, <2>1, Kinds
    <2>3. list \in Lists /\ u \in Ids /\ list[u] \in Account /\ Unique(list) /\ users[u] # Unused
        BY <2>1, <2>2 DEF Login, Inv, TypeInv, InHand, NamesInv, Pending, SessionsInv, HadAccount
    <2>4. next \in Account /\ next.name = list[u].name
        BY <2>3 DEF Account
    <2>5. Unique([list EXCEPT ![u] = next])
        BY <2>3, <2>4 DEF Unique, In, Lists
    <2>6. /\ handler' \in [Handlers -> Request'] /\ InHand'
          /\ \A g \in Handlers : g # h => handler'[g] = handler[g]
          /\ handler'[h].step = "issue" /\ handler'[h].user = u /\ handler'[h].list = list
        <3>1. LET r == [handler[h] EXCEPT !.step = "issue"] IN r.user = u /\ r.list = list
            BY <2>2 DEF Login
        <3> QED
            BY <1>1, <2>1, <3>1, GoesOn
    <2> HIDE DEF list, u, next
    <2>7. CASE UNCHANGED <<users, unsettled>>
        <3>1. TypeInv'
            BY <1>1, <2>1, <2>6, <2>7 DEF TypeInv, Shape, Unissued, NotAhead
        <3>2. NamesInv'
            BY <2>3, <2>6, <2>7 DEF Inv, NamesInv, NamesUnique, Pending
        <3>3. HadAccount'
            BY <2>1, <2>3, <2>6, <2>7 DEF Inv, SessionsInv, HadAccount
        <3>4. SessionIsCurrent'
            BY <2>1, <2>6, <2>7 DEF Inv, SessionsInv, SessionIsCurrent
        <3> QED
            BY <3>1, <3>2, <3>3, <3>4 DEF Inv, SessionsInv
    <2>8. CASE ~UNCHANGED <<users, unsettled>>
        <3>1. /\ users' = Written(list, u, next)
              /\ unsettled' = unsettled \cup {v \in Ids : Differs(users'[v], users[v])}
            BY <2>1, <2>8
        <3>2. unsettled \subseteq unsettled' /\ unsettled' \subseteq Ids
            BY <1>1, <3>1 DEF TypeInv, Shape
        <3>3. \A v \in Ids : Differs(users'[v], users[v]) => v \in unsettled'
            BY <3>1
        <3>4. handler[h].list = list
            BY DEF list
        <3> QED
            BY <2>1, <2>3, <2>4, <2>5, <2>6, <3>1, <3>2, <3>3, <3>4, ListWritten
    <2> QED
        BY <2>7, <2>8
<1> QED
    BY <1>2, <1>3

-----------------------------------------------------------------------------
\* No request is left, and the users whose sessions one was about to delete are unsettled.
LEMMA Crashed ==
    ASSUME Inv, Crash
    PROVE  Inv'
<1>1. /\ handler' = [h \in Handlers |-> Idle] /\ UNCHANGED <<users, rows, cache, marker, issued, loggedOut>>
      /\ unsettled' = unsettled \cup {handler[h].user : h \in At("drop")}
      /\ raced' = raced \cup {handler[h].token : h \in At("forget")}
                       \cup UNION {CachedFor(handler[h].user) : h \in At("stamp")}
    BY DEF Crash, stored
<1>2. \A h \in Handlers : handler'[h] = Idle /\ handler'[h].step = "idle"
    BY <1>1 DEF Idle
<1>3. unsettled' \subseteq Ids
    <2>1. \A h \in At("drop") : handler[h].user \in Ids
        BY Kinds DEF Inv, TypeInv, Shape, At, Editing
    <2> QED
        BY <1>1, <2>1 DEF Inv, TypeInv, Shape
<1>4. raced' \subseteq Tokens
    <2>1. \A h \in At("forget") : handler[h].token \in Tokens
        BY Kinds DEF Inv, TypeInv, Shape, At, Logout
    <2>2. \A u : CachedFor(u) \subseteq Tokens
        BY DEF CachedFor
    <2> QED
        BY <1>1, <2>1, <2>2 DEF Inv, TypeInv, Shape
<1>5. handler' \in [Handlers -> Request']
    BY <1>1 DEF Request
<1>6. TypeInv'
    BY <1>1, <1>2, <1>3, <1>4, <1>5 DEF Inv, TypeInv, Shape, InHand, Unissued, NotAhead
<1>7. NamesInv' /\ HadAccount'
    BY <1>1, <1>2 DEF Inv, NamesInv, NamesUnique, Pending, SessionsInv, HadAccount
<1>8. SessionIsCurrent'
    <2> SUFFICES ASSUME NEW t \in Tokens, rows[t] # NoSession, rows[t].user \notin unsettled'
                 PROVE  Opens(users[rows[t].user], rows[t])
        BY <1>1 DEF SessionIsCurrent
    <2>1. \A h \in Handlers : handler[h].step = "drop" => handler[h].user # rows[t].user
        BY <1>1 DEF At
    <2> QED
        BY <1>1, <2>1 DEF Inv, SessionsInv, SessionIsCurrent
<1> QED
    BY <1>6, <1>7, <1>8 DEF Inv, SessionsInv

-----------------------------------------------------------------------------
LEMMA StepInv == Inv /\ [Next]_vars => Inv'
<1> SUFFICES ASSUME Inv, [Next]_vars PROVE Inv'
    OBVIOUS
<1>1. ASSUME NEW h \in Handlers, Step(h) PROVE Inv'
    BY <1>1, ListSteps, RowSteps, CacheSteps, Issues DEF Step
<1>2. CASE UNCHANGED vars
    <2>1. Request' = Request
        BY <1>2 DEF Request, Call, Logout, vars
    <2>2. TypeInv'
        BY <1>2, <2>1 DEF Inv, TypeInv, Shape, InHand, Unissued, NotAhead, vars, stored, history
    <2> QED
        BY <1>2, <2>2, Elsewhere DEF vars, stored, history
<1> QED
    BY <1>1, <1>2, Starts, Expiry, Crashed DEF Next

LEMMA Always == Spec => []Inv
BY InitInv, StepInv, PTL DEF Spec

\* Accounts, sessions, copies and requests keep the shape the code gives them.
THEOREM TypeCorrect == Spec => []TypeOK
<1>1. Inv => TypeOK
    BY TypeInvImplies DEF Inv
<1> QED
    BY <1>1, Always, PTL

\* No two accounts come to have one name, however the checks and the writes interleave.
THEOREM NamesKept == Spec => []NamesUnique
<1>1. Inv => NamesUnique
    BY DEF Inv, NamesInv
<1> QED
    BY <1>1, Always, PTL

\* A session is of the account as it is, unless its user is unsettled or it is about to go.
THEOREM SessionsFollow == Spec => []SessionIsCurrent
<1>1. Inv => SessionIsCurrent
    BY DEF Inv, SessionsInv
<1> QED
    BY <1>1, Always, PTL

-----------------------------------------------------------------------------
(* Copies of sessions.                                                     *)

\* A copy, and a row about to be copied, is of the user its row is of, so that
\* the marker stamped for a deleted row is the marker of its copy.
Owned ==
    \A t \in Tokens : rows[t] # NoSession =>
        /\ cache[t] # NoSession => cache[t].user = rows[t].user
        /\ \A h \in Handlers : handler[h].step = "put" /\ handler[h].token = t =>
            handler[h].session.user = rows[t].user

CopiesInv == Owned /\ CopyHasRow

\* What excuses a copy without a row: the request that deleted the row is not done.
Revoking(t) ==
    \E h \in Handlers :
        \/ handler[h].step = "stamp" /\ handler[h].user = cache[t].user
        \/ handler[h].step = "forget" /\ handler[h].token = t

LEMMA CopiesInit == Init => CopiesInv
BY DEF Init, CopiesInv, Owned, CopyHasRow

\* A step that deletes no row, revokes nothing and copies nothing anew.
LEMMA CopiesKept ==
    ASSUME CopiesInv, UNCHANGED <<rows, marker>>, NEW h \in Handlers,
           \A g \in Handlers : g # h => handler'[g] = handler[g],
           handler[h].step \notin {"stamp", "forget"}, handler'[h].step # "put",
           \A t \in Tokens : cache'[t] \in {cache[t], NoSession},
           \A t \in raced : t \in raced' \/ cache'[t] = NoSession
    PROVE  CopiesInv'
<1>1. Owned'
    BY DEF CopiesInv, Owned
<1>2. CopyHasRow'
    <2> SUFFICES ASSUME NEW t \in Tokens, cache'[t] # NoSession, Fresh(cache[t]), rows[t] = NoSession,
                        t \notin raced'
                 PROVE  Revoking(t)'
        BY DEF CopyHasRow, Revoking, Fresh
    <2>1. cache'[t] = cache[t] /\ t \notin raced
        OBVIOUS
    <2>2. Revoking(t)
        BY <2>1 DEF CopiesInv, CopyHasRow, Revoking
    <2> QED
        BY <2>1, <2>2 DEF Revoking
<1> QED
    BY <1>1, <1>2 DEF CopiesInv

LEMMA CopiesCached ==
    ASSUME Inv, Inv', CopiesInv, NEW h \in Handlers,
           \/ \E u \in Ids : \/ StartEdit(h, u) \/ StartApiEdit(h, u) \/ StartLogin(h, u)
                             \/ \E a \in Created : StartCreate(h, u, a)
           \/ \E t \in Tokens : StartCall(h, t) \/ StartLogout(h, t)
           \/ WriteList(h) \/ Upgrade(h) \/ CheckMarker(h)
    PROVE  CopiesInv'
<1>1. TypeInv /\ handler[h] \in Request /\ handler \in [Handlers -> Request]
    BY DEF Inv, TypeInv, Shape
<1>2. ASSUME NEW kind, NEW r, Start(h, kind, r), r.step # "put", UNCHANGED <<rows, cache, marker, raced>>
      PROVE  CopiesInv'
    <2>1. handler[h].step = "idle" /\ handler'[h] = r /\ \A g \in Handlers : g # h => handler'[g] = handler[g]
        BY <1>1, <1>2 DEF Start, Idle
    <2> QED
        BY <1>2, <2>1, CopiesKept
<1>3. ASSUME NEW u \in Ids, \/ StartEdit(h, u) \/ StartApiEdit(h, u) \/ StartLogin(h, u)
                            \/ \E a \in Created : StartCreate(h, u, a)
      PROVE  CopiesInv'
    <2>1. UNCHANGED <<rows, cache, marker, raced>>
        BY <1>3 DEF StartEdit, StartApiEdit, StartLogin, StartCreate, stored, history
    <2>2. \A next, revoke : Change(u, next, revoke).step # "put"
        BY DEF Change
    <2> QED
        BY <1>2, <1>3, <2>1, <2>2 DEF StartEdit, StartApiEdit, StartLogin, StartCreate
<1>4. ASSUME NEW t \in Tokens, StartCall(h, t) \/ StartLogout(h, t) PROVE CopiesInv'
    BY <1>2, <1>4 DEF StartCall, StartLogout, stored, history
<1>5. CASE WriteList(h)
    <2>1. handler[h].step = "write" /\ UNCHANGED <<rows, cache, marker, issued, raced>>
          /\ (Go(h, "drop") \/ End(h))
        BY <1>5 DEF WriteList
    <2>2. handler'[h].step \in {"drop", "idle"} /\ \A g \in Handlers : g # h => handler'[g] = handler[g]
        BY <1>1, <2>1, GoesOn, IsOver
    <2> QED
        BY <2>1, <2>2, CopiesKept
<1>6. CASE Upgrade(h)
    <2>1. handler[h].step = "upgrade" /\ UNCHANGED <<rows, cache, marker, issued, raced>> /\ Go(h, "issue")
        BY <1>6 DEF Upgrade
    <2>2. handler'[h].step = "issue" /\ \A g \in Handlers : g # h => handler'[g] = handler[g]
        BY <1>1, <2>1, GoesOn
    <2> QED
        BY <2>1, <2>2, CopiesKept
<1>7. CASE CheckMarker(h)
    <2>1. handler[h].step = "marker" /\ UNCHANGED <<rows, marker, issued>> /\ (Go(h, "row") \/ End(h))
        BY <1>7 DEF CheckMarker
    <2>2. handler'[h].step \in {"row", "idle"} /\ \A g \in Handlers : g # h => handler'[g] = handler[g]
        BY <1>1, <2>1, GoesOn, IsOver
    <2>3. \/ UNCHANGED <<cache, raced>>
          \/ cache' = Uncached(handler[h].token) /\ raced' = raced \ {handler[h].token}
        BY <1>7 DEF CheckMarker
    <2>4. handler[h].token \in Tokens /\ cache \in [Tokens -> Copy \cup {NoSession}]
        BY <1>1, <2>1, Kinds DEF Call, TypeInv, Shape
    <2>5. /\ \A t \in Tokens : cache'[t] \in {cache[t], NoSession}
          /\ \A t \in raced : t \in raced' \/ cache'[t] = NoSession
        BY <2>3, <2>4 DEF Uncached
    <2> QED
        BY <2>1, <2>2, <2>5, CopiesKept
<1> QED
    BY <1>3, <1>4, <1>5, <1>6, <1>7

\* A row is copied only while it is there, and a copy put back after that is marked.
LEMMA CopiesPut ==
    ASSUME Inv, Inv', CopiesInv, NEW h \in Handlers, ReadRow(h) \/ Put(h)
    PROVE  CopiesInv'
<1>1. TypeInv /\ handler[h] \in Request /\ handler \in [Handlers -> Request]
    BY DEF Inv, TypeInv, Shape
<1>2. handler[h] \in Call /\ handler[h].token \in Tokens
    BY <1>1, Kinds DEF ReadRow, Put, Call, TypeInv, Shape
<1>3. CASE ReadRow(h)
    <2>1. handler[h].step = "row" /\ UNCHANGED <<rows, cache, marker, issued, raced>>
        BY <1>3 DEF ReadRow, stored, history
    <2>2. CASE End(h)
        <3>1. handler'[h].step = "idle" /\ \A g \in Handlers : g # h => handler'[g] = handler[g]
            BY <1>1, <2>1, <2>2, IsOver
        <3> QED
            BY <2>1, <3>1, CopiesKept
    <2>3. CASE ~End(h)
        <3> DEFINE r == [handler[h] EXCEPT !.step = "put", !.session = rows[handler[h].token]]
        <3>1. handler' = [handler EXCEPT ![h] = r]
            BY <1>3, <2>3 DEF ReadRow
        <3>2. r.step = "put" /\ r.token = handler[h].token /\ r.session = rows[handler[h].token]
            BY <1>2 DEF Call
        <3> HIDE DEF r
        <3>3. handler'[h] = r /\ \A g \in Handlers : g # h => handler'[g] = handler[g]
            BY <1>1, <3>1
        <3>4. Owned'
            BY <2>1, <3>2, <3>3 DEF CopiesInv, Owned
        <3>5. CopyHasRow'
            <4> SUFFICES ASSUME NEW t \in Tokens, cache[t] # NoSession, Fresh(cache[t]),
                                rows[t] = NoSession, t \notin raced
                         PROVE  Revoking(t)'
                BY <2>1 DEF CopyHasRow, Revoking, Fresh
            <4>1. Revoking(t)
                BY DEF CopiesInv, CopyHasRow, Revoking
            <4> QED
                BY <2>1, <3>3, <4>1 DEF Revoking
        <3> QED
            BY <3>4, <3>5 DEF CopiesInv
    <2> QED
        BY <2>2, <2>3
<1>4. CASE Put(h)
    <2> DEFINE k == handler[h].token
    <2>1. handler[h].step = "put" /\ End(h) /\ UNCHANGED <<users, rows, marker, issued>>
        BY <1>4 DEF Put
    <2>2. handler'[h].step = "idle" /\ \A g \in Handlers : g # h => handler'[g] = handler[g]
        BY <1>1, <2>1, IsOver
    <2>3. CASE UNCHANGED <<cache, raced>>
        BY <2>1, <2>2, <2>3, CopiesKept
    <2>4. CASE /\ cache' = [cache EXCEPT ![k] = Entry(handler[h].session)]
               /\ raced' = IF rows[k] = NoSession THEN raced \cup {k} ELSE raced \ {k}
        <3>1. /\ cache'[k].user = handler[h].session.user
              /\ \A t \in Tokens : t # k => cache'[t] = cache[t]
            BY <1>1, <1>2, <2>4 DEF Entry, TypeInv, Shape
        <3>2. Owned'
            BY <1>2, <2>1, <2>2, <3>1 DEF CopiesInv, Owned
        <3>3. CopyHasRow'
            <4> SUFFICES ASSUME NEW t \in Tokens, cache'[t] # NoSession, Fresh(cache[t])',
                                rows[t] = NoSession, t \notin raced'
                         PROVE  Revoking(t)'
                BY <2>1 DEF CopyHasRow, Revoking
            <4>1. t # k
                BY <2>4
            <4>2. cache'[t] = cache[t] /\ t \notin raced /\ Fresh(cache[t])
                BY <2>1, <2>4, <3>1, <4>1 DEF Fresh
            <4>3. Revoking(t)
                BY <4>2 DEF CopiesInv, CopyHasRow, Revoking
            <4> QED
                BY <2>1, <2>2, <4>2, <4>3 DEF Revoking
        <3> QED
            BY <3>2, <3>3 DEF CopiesInv
    <2> QED
        BY <1>4, <2>3, <2>4 DEF Put
<1> QED
    BY <1>3, <1>4

\* A row goes while the request that deletes it is still to stamp the marker of its user, or
\* to drop its copy; and a row comes under a token that nothing else holds.
LEMMA CopiesRows ==
    ASSUME Inv, Inv', CopiesInv, NEW h \in Handlers,
           DropRows(h) \/ LogoutRow(h) \/ \E t \in Tokens : Issue(h, t)
    PROVE  CopiesInv'
<1>1. TypeInv /\ handler[h] \in Request /\ handler \in [Handlers -> Request]
    BY DEF Inv, TypeInv, Shape
<1>2. CASE DropRows(h)
    <2> DEFINE u == handler[h].user
    <2>1. handler[h].step = "drop" /\ Go(h, "stamp") /\ UNCHANGED <<cache, marker, issued, raced>>
        BY <1>2 DEF DropRows
    <2>2. handler[h] \in Editing
        BY <1>1, <2>1, Kinds
    <2>3. /\ handler'[h].step = "stamp" /\ handler'[h].user = u
          /\ \A g \in Handlers : g # h => handler'[g] = handler[g]
        <3>1. [handler[h] EXCEPT !.step = "stamp"].user = u
            BY <2>2 DEF Editing
        <3> QED
            BY <1>1, <2>1, <3>1, GoesOn
    <2>4. \A t \in Tokens : \/ rows'[t] = rows[t]
                            \/ rows[t] # NoSession /\ rows[t].user = u /\ rows'[t] = NoSession
        BY <1>1, <1>2 DEF DropRows, RowsWithout
    <2>5. Owned'
        BY <2>1, <2>3, <2>4 DEF CopiesInv, Owned
    <2>6. CopyHasRow'
        <3> SUFFICES ASSUME NEW t \in Tokens, cache[t] # NoSession, Fresh(cache[t]),
                            rows'[t] = NoSession, t \notin raced
                     PROVE  Revoking(t)'
            BY <2>1 DEF CopyHasRow, Revoking, Fresh
        <3>1. CASE rows[t] = NoSession
            <4>1. Revoking(t)
                BY <3>1 DEF CopiesInv, CopyHasRow, Revoking
            <4> QED
                BY <2>1, <2>3, <4>1 DEF Revoking
        <3>2. CASE rows[t] # NoSession
            <4>1. cache[t].user = u
                BY <2>4, <3>2 DEF CopiesInv, Owned
            <4> QED
                BY <2>1, <2>3, <4>1 DEF Revoking
        <3> QED
            BY <3>1, <3>2
    <2> QED
        BY <2>5, <2>6 DEF CopiesInv
<1>3. CASE LogoutRow(h)
    <2> DEFINE k == handler[h].token
    <2>1. handler[h].step = "logout" /\ Go(h, "forget") /\ UNCHANGED <<cache, marker, issued, raced>>
        BY <1>3 DEF LogoutRow, history
    <2>2. handler[h] \in Logout
        BY <1>1, <2>1, Kinds
    <2>3. /\ handler'[h].step = "forget" /\ handler'[h].token = k
          /\ \A g \in Handlers : g # h => handler'[g] = handler[g]
        <3>1. [handler[h] EXCEPT !.step = "forget"].token = k
            BY <2>2 DEF Logout
        <3> QED
            BY <1>1, <2>1, <3>1, GoesOn
    <2>4. \A t \in Tokens : rows'[t] = rows[t] \/ (t = k /\ rows'[t] = NoSession)
        BY <1>1, <1>3 DEF LogoutRow, TypeInv, Shape
    <2>5. Owned'
        BY <2>1, <2>3, <2>4 DEF CopiesInv, Owned
    <2>6. CopyHasRow'
        <3> SUFFICES ASSUME NEW t \in Tokens, cache[t] # NoSession, Fresh(cache[t]),
                            rows'[t] = NoSession, t \notin raced
                     PROVE  Revoking(t)'
            BY <2>1 DEF CopyHasRow, Revoking, Fresh
        <3>1. CASE rows[t] = NoSession
            <4>1. Revoking(t)
                BY <3>1 DEF CopiesInv, CopyHasRow, Revoking
            <4> QED
                BY <2>1, <2>3, <4>1 DEF Revoking
        <3>2. CASE rows[t] # NoSession
            BY <2>3, <2>4, <3>2 DEF Revoking
        <3> QED
            BY <3>1, <3>2
    <2> QED
        BY <2>5, <2>6 DEF CopiesInv
<1>4. ASSUME NEW k \in Tokens, Issue(h, k) PROVE CopiesInv'
    <2>1. /\ handler[h].step = "issue" /\ End(h) /\ k \notin issued
          /\ issued' = issued \cup {k} /\ UNCHANGED <<cache, marker, raced>>
          /\ \A t \in Tokens : t # k => rows'[t] = rows[t]
        BY <1>1, <1>4 DEF Issue, TypeInv, Shape
    <2>2. handler'[h].step = "idle" /\ \A g \in Handlers : g # h => handler'[g] = handler[g]
        BY <1>1, <2>1, IsOver
    <2>3. cache[k] = NoSession
        BY <1>1, <2>1 DEF TypeInv, Unissued
    <2>4. \A g \in Handlers : handler[g].step = "put" => handler[g].token # k
        BY <1>1, <2>1, Kinds DEF Call
    <2>5. Owned'
        BY <2>1, <2>2, <2>3, <2>4 DEF CopiesInv, Owned
    <2>6. CopyHasRow'
        <3> SUFFICES ASSUME NEW t \in Tokens, cache[t] # NoSession, Fresh(cache[t]),
                            rows'[t] = NoSession, t \notin raced
                     PROVE  Revoking(t)'
            BY <2>1 DEF CopyHasRow, Revoking, Fresh
        <3>1. rows[t] = NoSession
            BY <2>1, <2>3
        <3>2. Revoking(t)
            BY <3>1 DEF CopiesInv, CopyHasRow, Revoking
        <3> QED
            BY <2>1, <2>2, <3>2 DEF Revoking
    <2> QED
        BY <2>5, <2>6 DEF CopiesInv
<1> QED
    BY <1>2, <1>3, <1>4

\* A request that ends its revocation leaves the copies stale, gone or marked.
LEMMA CopiesRevoked ==
    ASSUME Inv, Inv', CopiesInv, NEW h \in Handlers, StampMarker(h) \/ LogoutCopy(h)
    PROVE  CopiesInv'
<1>1. TypeInv /\ handler[h] \in Request /\ handler \in [Handlers -> Request]
    BY DEF Inv, TypeInv, Shape
<1>2. UNCHANGED <<rows, issued>> /\ End(h) /\ handler[h].step \in {"stamp", "forget"}
    BY DEF StampMarker, LogoutCopy
<1>3. handler'[h].step = "idle" /\ \A g \in Handlers : g # h => handler'[g] = handler[g]
    BY <1>1, <1>2, IsOver
<1>4. CASE StampMarker(h)
    <2> DEFINE u == handler[h].user
    <2>1. handler[h].step = "stamp" /\ UNCHANGED cache
          /\ \/ marker' = Stamped(u) /\ raced' = raced \ CachedFor(u)
             \/ raced' = raced \cup CachedFor(u) /\ UNCHANGED marker
        BY <1>4 DEF StampMarker
    <2>2. u \in Ids
        BY <1>1, <2>1, Kinds DEF Editing
    <2>3. Owned'
        BY <1>2, <1>3, <2>1 DEF CopiesInv, Owned
    <2>4. CopyHasRow'
        <3> SUFFICES ASSUME NEW t \in Tokens, cache[t] # NoSession, cache[t].at >= marker'[cache[t].user],
                            rows[t] = NoSession, t \notin raced'
                     PROVE  Revoking(t)'
            BY <1>2, <2>1 DEF CopyHasRow, Revoking, Fresh
        <3>1. cache[t] \in Copy /\ cache[t].at <= marker[cache[t].user] /\ marker \in [Ids -> Nat]
            BY <1>1 DEF TypeInv, Shape, NotAhead
        <3>2. cache[t].user # u
            <4>1. CASE marker' = Stamped(u)
                <5>1. marker'[u] = marker[u] + 1 /\ marker[u] \in Nat
                    BY <2>2, <3>1, <4>1 DEF Stamped
                <5> QED
                    BY <3>1, <5>1 DEF Copy
            <4>2. CASE raced' = raced \cup CachedFor(u)
                BY <4>2 DEF CachedFor
            <4> QED
                BY <2>1, <4>1, <4>2
        <3>3. marker'[cache[t].user] = marker[cache[t].user] /\ t \notin raced
            BY <2>1, <3>1, <3>2 DEF Stamped, CachedFor, Copy
        <3>4. Revoking(t)
            BY <3>3 DEF CopiesInv, CopyHasRow, Revoking, Fresh
        <3> QED
            BY <1>3, <2>1, <3>2, <3>4 DEF Revoking
    <2> QED
        BY <2>3, <2>4 DEF CopiesInv
<1>5. CASE LogoutCopy(h)
    <2> DEFINE k == handler[h].token
    <2>1. handler[h].step = "forget" /\ UNCHANGED marker
          /\ \/ cache' = Uncached(k) /\ raced' = raced \ {k}
             \/ raced' = raced \cup {k} /\ UNCHANGED cache
        BY <1>5 DEF LogoutCopy
    <2>2. k \in Tokens
        BY <1>1, <2>1, Kinds DEF Logout, TypeInv, Shape
    <2>3. \A t \in Tokens : cache'[t] = cache[t] \/ (t = k /\ cache'[t] = NoSession)
        BY <1>1, <2>1 DEF Uncached, TypeInv, Shape
    <2>4. Owned'
        BY <1>2, <1>3, <2>3 DEF CopiesInv, Owned
    <2>5. CopyHasRow'
        <3> SUFFICES ASSUME NEW t \in Tokens, cache'[t] # NoSession, Fresh(cache[t])',
                            rows[t] = NoSession, t \notin raced'
                     PROVE  Revoking(t)'
            BY <1>2 DEF CopyHasRow, Revoking
        <3>1. cache'[t] = cache[t] /\ t # k
            BY <1>1, <2>1, <2>2, <2>3 DEF Uncached, TypeInv, Shape
        <3>2. t \notin raced /\ Fresh(cache[t])
            BY <2>1, <3>1 DEF Fresh
        <3>3. Revoking(t)
            BY <3>1, <3>2 DEF CopiesInv, CopyHasRow, Revoking
        <3> QED
            BY <1>3, <2>1, <3>1, <3>3 DEF Revoking
    <2> QED
        BY <2>4, <2>5 DEF CopiesInv
<1> QED
    BY <1>4, <1>5

\* A crash marks the copies that a request was about to make stale or to drop.
LEMMA CopiesCrashed ==
    ASSUME CopiesInv, Crash
    PROVE  CopiesInv'
<1>1. \A h \in Handlers : handler'[h].step = "idle"
    BY DEF Crash, Idle
<1>2. rows' = rows /\ cache' = cache /\ marker' = marker
    BY DEF Crash, stored
<1>3. raced' = raced \cup {handler[h].token : h \in At("forget")}
                    \cup UNION {CachedFor(handler[h].user) : h \in At("stamp")}
    BY DEF Crash
<1>4. Owned'
    BY <1>1, <1>2 DEF CopiesInv, Owned
<1>5. CopyHasRow'
    <2> SUFFICES ASSUME NEW t \in Tokens, cache[t] # NoSession, Fresh(cache[t]), rows[t] = NoSession,
                        t \notin raced'
                 PROVE  FALSE
        BY <1>2 DEF CopyHasRow, Fresh
    <2>1. t \notin raced /\ \A h \in Handlers : handler[h].step = "forget" => handler[h].token # t
        BY <1>3 DEF At
    <2>2. \A h \in Handlers : handler[h].step = "stamp" => handler[h].user # cache[t].user
        BY <1>3 DEF At, CachedFor
    <2> QED
        BY <2>1, <2>2 DEF CopiesInv, CopyHasRow
<1> QED
    BY <1>4, <1>5 DEF CopiesInv

LEMMA CopiesNext == Inv /\ CopiesInv /\ [Next]_vars => CopiesInv'
<1> SUFFICES ASSUME Inv, CopiesInv, [Next]_vars PROVE CopiesInv'
    OBVIOUS
<1>1. Inv'
    BY StepInv
<1>2. ASSUME NEW h \in Handlers, Step(h) PROVE CopiesInv'
    BY <1>1, <1>2, CopiesCached, CopiesPut, CopiesRows, CopiesRevoked DEF Step
<1>3. ASSUME NEW h \in Handlers,
             \/ \E u \in Ids : \/ StartEdit(h, u) \/ StartApiEdit(h, u) \/ StartLogin(h, u)
                               \/ \E a \in Created : StartCreate(h, u, a)
             \/ \E t \in Tokens : StartCall(h, t) \/ StartLogout(h, t)
      PROVE  CopiesInv'
    BY <1>1, <1>3, CopiesCached
<1>4. ASSUME NEW k \in Tokens, Expire(k) PROVE CopiesInv'
    <2>1. /\ cache' = Uncached(k) /\ raced' = raced \ {k} /\ UNCHANGED <<rows, marker, handler>>
          /\ \A t \in Tokens : (t # k /\ cache'[t] = cache[t]) \/ (t = k /\ cache'[t] = NoSession)
        BY <1>4 DEF Expire, Uncached, Inv, TypeInv, Shape
    <2>2. Owned'
        BY <2>1 DEF CopiesInv, Owned
    <2>3. CopyHasRow'
        <3> SUFFICES ASSUME NEW t \in Tokens, cache'[t] # NoSession, Fresh(cache[t])',
                            rows[t] = NoSession, t \notin raced'
                     PROVE  Revoking(t)'
            BY <2>1 DEF CopyHasRow, Revoking
        <3>1. cache'[t] = cache[t] /\ t \notin raced /\ Fresh(cache[t])
            BY <2>1 DEF Fresh
        <3>2. Revoking(t)
            BY <2>1, <3>1 DEF CopiesInv, CopyHasRow, Revoking
        <3> QED
            BY <2>1, <3>1, <3>2 DEF Revoking
    <2> QED
        BY <2>2, <2>3 DEF CopiesInv
<1>5. CASE UNCHANGED vars
    BY <1>5 DEF CopiesInv, Owned, CopyHasRow, Fresh, vars, stored, history
<1> QED
    BY <1>2, <1>3, <1>4, <1>5, CopiesCrashed DEF Next

\* A copy that a request would use has its row, however revocations, logouts, requests and
\* expiries interleave, but for a copy written after its row was gone and a revocation that failed
\* or was cut off.
THEOREM CopiesFollow == Spec => []CopyHasRow
<1>1. CopiesInv => CopyHasRow
    BY DEF CopiesInv
<1>2. Spec => []CopiesInv
    BY CopiesInit, CopiesNext, Always, PTL DEF Spec
<1> QED
    BY <1>1, <1>2, PTL
=============================================================================
