------------------------------ MODULE Sessions ------------------------------
(***************************************************************************)
(* Users and login sessions: the tables users and login_sessions, the      *)
(* handlers that register a user and log one in, the check that a request  *)
(* to any other endpoint but ping passes, and the service that deletes     *)
(* sessions nobody used.                                                   *)
(*                                                                         *)
(* Handlers run concurrently and share nothing but the database, where no  *)
(* unique index and no transaction protects them: each of their statements *)
(* is a step of its own.  A handler that is never continued stands for one *)
(* the process lost when it crashed.                                       *)
(***************************************************************************)
EXTENDS Naturals, Sequences, FiniteSets

CONSTANTS
    Names,              \* user names as clients type them
    Lower,              \* strings.ToLower on Names
    Passwords,
    Machines,           \* machine IDs of at most 100 characters
    None,               \* no row, no machine, a token no login got
    Registers,          \* requests to the register endpoint
    Logins,             \* requests to the login endpoint; also the token each gets
    Requests,           \* requests to the endpoints that need a session
    AllowRegistration,  \* config: Server.AllowRegistration
    DbMayFail           \* whether a statement may fail

ASSUME LowerAssumption ==
    Lower \in [Names -> Names] /\ \A n \in Names : Lower[Lower[n]] = Lower[n]
ASSUME SessionConfigAssumption == AllowRegistration \in BOOLEAN /\ DbMayFail \in BOOLEAN

VARIABLES
    users,         \* table users, in the order of its primary key
    sessions,      \* table login_sessions: the row with each token, or None
    rpc, rcred, rid,          \* registers: step, credentials, ID of the row made
    lpc, lcred, luser, lmach, \* logins: step, credentials, user.ID, machine ID
    qpc, qtoken, qrow,        \* requests: step, token, the session as it was read
    \* What the properties look back at:
    rsaw,          \* registers: how many users there were when Has looked
    lsaw,          \* logins: the tokens in the table when old sessions were deleted
    used,          \* tokens of which some request's count was saved
    revived,       \* tokens a request put back into the table
    expired        \* tokens the cleanup service deleted, and nobody put back

registerVars == <<rpc, rcred, rid, rsaw>>
loginVars    == <<lpc, lcred, luser, lmach, lsaw>>
requestVars  == <<qpc, qtoken, qrow, used, revived>>
vars == <<users, sessions, rpc, rcred, rid, lpc, lcred, luser, lmach, qpc, qtoken, qrow,
          rsaw, lsaw, used, revived, expired>>

Credentials == [name : Names, pass : Passwords]

\* gaw.SHA512(name + password), taken as free of collisions for one name.
Hash(name, pass) == <<name, pass>>

UserRows == [name : Names, hash : Names \X Passwords]
SessionRows == [user : Nat \ {0}, machine : Machines \cup {None}, requests : Nat, old : BOOLEAN]
ASSUME NoneAssumption == None \notin Machines \cup Logins \cup SessionRows

Tokens == {t \in Logins : sessions[t] # None}  \* the tokens in the table

Init ==
    /\ users = <<>>
    /\ sessions = [t \in Logins |-> None]
    /\ rpc = [r \in Registers |-> "idle"]
    /\ rcred = [r \in Registers |-> None]
    /\ rid = [r \in Registers |-> 0]
    /\ lpc = [l \in Logins |-> "idle"]
    /\ lcred = [l \in Logins |-> None]
    /\ luser = [l \in Logins |-> 0]
    /\ lmach = [l \in Logins |-> None]
    /\ qpc = [q \in Requests |-> "idle"]
    /\ qtoken = [q \in Requests |-> None]
    /\ qrow = [q \in Requests |-> None]
    /\ rsaw = [r \in Registers |-> 0]
    /\ lsaw = [l \in Logins |-> {}]
    /\ used = {}
    /\ revived = {}
    /\ expired = {}

(***************************************************************************)
(* Register                                                                *)
(***************************************************************************)

\* User.Has without the password: the name is looked up as it was typed.
NameTaken_WithPassword(c) ==  \* mutant: looks for the password too
    \E i \in 1..Len(users) : users[i].name = c.name /\ users[i].hash = Hash(c.name, c.pass)
NameTaken(c) == \E i \in 1..Len(users) : users[i].name = c.name

\* An error of the query counts as "no such user".
RegisterHas(r) ==
    /\ rpc[r] = "idle" /\ AllowRegistration
    /\ \E c \in Credentials :
        /\ rcred' = [rcred EXCEPT ![r] = c]
        /\ \/ /\ rpc' = [rpc EXCEPT ![r] = IF NameTaken(c) THEN "refused" ELSE "create"]
              /\ rsaw' = [rsaw EXCEPT ![r] = Len(users)]
           \/ /\ DbMayFail
              /\ rpc' = [rpc EXCEPT ![r] = "create"]
              /\ UNCHANGED rsaw
    /\ UNCHANGED <<users, sessions, rid, loginVars, requestVars, expired>>

\* The user stored, with the name in lower case.
NewUser_TypedHash(c) ==  \* mutant: the password hashed with the name as typed
    [name |-> Lower[c.name], hash |-> Hash(c.name, c.pass)]
NewUser(c) == [name |-> Lower[c.name], hash |-> Hash(Lower[c.name], c.pass)]

RegisterCreate(r) ==
    /\ rpc[r] = "create"
    /\ \/ /\ users' = Append(users, NewUser(rcred[r]))
          /\ rid' = [rid EXCEPT ![r] = Len(users) + 1]
          /\ rpc' = [rpc EXCEPT ![r] = "answered"]
       \/ /\ DbMayFail
          /\ rpc' = [rpc EXCEPT ![r] = "refused"]
          /\ UNCHANGED <<users, rid>>
    /\ UNCHANGED <<sessions, rcred, rsaw, loginVars, requestVars, expired>>

Register(r) == RegisterHas(r) \/ RegisterCreate(r)

(***************************************************************************)
(* Login                                                                   *)
(***************************************************************************)

\* User.Has with the password: the rows with that name and hash.
Matches(c) == {i \in 1..Len(users) :
                  users[i].name = c.name /\ users[i].hash = Hash(c.name, c.pass)}

\* It takes the first of them.  A machine ID that is too long is handled as none.
LoginHas(l) ==
    /\ lpc[l] = "idle"
    /\ \E c \in Credentials, m \in Machines \cup {None} :
        /\ lcred' = [lcred EXCEPT ![l] = c]
        /\ \/ /\ \E i \in Matches(c) : /\ \A k \in Matches(c) : i <= k
                                      /\ luser' = [luser EXCEPT ![l] = i]
              /\ lmach' = [lmach EXCEPT ![l] = m]
              /\ lpc' = [lpc EXCEPT ![l] = "clean"]
           \/ /\ Matches(c) = {}
              /\ lpc' = [lpc EXCEPT ![l] = "unknown"]
              /\ UNCHANGED <<luser, lmach>>
           \/ /\ DbMayFail
              /\ lpc' = [lpc EXCEPT ![l] = "failed"]
              /\ UNCHANGED <<luser, lmach>>
    /\ UNCHANGED <<users, sessions, registerVars, lsaw, requestVars, expired>>

\* cleanOldSessions: the sessions of that user on that machine, if it has an ID.
OldSessions_Unused(l) ==  \* mutant: only those that were never used
    {t \in Tokens : /\ lmach[l] # None
                    /\ sessions[t].user = luser[l]
                    /\ sessions[t].machine = lmach[l]
                    /\ sessions[t].requests = 0}
OldSessions(l) ==
    {t \in Tokens : /\ lmach[l] # None
                    /\ sessions[t].user = luser[l]
                    /\ sessions[t].machine = lmach[l]}
Without(S) == [t \in Logins |-> IF t \in S THEN None ELSE sessions[t]]

\* An error is logged and the login goes on.
CleanOldSessions(l) ==
    /\ lpc[l] = "clean"
    /\ \/ /\ sessions' = Without(OldSessions(l))
          /\ lsaw' = [lsaw EXCEPT ![l] = Tokens]
       \/ DbMayFail /\ UNCHANGED <<sessions, lsaw>>
    /\ lpc' = [lpc EXCEPT ![l] = "create"]
    /\ UNCHANGED <<users, registerVars, lcred, luser, lmach, requestVars, expired>>

NewSession_NoUser(l) ==  \* mutant: Has filled a copy of the user
    [user |-> 0, machine |-> lmach[l], requests |-> 0, old |-> FALSE]
NewSession(l) == [user |-> luser[l], machine |-> lmach[l], requests |-> 0, old |-> FALSE]

\* A failed insert refuses the login; what was deleted before stays deleted.
CreateSession_CleanLate(l) ==  \* mutant: the machine's sessions are deleted afterwards
    /\ lpc[l] = "create"
    /\ sessions' = [Without(OldSessions(l)) EXCEPT ![l] =
                        IF lmach[l] = None THEN NewSession(l) ELSE None]
    /\ lpc' = [lpc EXCEPT ![l] = "answered"]
    /\ UNCHANGED <<users, registerVars, lcred, luser, lmach, lsaw, requestVars, expired>>
CreateSession(l) ==
    /\ lpc[l] = "create"
    /\ \/ /\ sessions' = [sessions EXCEPT ![l] = NewSession(l)]
          /\ lpc' = [lpc EXCEPT ![l] = "answered"]
       \/ /\ DbMayFail
          /\ lpc' = [lpc EXCEPT ![l] = "failed"]
          /\ UNCHANGED sessions
    /\ UNCHANGED <<users, registerVars, lcred, luser, lmach, lsaw, requestVars, expired>>

Login(l) == LoginHas(l) \/ CleanOldSessions(l) \/ CreateSession(l)

(***************************************************************************)
(* RouteHandler and validate                                               *)
(***************************************************************************)

\* GetUserFromSession reads the session with the token.  A token without a
\* row is refused: the session it finds is empty and has no user.  The save that
\* follows then inserts a row without a token, which no request asks for.
ReadSession(q) ==
    /\ qpc[q] = "idle"
    /\ \E t \in {l \in Logins : lpc[l] = "answered"} :
        /\ qtoken' = [qtoken EXCEPT ![q] = t]
        /\ \/ /\ t \in Tokens
              /\ qrow' = [qrow EXCEPT ![q] = sessions[t]]
              /\ qpc' = [qpc EXCEPT ![q] = "save"]
           \/ /\ t \notin Tokens \/ DbMayFail
              /\ qpc' = [qpc EXCEPT ![q] = "refused"]
              /\ UNCHANGED qrow
    /\ UNCHANGED <<users, sessions, registerVars, loginVars, used, revived, expired>>

\* The row to save, all its fields as they were read but the counter.
Counted_Read(q) == qrow[q]  \* mutant: the counter is not increased
Counted(q) == [qrow[q] EXCEPT !.requests = @ + 1]

\* gorm's Save updates the row with that primary key, or inserts one if there
\* is none; created_at keeps its value.
Saved_UpdateOnly(q) ==  \* mutant: an update that never inserts
    IF qtoken[q] \in Tokens
    THEN [sessions EXCEPT ![qtoken[q]] = [Counted(q) EXCEPT !.old = sessions[qtoken[q]].old]]
    ELSE sessions
Saved(q) ==
    LET t == qtoken[q] IN
    [sessions EXCEPT ![t] =
        [Counted(q) EXCEPT !.old = IF t \in Tokens THEN sessions[t].old ELSE qrow[q].old]]

\* Either way the handler runs: an error of the save is only logged.
SaveSession(q) ==
    /\ qpc[q] = "save"
    /\ LET t == qtoken[q] IN
       \/ /\ sessions' = Saved(q)
          /\ used' = used \cup {t}
          /\ revived' = IF t \in Tokens THEN revived ELSE revived \cup {t}
          /\ expired' = expired \ {t}
       \/ DbMayFail /\ UNCHANGED <<sessions, used, revived, expired>>
    /\ qpc' = [qpc EXCEPT ![q] = "done"]
    /\ qrow' = [qrow EXCEPT ![q] = None]
    /\ UNCHANGED <<users, registerVars, loginVars, qtoken>>

Request(q) == ReadSession(q) \/ SaveSession(q)

(***************************************************************************)
(* The cleanup service: one DELETE each hour                               *)
(***************************************************************************)
Unused_Counted ==  \* mutant: the comparison the other way round
    {t \in Tokens : sessions[t].requests > 0 /\ sessions[t].old}
Unused == {t \in Tokens : sessions[t].requests = 0 /\ sessions[t].old}

DeleteUnusedSessions ==
    /\ Unused # {}
    /\ sessions' = Without(Unused)
    /\ expired' = expired \cup Unused
    /\ UNCHANGED <<users, registerVars, loginVars, requestVars>>

\* Time: a session becomes older than DeleteUnusedSessionsAfter.
GetOld(t) ==
    /\ t \in Tokens /\ ~sessions[t].old
    /\ sessions' = [sessions EXCEPT ![t].old = TRUE]
    /\ UNCHANGED <<users, registerVars, loginVars, requestVars, expired>>

Next ==
    \/ \E r \in Registers : Register(r)
    \/ \E l \in Logins : Login(l)
    \/ \E q \in Requests : Request(q)
    \/ DeleteUnusedSessions
    \/ \E t \in Logins : GetOld(t)

Spec == Init /\ [][Next]_vars

(***************************************************************************)
(* Properties                                                              *)
(***************************************************************************)
UserIds == 1..Len(users)

RegisterTypeOK ==
    /\ users \in Seq(UserRows)
    /\ rpc \in [Registers -> {"idle", "create", "answered", "refused"}]
    /\ rcred \in [Registers -> Credentials \cup {None}]
    /\ rid \in [Registers -> Nat] /\ rsaw \in [Registers -> Nat]
    /\ \A r \in Registers : rpc[r] \in {"create", "answered"} => rcred[r] \in Credentials

LoginTypeOK ==
    /\ sessions \in [Logins -> SessionRows \cup {None}]
    /\ lpc \in [Logins -> {"idle", "clean", "create", "answered", "unknown", "failed"}]
    /\ lcred \in [Logins -> Credentials \cup {None}]
    /\ luser \in [Logins -> Nat]
    /\ lmach \in [Logins -> Machines \cup {None}]
    /\ lsaw \in [Logins -> SUBSET Logins]

RequestTypeOK ==
    /\ qpc \in [Requests -> {"idle", "save", "done", "refused"}]
    /\ qtoken \in [Requests -> Logins \cup {None}]
    /\ qrow \in [Requests -> SessionRows \cup {None}]
    /\ \A q \in Requests : qpc[q] = "save" => qtoken[q] \in Logins /\ qrow[q] # None
    /\ used \subseteq Logins /\ revived \subseteq Logins /\ expired \subseteq Logins

\* Every variable stays in its range, rows refer to users that exist, and a
\* session being counted was read with a user.
TypeOK ==
    /\ RegisterTypeOK /\ LoginTypeOK /\ RequestTypeOK
    /\ \A t \in Tokens : sessions[t].user \in UserIds

\* Two rows carry one user name only if their registrations overlapped, if the
\* later one's query failed, or if its name was typed with upper-case letters,
\* which Has does not find.
NameTakenOnce ==
    \A r, s \in Registers :
        /\ rid[r] # 0 /\ rid[s] \in 1..rsaw[r]
        /\ users[rid[s]].name = users[rid[r]].name
        => rcred[r].name # Lower[rcred[r].name]

\* A login succeeds exactly with the password of a completed registration and
\* its name in lower case (unless a query fails): nobody is locked out by the
\* hash, and nobody gets in with the name as it was typed.
LoginMatchesRegistration ==
    [][\A l \in Logins : lpc[l] = "idle" /\ lpc'[l] \in {"clean", "unknown"} =>
        (lpc'[l] = "clean" <=>
            \E r \in Registers : /\ rpc[r] = "answered"
                                 /\ Lower[rcred[r].name] = lcred'[l].name
                                 /\ rcred[r].pass = lcred'[l].pass)]_vars

\* k's login deleted t's session, being of the same user on the same machine.
ReplacedBy(t, k) ==
    k # t /\ t \in lsaw[k] /\ luser[k] = luser[t] /\ lmach[k] = lmach[t] /\ lmach[t] # None

\* The token a login was answered with stays valid until another login of that
\* user on that machine replaces it, or it expires unused; a login that fails
\* after it deleted the old session counts as a replacement.
AnsweredTokenWorks ==
    \A t \in Logins : lpc[t] = "answered" /\ t \notin Tokens =>
        t \in expired \/ \E k \in Logins : ReplacedBy(t, k)

\* A session that served a request leaves the table only by a login that
\* replaces it, although the cleanup may delete its row between the read and the
\* save of that request, and concurrent requests overwrite each other's counts;
\* unless not one of its requests had its count saved: an error of that save is
\* only logged and the request is served (LoginSessions.go:35-38).
UsedSessionStays ==
    \A q \in Requests : qpc[q] = "done" /\ qtoken[q] \notin Tokens =>
        qtoken[q] \notin used \/ \E k \in Logins : ReplacedBy(qtoken[q], k)

\* Of two sessions of one user on one machine, the older one was created after
\* the newer one's login had cleaned up, or a request saved it back.
OneSessionPerMachine ==
    \A t, k \in Tokens : ReplacedBy(t, k) => t \in revived
=============================================================================
