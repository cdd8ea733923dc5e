--------------------------- MODULE Sessions_proofs ---------------------------
(***************************************************************************)
(* Proofs about Sessions, for any numbers of names, machines, requests and *)
(* failures: the type invariant, who is let in, and how long a token works *)
(* although no transaction protects the two tables.                        *)
(***************************************************************************)
EXTENDS Sessions, TLAPS

\* The tuples of variables are only abbreviations.
USE DEF registerVars, loginVars, requestVars

(***************************************************************************)
(* The type invariant needs that logins and the rows they made agree       *)
(***************************************************************************)

\* A session in the table, or in the hands of a request, is that of the login
\* that was answered with its token.
RowsMatch ==
    \A t \in Tokens : /\ lpc[t] = "answered"
                      /\ sessions[t].user = luser[t] /\ sessions[t].machine = lmach[t]
ReadsMatch ==
    \A q \in Requests : qpc[q] = "save" =>
        /\ lpc[qtoken[q]] = "answered"
        /\ qrow[q].user = luser[qtoken[q]] /\ qrow[q].machine = lmach[qtoken[q]]

\* A login past Has knows a user that exists.
LoginsKnowUsers ==
    \A l \in Logins : lpc[l] \in {"clean", "create", "answered"} => luser[l] \in UserIds

\* Only tokens that were answered are seen by other logins.
SeenWereAnswered ==
    \A l \in Logins : /\ lpc[l] \in {"idle", "clean"} => lsaw[l] = {}
                      /\ \A t \in lsaw[l] : lpc[t] = "answered"

\* A used token was answered, and its session is counted.
UsedAreCounted ==
    \A t \in used : /\ lpc[t] = "answered"
                    /\ t \in Tokens => sessions[t].requests > 0

RowsRefer == RowsMatch /\ ReadsMatch /\ LoginsKnowUsers /\ SeenWereAnswered /\ UsedAreCounted
TypeInv == RegisterTypeOK /\ LoginTypeOK /\ RequestTypeOK /\ RowsRefer

LEMMA TypeInvType == TypeInv => TypeOK
BY DEF TypeInv, TypeOK, RowsRefer, RowsMatch, LoginsKnowUsers, Tokens

\* A row of the table is never None, so the table's tokens follow its updates.
LEMMA RowsAreRows ==
    ASSUME LoginTypeOK
    PROVE  /\ \A t \in Tokens : sessions[t] \in SessionRows
           /\ \A row \in SessionRows : row # None
BY NoneAssumption DEF LoginTypeOK, Tokens

LEMMA TypeInit == Init => TypeInv
<1> SUFFICES ASSUME Init PROVE TypeInv OBVIOUS
<1>1. RegisterTypeOK BY DEF Init, RegisterTypeOK
<1>2. LoginTypeOK BY DEF Init, LoginTypeOK
<1>3. RequestTypeOK BY DEF Init, RequestTypeOK
<1>4. RowsRefer BY DEF Init, RowsRefer, Tokens,
    RowsMatch, ReadsMatch, LoginsKnowUsers, SeenWereAnswered, UsedAreCounted
<1> QED BY <1>1, <1>2, <1>3, <1>4 DEF TypeInv

\* Registrations only append to the users.
LEMMA RegisterType ==
    ASSUME TypeInv, NEW r \in Registers, Register(r)
    PROVE  /\ TypeInv'
           /\ Len(users') >= Len(users)
           /\ \A i \in UserIds : users'[i] = users[i]
<1> USE DEF TypeInv
<1>1. CASE RegisterHas(r)
  <2>1. users' = users BY <1>1 DEF RegisterHas
  <2>2. RegisterTypeOK'
    <3>1. PICK c \in Credentials : rcred' = [rcred EXCEPT ![r] = c]
      BY <1>1 DEF RegisterHas
    <3>2. Len(users) \in Nat BY DEF RegisterTypeOK
    <3>3. rsaw' \in [Registers -> Nat] BY <1>1, <3>2 DEF RegisterHas, RegisterTypeOK
    <3>4. rpc' \in [Registers -> {"idle", "create", "answered", "refused"}]
          /\ \A s \in Registers : s # r => rpc'[s] = rpc[s]
      BY <1>1 DEF RegisterHas, RegisterTypeOK
    <3>5. users' = users /\ rid' = rid BY <1>1 DEF RegisterHas
    <3>6. rcred' \in [Registers -> Credentials \cup {None}]
          /\ rcred'[r] = c /\ \A s \in Registers : s # r => rcred'[s] = rcred[s]
      BY <3>1 DEF RegisterTypeOK
    <3> QED BY <3>1, <3>3, <3>4, <3>5, <3>6 DEF RegisterTypeOK
  <2>3. LoginTypeOK' /\ RequestTypeOK' BY <1>1 DEF RegisterHas, LoginTypeOK, RequestTypeOK
  <2>4. RowsRefer' BY <1>1, <2>1 DEF RegisterHas, RowsRefer, Tokens, UserIds,
      RowsMatch, ReadsMatch, LoginsKnowUsers, SeenWereAnswered, UsedAreCounted
  <2> QED BY <2>1, <2>2, <2>3, <2>4 DEF RegisterTypeOK, UserIds
<1>2. CASE RegisterCreate(r)
  <2>1. CASE UNCHANGED users
    <3>1. RegisterTypeOK' BY <1>2, <2>1 DEF RegisterCreate, RegisterTypeOK
    <3>2. LoginTypeOK' /\ RequestTypeOK' BY <1>2 DEF RegisterCreate, LoginTypeOK, RequestTypeOK
    <3>3. RowsRefer' BY <1>2, <2>1 DEF RegisterCreate, RowsRefer, Tokens, UserIds,
        RowsMatch, ReadsMatch, LoginsKnowUsers, SeenWereAnswered, UsedAreCounted
    <3> QED BY <2>1, <3>1, <3>2, <3>3 DEF RegisterTypeOK, UserIds
  <2>2. CASE users' = Append(users, NewUser(rcred[r]))
    <3>1. rcred[r] \in Credentials BY <1>2 DEF RegisterCreate, RegisterTypeOK
    <3>2. NewUser(rcred[r]) \in UserRows
      BY <3>1, LowerAssumption DEF Credentials, NewUser, UserRows, Hash
    <3>3. Len(users') = Len(users) + 1 /\ \A i \in UserIds : users'[i] = users[i]
      BY <2>2, <3>2 DEF RegisterTypeOK, UserIds
    <3>4. RegisterTypeOK'
      <4>1. users' \in Seq(UserRows) BY <2>2, <3>2 DEF RegisterTypeOK
      <4>2. rid' \in [Registers -> Nat] BY <1>2 DEF RegisterCreate, RegisterTypeOK
      <4>3. /\ rpc' \in [Registers -> {"idle", "create", "answered", "refused"}]
            /\ \A s \in Registers : s # r => rpc'[s] = rpc[s]
        BY <1>2 DEF RegisterCreate, RegisterTypeOK
      <4>4. rcred' = rcred /\ rsaw' = rsaw BY <1>2 DEF RegisterCreate
      <4> QED BY <3>1, <4>1, <4>2, <4>3, <4>4 DEF RegisterTypeOK
    <3>5. LoginTypeOK' /\ RequestTypeOK' BY <1>2 DEF RegisterCreate, LoginTypeOK, RequestTypeOK
    <3>6. RowsRefer' BY <1>2, <3>3 DEF RegisterCreate, RegisterTypeOK, RowsRefer, Tokens,
        UserIds, RowsMatch, ReadsMatch, LoginsKnowUsers, SeenWereAnswered, UsedAreCounted
    <3> QED BY <3>3, <3>4, <3>5, <3>6 DEF RegisterTypeOK
  <2> QED BY <1>2, <2>1, <2>2 DEF RegisterCreate
<1> QED BY <1>1, <1>2 DEF Register

\* Logins: those that fail or find nobody, the deletion and the insert.
LEMMA LoginType ==
    ASSUME TypeInv, NEW l \in Logins, Login(l)
    PROVE  TypeInv'
<1> USE DEF TypeInv
<1>0. /\ \A t \in Tokens : sessions[t] \in SessionRows
      /\ \A row \in SessionRows : row # None
  BY RowsAreRows
<1>1. CASE LoginHas(l)
  <2>1. /\ lpc[l] = "idle" /\ \A k \in Logins : k # l => lpc'[k] = lpc[k]
        /\ lpc' \in [Logins -> {"idle", "clean", "create", "answered", "unknown", "failed"}]
        /\ lpc'[l] \in {"clean", "unknown", "failed"}
    BY <1>1 DEF LoginHas, LoginTypeOK
  <2>2. /\ \A k \in Logins : k # l => luser'[k] = luser[k] /\ lmach'[k] = lmach[k]
        /\ lpc'[l] = "clean" => luser'[l] \in UserIds
    BY <1>1 DEF LoginHas, LoginTypeOK, Matches, UserIds
  <2>3. /\ lcred' \in [Logins -> Credentials \cup {None}]
        /\ luser' \in [Logins -> Nat]
        /\ lmach' \in [Logins -> Machines \cup {None}]
    <3>1. \A c \in Credentials : Matches(c) \subseteq Nat BY DEF Matches, RegisterTypeOK
    <3> QED BY <1>1, <3>1 DEF LoginHas, LoginTypeOK
  <2>4. UNCHANGED <<users, sessions, registerVars, lsaw, requestVars, expired>>
    BY <1>1 DEF LoginHas
  <2>5. RowsRefer'
    <3>1. RowsMatch' BY <2>1, <2>2, <2>4 DEF RowsRefer, RowsMatch, Tokens
    <3>2. ReadsMatch' BY <2>1, <2>2, <2>4 DEF RowsRefer, ReadsMatch, RequestTypeOK
    <3>3. LoginsKnowUsers' BY <2>1, <2>2, <2>4 DEF RowsRefer, LoginsKnowUsers, UserIds
    <3>4. SeenWereAnswered' BY <2>1, <2>2, <2>4
                              DEF RowsRefer, SeenWereAnswered, LoginTypeOK, Tokens, RowsMatch
    <3>5. UsedAreCounted' BY <2>1, <2>2, <2>4 DEF RowsRefer, UsedAreCounted, RequestTypeOK, Tokens
    <3> QED BY <3>1, <3>2, <3>3, <3>4, <3>5 DEF RowsRefer
  <2>6. RegisterTypeOK' /\ LoginTypeOK' /\ RequestTypeOK'
    BY <2>1, <2>3, <2>4 DEF RegisterTypeOK, LoginTypeOK, RequestTypeOK
  <2> QED BY <2>5, <2>6
<1>2. CASE CleanOldSessions(l)
  <2>1. /\ lpc[l] = "clean" /\ \A k \in Logins : k # l => lpc'[k] = lpc[k]
        /\ lpc' \in [Logins -> {"idle", "clean", "create", "answered", "unknown", "failed"}]
        /\ lpc'[l] = "create"
    BY <1>2 DEF CleanOldSessions, LoginTypeOK
  <2>2. UNCHANGED <<users, registerVars, lcred, luser, lmach, requestVars, expired>>
    BY <1>2 DEF CleanOldSessions
  <2>3. /\ sessions' \in [Logins -> SessionRows \cup {None}]
        /\ Tokens' \subseteq Tokens /\ \A t \in Tokens' : sessions'[t] = sessions[t]
    BY <1>2 DEF CleanOldSessions, Without, LoginTypeOK, Tokens
  <2>4. /\ lsaw' \in [Logins -> SUBSET Logins]
        /\ \A k \in Logins : k # l => lsaw'[k] = lsaw[k]
        /\ lsaw'[l] \subseteq Tokens \cup lsaw[l]
    BY <1>2 DEF CleanOldSessions, LoginTypeOK, Tokens
  <2>5. l \notin Tokens /\ lsaw[l] = {} BY <2>1 DEF RowsRefer, RowsMatch, SeenWereAnswered
  <2>6. RowsRefer'
    <3>1. RowsMatch' BY <2>1, <2>2, <2>3, <2>4, <2>5 DEF RowsRefer, RowsMatch, Tokens
    <3>2. ReadsMatch' BY <2>1, <2>2, <2>3, <2>4, <2>5 DEF RowsRefer, ReadsMatch, RequestTypeOK
    <3>3. LoginsKnowUsers' BY <2>1, <2>2, <2>3, <2>4, <2>5 DEF RowsRefer, LoginsKnowUsers, UserIds
    <3>4. SeenWereAnswered' BY <2>1, <2>2, <2>3, <2>4, <2>5
                              DEF RowsRefer, SeenWereAnswered, LoginTypeOK, Tokens, RowsMatch
    <3>5. UsedAreCounted' BY <2>1, <2>2, <2>3, <2>4, <2>5
                            DEF RowsRefer, UsedAreCounted, RequestTypeOK, Tokens
    <3> QED BY <3>1, <3>2, <3>3, <3>4, <3>5 DEF RowsRefer
  <2>7. RegisterTypeOK' /\ LoginTypeOK' /\ RequestTypeOK'
    BY <2>1, <2>2, <2>3, <2>4 DEF RegisterTypeOK, LoginTypeOK, RequestTypeOK
  <2> QED BY <2>6, <2>7
<1>3. CASE CreateSession(l)
  <2>1. /\ lpc[l] = "create" /\ \A k \in Logins : k # l => lpc'[k] = lpc[k]
        /\ lpc' \in [Logins -> {"idle", "clean", "create", "answered", "unknown", "failed"}]
        /\ lpc'[l] \in {"answered", "failed"}
    BY <1>3 DEF CreateSession, LoginTypeOK
  <2>2. UNCHANGED <<users, registerVars, lcred, luser, lmach, lsaw, requestVars, expired>>
    BY <1>3 DEF CreateSession
  <2>3. luser[l] \in UserIds /\ l \notin used /\ l \notin Tokens
    BY <2>1 DEF RowsRefer, RowsMatch, LoginsKnowUsers, UsedAreCounted
  <2>4. luser[l] \in Nat \ {0} BY <2>3 DEF UserIds, RegisterTypeOK
  <2>5. NewSession(l) \in SessionRows
    BY <2>4 DEF NewSession, SessionRows, LoginTypeOK
  <2>6. sessions' \in [Logins -> SessionRows \cup {None}]
    BY <1>3, <2>5 DEF CreateSession, LoginTypeOK
  <2>7. /\ \A t \in Logins : t # l => sessions'[t] = sessions[t]
        /\ l \in Tokens' => sessions'[l] = NewSession(l) /\ lpc'[l] = "answered"
    BY <1>3, <2>3 DEF CreateSession, LoginTypeOK, Tokens
  <2>8. RowsRefer'
    <3>1. RowsMatch' BY <2>1, <2>2, <2>3, <2>7 DEF RowsRefer, RowsMatch, Tokens, NewSession
    <3>2. ReadsMatch' BY <2>1, <2>2, <2>3, <2>7 DEF RowsRefer, ReadsMatch, RequestTypeOK, NewSession
    <3>3. LoginsKnowUsers' BY <2>1, <2>2, <2>3, <2>7
                             DEF RowsRefer, LoginsKnowUsers, UserIds, NewSession
    <3>4. SeenWereAnswered' BY <2>1, <2>2, <2>3, <2>7
                              DEF RowsRefer, SeenWereAnswered, LoginTypeOK, Tokens, RowsMatch, NewSession
    <3>5. UsedAreCounted' BY <2>1, <2>2, <2>3, <2>7
                            DEF RowsRefer, UsedAreCounted, RequestTypeOK, Tokens, NewSession
    <3> QED BY <3>1, <3>2, <3>3, <3>4, <3>5 DEF RowsRefer
  <2>9. RegisterTypeOK' /\ LoginTypeOK' /\ RequestTypeOK'
    BY <2>1, <2>2, <2>6 DEF RegisterTypeOK, LoginTypeOK, RequestTypeOK
  <2> QED BY <2>8, <2>9
<1> QED BY <1>1, <1>2, <1>3 DEF Login

\* Requests: the row that is read is saved with a higher count, or inserted.
LEMMA RequestType ==
    ASSUME TypeInv, NEW q \in Requests, Request(q)
    PROVE  TypeInv'
<1> USE DEF TypeInv
<1>0. /\ \A t \in Tokens : sessions[t] \in SessionRows
      /\ \A row \in SessionRows : row # None
  BY RowsAreRows
<1>1. CASE ReadSession(q)
  <2>1. UNCHANGED <<users, sessions, registerVars, loginVars, used, revived, expired>>
    BY <1>1 DEF ReadSession
  <2>2. PICK t \in Logins :
          /\ lpc[t] = "answered"
          /\ qtoken' = [qtoken EXCEPT ![q] = t]
          /\ \/ /\ t \in Tokens
                /\ qrow' = [qrow EXCEPT ![q] = sessions[t]]
                /\ qpc' = [qpc EXCEPT ![q] = "save"]
             \/ /\ qpc' = [qpc EXCEPT ![q] = "refused"]
                /\ UNCHANGED qrow
    BY <1>1 DEF ReadSession
  <2>3. RequestTypeOK' BY <1>0, <2>1, <2>2 DEF RequestTypeOK
  <2>4. ReadsMatch' BY <2>1, <2>2 DEF RowsRefer, RowsMatch, ReadsMatch, RequestTypeOK
  <2> QED BY <2>1, <2>3, <2>4 DEF RegisterTypeOK, LoginTypeOK, RowsRefer, RowsMatch,
        LoginsKnowUsers, SeenWereAnswered, UsedAreCounted, Tokens, UserIds
<1>2. CASE SaveSession(q)
  <2> DEFINE t == qtoken[q]
  <2>1. /\ qpc[q] = "save" /\ t \in Logins /\ qrow[q] \in SessionRows /\ lpc[t] = "answered"
        /\ qrow[q].user = luser[t] /\ qrow[q].machine = lmach[t]
    BY <1>2 DEF SaveSession, RequestTypeOK, RowsRefer, ReadsMatch
  <2>2. UNCHANGED <<users, registerVars, loginVars, qtoken>> BY <1>2 DEF SaveSession
  <2>3. /\ qpc' = [qpc EXCEPT ![q] = "done"] /\ qrow' = [qrow EXCEPT ![q] = None]
        /\ used \subseteq used' /\ used' \subseteq used \cup {t}
        /\ revived' \subseteq Logins /\ expired' \subseteq Logins
    BY <1>2, <2>1 DEF SaveSession, RequestTypeOK
  <2>4. /\ sessions' \in [Logins -> SessionRows \cup {None}]
        /\ \A k \in Logins : k # t => sessions'[k] = sessions[k]
        /\ \/ sessions' = sessions /\ used' = used
           \/ /\ sessions'[t] \in SessionRows /\ sessions'[t].requests > 0
              /\ sessions'[t].user = luser[t] /\ sessions'[t].machine = lmach[t]
    <3>1. CASE sessions' = Saved(q)
      <4>1. PICK o \in BOOLEAN : sessions' = [sessions EXCEPT ![t] = [Counted(q) EXCEPT !.old = o]]
        BY <1>0, <2>1, <3>1 DEF Saved, SessionRows
      <4>2. /\ [Counted(q) EXCEPT !.old = o] \in SessionRows
            /\ [Counted(q) EXCEPT !.old = o].requests > 0
            /\ [Counted(q) EXCEPT !.old = o].user = luser[t]
            /\ [Counted(q) EXCEPT !.old = o].machine = lmach[t]
        <5>1. /\ Counted(q) \in SessionRows /\ Counted(q).requests > 0
              /\ Counted(q).user = qrow[q].user /\ Counted(q).machine = qrow[q].machine
          BY <2>1 DEF Counted, SessionRows
        <5> QED BY <2>1, <5>1 DEF SessionRows
      <4> QED BY <2>1, <4>1, <4>2 DEF LoginTypeOK
    <3> QED BY <1>2, <3>1 DEF SaveSession, LoginTypeOK
  <2>5. RowsMatch' BY <2>1, <2>2, <2>4 DEF RowsRefer, RowsMatch, Tokens
  <2>6. ReadsMatch' BY <2>2, <2>3 DEF RowsRefer, ReadsMatch, RequestTypeOK
  <2>7. UsedAreCounted'
    BY <2>1, <2>2, <2>3, <2>4 DEF RowsRefer, UsedAreCounted, RequestTypeOK, Tokens
  <2>8. RequestTypeOK' BY <2>1, <2>2, <2>3 DEF RequestTypeOK
  <2> QED BY <2>2, <2>4, <2>5, <2>6, <2>7, <2>8 DEF RegisterTypeOK, LoginTypeOK, RowsRefer,
        LoginsKnowUsers, SeenWereAnswered, UserIds
<1> QED BY <1>1, <1>2 DEF Request

\* The cleanup service, and time.
LEMMA CleanupType ==
    ASSUME TypeInv, DeleteUnusedSessions \/ \E t \in Logins : GetOld(t)
    PROVE  TypeInv'
<1> USE DEF TypeInv
<1>0. /\ \A t \in Tokens : sessions[t] \in SessionRows
      /\ \A row \in SessionRows : row # None
  BY RowsAreRows
<1>1. UNCHANGED <<users, registerVars, loginVars, requestVars>>
  BY DEF DeleteUnusedSessions, GetOld
<1>2. /\ sessions' \in [Logins -> SessionRows \cup {None}]
      /\ \A t \in Tokens' : /\ t \in Tokens
                           /\ sessions'[t].user = sessions[t].user
                           /\ sessions'[t].machine = sessions[t].machine
                           /\ sessions'[t].requests = sessions[t].requests
      /\ expired' \subseteq Logins
  <2>1. CASE DeleteUnusedSessions
    BY <2>1 DEF DeleteUnusedSessions, Without, Unused, LoginTypeOK, RequestTypeOK, Tokens
  <2>2. ASSUME NEW t \in Logins, GetOld(t)
        PROVE  /\ sessions' \in [Logins -> SessionRows \cup {None}]
               /\ \A k \in Tokens' : /\ k \in Tokens
                                    /\ sessions'[k].user = sessions[k].user
                                    /\ sessions'[k].machine = sessions[k].machine
                                    /\ sessions'[k].requests = sessions[k].requests
               /\ expired' \subseteq Logins
    <3>1. sessions[t] \in SessionRows BY <1>0, <2>2 DEF GetOld
    <3>2. [sessions[t] EXCEPT !.old = TRUE] \in SessionRows BY <3>1 DEF SessionRows
    <3>3. sessions' = [sessions EXCEPT ![t] = [sessions[t] EXCEPT !.old = TRUE]]
          /\ UNCHANGED expired
      BY <2>2 DEF GetOld
    <3>4. /\ [sessions[t] EXCEPT !.old = TRUE].user = sessions[t].user
          /\ [sessions[t] EXCEPT !.old = TRUE].machine = sessions[t].machine
          /\ [sessions[t] EXCEPT !.old = TRUE].requests = sessions[t].requests
      BY <3>1 DEF SessionRows
    <3> QED BY <2>2, <3>1, <3>2, <3>3, <3>4 DEF GetOld, LoginTypeOK, RequestTypeOK, Tokens
  <2> QED BY <2>1, <2>2
<1>3. RowsMatch' /\ UsedAreCounted'
  BY <1>1, <1>2 DEF RowsRefer, RowsMatch, UsedAreCounted
<1> QED BY <1>1, <1>2, <1>3 DEF RegisterTypeOK, LoginTypeOK, RequestTypeOK, RowsRefer,
      ReadsMatch, LoginsKnowUsers, SeenWereAnswered, UserIds

LEMMA TypeNext == TypeInv /\ [Next]_vars => TypeInv'
<1> SUFFICES ASSUME TypeInv, [Next]_vars PROVE TypeInv' OBVIOUS
<1>1. CASE UNCHANGED vars
  BY <1>1 DEF vars, TypeInv, RegisterTypeOK, LoginTypeOK, RequestTypeOK, RowsRefer, RowsMatch,
      ReadsMatch, LoginsKnowUsers, SeenWereAnswered, UsedAreCounted, Tokens, UserIds
<1> QED BY <1>1, RegisterType, LoginType, RequestType, CleanupType DEF Next

\* The rows, the handlers and the requests stay in their ranges, and every session
\* in the table is of a user that exists.
THEOREM TypeCorrect == Spec => []TypeOK
<1>1. Spec => []TypeInv BY TypeInit, TypeNext, PTL DEF Spec
<1> QED BY <1>1, TypeInvType, PTL

(***************************************************************************)
(* How long a token works                                                  *)
(***************************************************************************)

\* Once a login replaced a session, that stays so: it saw the token of a login
\* that was answered, and none of the two changes its user or machine again.
LEMMA ReplacedForGood ==
    ASSUME TypeInv, [Next]_vars, NEW t \in Logins, NEW k \in Logins, ReplacedBy(t, k)
    PROVE  ReplacedBy(t, k)'
<1>1. lpc[t] = "answered" /\ lpc[k] \notin {"idle", "clean"}
  BY DEF ReplacedBy, TypeInv, RowsRefer, SeenWereAnswered
<1>2. ASSUME NEW l \in Logins, Login(l) PROVE ReplacedBy(t, k)'
  <2>1. CASE LoginHas(l)
    BY <1>1, <2>1 DEF LoginHas, ReplacedBy, TypeInv, LoginTypeOK
  <2>2. CASE CleanOldSessions(l)
    BY <1>1, <2>2 DEF CleanOldSessions, ReplacedBy, TypeInv, LoginTypeOK
  <2>3. CASE CreateSession(l)
    BY <2>3 DEF CreateSession, ReplacedBy
  <2> QED BY <1>2, <2>1, <2>2, <2>3 DEF Login
<1>3. CASE UNCHANGED loginVars BY <1>3 DEF ReplacedBy
<1> QED BY <1>2, <1>3 DEF Next, vars, Register, RegisterHas, RegisterCreate, Request, ReadSession,
      SaveSession, DeleteUnusedSessions, GetOld

\* A login that replaces a session deletes it in the same step.
LEMMA ReplacedIsDeleted ==
    ASSUME TypeInv, [Next]_vars, NEW t \in Logins, NEW k \in Logins,
           ~ReplacedBy(t, k), ReplacedBy(t, k)'
    PROVE  t \notin Tokens'
<1>1. ASSUME NEW l \in Logins, Login(l) PROVE t \notin Tokens'
  <2>1. CASE LoginHas(l)
    <3>1. l = t \/ l = k BY <2>1 DEF LoginHas, ReplacedBy, TypeInv, LoginTypeOK
    <3>2. lpc[l] = "idle" /\ lsaw' = lsaw /\ sessions' = sessions BY <2>1 DEF LoginHas
    <3>3. l # k BY <3>2 DEF ReplacedBy, TypeInv, RowsRefer, SeenWereAnswered
    <3> QED BY <3>1, <3>2, <3>3 DEF TypeInv, RowsRefer, RowsMatch, Tokens
  <2>2. CASE CleanOldSessions(l)
    <3>1. l = k /\ lsaw' = [lsaw EXCEPT ![l] = Tokens] /\ sessions' = Without(OldSessions(l))
      BY <2>2 DEF CleanOldSessions, ReplacedBy, TypeInv, LoginTypeOK
    <3>2. t \in Tokens /\ luser[k] = luser[t] /\ lmach[k] = lmach[t] /\ lmach[t] # None
      BY <2>2, <3>1 DEF CleanOldSessions, ReplacedBy, TypeInv, LoginTypeOK
    <3>3. t \in OldSessions(l)
      BY <3>1, <3>2 DEF OldSessions, TypeInv, RowsRefer, RowsMatch
    <3> QED BY <3>1, <3>3 DEF Without, Tokens
  <2>3. CASE CreateSession(l)
    BY <2>3 DEF CreateSession, ReplacedBy
  <2> QED BY <1>1, <2>1, <2>2, <2>3 DEF Login
<1>2. CASE UNCHANGED loginVars BY <1>2 DEF ReplacedBy
<1> QED BY <1>1, <1>2 DEF Next, vars, Register, RegisterHas, RegisterCreate, Request, ReadSession,
      SaveSession, DeleteUnusedSessions, GetOld

\* Only a login that replaces a session, or the cleanup of one that was never
\* used, takes it out of the table.
LEMMA DeletedForAReason ==
    ASSUME TypeInv, [Next]_vars, NEW t \in Tokens, t \notin Tokens'
    PROVE  \/ t \in expired' /\ t \notin used'
           \/ \E k \in Logins : ReplacedBy(t, k)'
<1>0. /\ t \in Logins /\ sessions[t] \in SessionRows
      /\ \A row \in SessionRows : row # None
  BY RowsAreRows DEF TypeInv, Tokens
<1>1. CASE DeleteUnusedSessions
  <2>1. t \in Unused BY <1>1 DEF DeleteUnusedSessions, Without, Tokens
  <2> QED BY <1>1, <2>1 DEF DeleteUnusedSessions, Unused, TypeInv, RowsRefer, UsedAreCounted
<1>2. ASSUME NEW l \in Logins, Login(l) PROVE \E k \in Logins : ReplacedBy(t, k)'
  <2>1. CASE LoginHas(l) BY <2>1 DEF LoginHas, Tokens
  <2>2. CASE CleanOldSessions(l)
    <3>1. sessions' = Without(OldSessions(l)) /\ lsaw' = [lsaw EXCEPT ![l] = Tokens]
      BY <2>2 DEF CleanOldSessions, Tokens
    <3>2. t \in OldSessions(l) BY <3>1 DEF Without, Tokens
    <3>3. t # l BY <2>2 DEF CleanOldSessions, TypeInv, RowsRefer, RowsMatch
    <3>4. ReplacedBy(t, l)'
      BY <2>2, <3>1, <3>2, <3>3 DEF CleanOldSessions, OldSessions, ReplacedBy, TypeInv, LoginTypeOK,
          RowsRefer, RowsMatch
    <3> QED BY <3>4
  <2>3. CASE CreateSession(l)
    <3>1. NewSession(l) # None
      <4>1. luser[l] \in Nat \ {0}
        BY <2>3 DEF CreateSession, TypeInv, RowsRefer, LoginsKnowUsers, UserIds, RegisterTypeOK
      <4>2. NewSession(l) \in SessionRows
        BY <4>1 DEF NewSession, SessionRows, TypeInv, LoginTypeOK
      <4> QED BY <1>0, <4>2
    <3> QED BY <2>3, <3>1 DEF CreateSession, TypeInv, LoginTypeOK, Tokens
  <2> QED BY <1>2, <2>1, <2>2, <2>3 DEF Login
<1>3. ASSUME NEW q \in Requests, SaveSession(q) PROVE FALSE
  <2>1. qrow[q] \in SessionRows /\ qtoken[q] \in Logins
    BY <1>3 DEF SaveSession, TypeInv, RequestTypeOK
  <2>2. Counted(q) \in SessionRows BY <2>1 DEF Counted, SessionRows
  <2>3. \A o \in BOOLEAN : [Counted(q) EXCEPT !.old = o] \in SessionRows
    BY <2>2 DEF SessionRows
  <2>4. \A o \in BOOLEAN : [Counted(q) EXCEPT !.old = o] # None BY <1>0, <2>3
  <2>5. PICK o \in BOOLEAN :
          \/ sessions' = [sessions EXCEPT ![qtoken[q]] = [Counted(q) EXCEPT !.old = o]]
          \/ sessions' = sessions
    <3>1. qrow[q].old \in BOOLEAN BY <2>1 DEF SessionRows
    <3>2. qtoken[q] \in Tokens => sessions[qtoken[q]].old \in BOOLEAN
      BY RowsAreRows DEF SessionRows, TypeInv
    <3> QED BY <1>3, <3>1, <3>2 DEF SaveSession, Saved
  <2> QED BY <2>4, <2>5 DEF Tokens, TypeInv, LoginTypeOK
<1>4. ASSUME NEW l \in Logins, GetOld(l) PROVE FALSE
  <2>1. sessions[l] \in SessionRows BY <1>4, RowsAreRows DEF GetOld, TypeInv
  <2>2. [sessions[l] EXCEPT !.old = TRUE] \in SessionRows BY <2>1 DEF SessionRows
  <2>3. sessions' = [sessions EXCEPT ![l] = [sessions[l] EXCEPT !.old = TRUE]]
    BY <1>4 DEF GetOld
  <2> QED BY <1>0, <2>2, <2>3 DEF Tokens, TypeInv, LoginTypeOK
<1>5. CASE UNCHANGED sessions BY <1>5 DEF Tokens
<1> QED BY <1>1, <1>2, <1>3, <1>4, <1>5 DEF Next, vars, Register, RegisterHas, RegisterCreate,
      Request, ReadSession

\* What an insert or a save puts into the table is a row.
LEMMA InsertedIsRow ==
    ASSUME TypeInv
    PROVE  /\ \A l \in Logins : CreateSession(l) /\ lpc'[l] = "answered" => l \in Tokens'
           /\ \A q \in Requests : SaveSession(q) /\ sessions' = Saved(q) => qtoken[q] \in Tokens'
<1>1. ASSUME NEW l \in Logins, CreateSession(l), lpc'[l] = "answered"
      PROVE  l \in Tokens'
  <2>1. luser[l] \in Nat \ {0}
    BY <1>1 DEF CreateSession, TypeInv, RowsRefer, LoginsKnowUsers, UserIds, RegisterTypeOK
  <2>2. NewSession(l) \in SessionRows BY <2>1 DEF NewSession, SessionRows, TypeInv, LoginTypeOK
  <2>3. NewSession(l) # None BY <2>2, RowsAreRows DEF TypeInv
  <2>4. sessions' = [sessions EXCEPT ![l] = NewSession(l)]
    BY <1>1 DEF CreateSession, TypeInv, LoginTypeOK
  <2> QED BY <2>3, <2>4 DEF Tokens, TypeInv, LoginTypeOK
<1>2. ASSUME NEW q \in Requests, SaveSession(q), sessions' = Saved(q)
      PROVE  qtoken[q] \in Tokens'
  <2>1. qrow[q] \in SessionRows /\ qtoken[q] \in Logins
    BY <1>2 DEF SaveSession, TypeInv, RequestTypeOK
  <2>2. Counted(q) \in SessionRows BY <2>1 DEF Counted, SessionRows
  <2>3. PICK o \in BOOLEAN : sessions' = [sessions EXCEPT ![qtoken[q]] = [Counted(q) EXCEPT !.old = o]]
    BY <1>2, <2>1, RowsAreRows DEF Saved, SessionRows, TypeInv
  <2>4. [Counted(q) EXCEPT !.old = o] \in SessionRows BY <2>2 DEF SessionRows
  <2>5. [Counted(q) EXCEPT !.old = o] # None BY <2>4, RowsAreRows DEF TypeInv
  <2> QED BY <2>1, <2>3, <2>5 DEF Tokens, TypeInv, LoginTypeOK
<1> QED BY <1>1, <1>2

\* While a token is not in the table it stays expired, no request is counted for
\* it, and its login is not answered.
LEMMA GoneStaysGone ==
    ASSUME TypeInv, [Next]_vars, NEW t \in Logins, t \notin Tokens'
    PROVE  /\ t \in expired => t \in expired'
           /\ t \in used' => t \in used
           /\ lpc'[t] = "answered" => lpc[t] = "answered"
<1>1. ASSUME NEW l \in Logins, Login(l)
      PROVE  lpc'[t] = "answered" => lpc[t] = "answered"
  <2>1. CASE LoginHas(l) BY <2>1 DEF LoginHas, TypeInv, LoginTypeOK
  <2>2. CASE CleanOldSessions(l) BY <2>2 DEF CleanOldSessions, TypeInv, LoginTypeOK
  <2>3. CASE CreateSession(l)
    BY <2>3, InsertedIsRow DEF CreateSession, TypeInv, LoginTypeOK
  <2> QED BY <1>1, <2>1, <2>2, <2>3 DEF Login
<1>2. ASSUME NEW l \in Logins, Login(l) PROVE UNCHANGED <<expired, used>>
  BY <1>2 DEF Login, LoginHas, CleanOldSessions, CreateSession
<1>3. ASSUME NEW q \in Requests, SaveSession(q)
      PROVE  /\ UNCHANGED lpc
             /\ t \in expired => t \in expired'
             /\ t \in used' => t \in used
  BY <1>3, InsertedIsRow DEF SaveSession
<1>4. CASE DeleteUnusedSessions BY <1>4 DEF DeleteUnusedSessions
<1>5. CASE UNCHANGED <<lpc, expired, used>> BY <1>5
<1> QED BY <1>1, <1>2, <1>3, <1>4, <1>5 DEF Next, vars, Register, RegisterHas, RegisterCreate,
      Request, ReadSession, GetOld

\* TypeInv holds in every behaviour.
LEMMA TypeInvariance == Spec => []TypeInv
BY TypeInit, TypeNext, PTL DEF Spec

\* The token of an answered login works until a login of that user on that machine
\* replaces it or it expires unused, although requests put rows back.
THEOREM AnsweredTokensWork == Spec => []AnsweredTokenWorks
<1>1. Init => AnsweredTokenWorks BY DEF Init, AnsweredTokenWorks
<1>2. TypeInv /\ AnsweredTokenWorks /\ [Next]_vars => AnsweredTokenWorks'
  <2> SUFFICES ASSUME TypeInv, AnsweredTokenWorks, [Next]_vars,
                      NEW t \in Logins, lpc'[t] = "answered", t \notin Tokens'
               PROVE  t \in expired' \/ \E k \in Logins : ReplacedBy(t, k)'
    BY DEF AnsweredTokenWorks
  <2>1. CASE t \in Tokens BY <2>1, DeletedForAReason
  <2>2. CASE t \notin Tokens
    <3>1. t \in expired \/ \E k \in Logins : ReplacedBy(t, k)
      BY <2>2, GoneStaysGone DEF AnsweredTokenWorks
    <3> QED BY <3>1, GoneStaysGone, ReplacedForGood
  <2> QED BY <2>1, <2>2
<1> QED BY <1>1, <1>2, TypeInvariance, PTL DEF Spec

\* Once one of its requests was counted, a session leaves the table only by a
\* login that replaces it: the cleanup loses the race against the save.
CountedStays == \A t \in used \ Tokens : \E k \in Logins : ReplacedBy(t, k)

\* A session that served a request leaves the table only by a login that replaces
\* it, unless the save of the counter failed for all its requests.
THEOREM UsedSessionsStay == Spec => []UsedSessionStays
<1>1. Init => CountedStays BY DEF Init, CountedStays
<1>2. TypeInv /\ CountedStays /\ [Next]_vars => CountedStays'
  <2> SUFFICES ASSUME TypeInv, CountedStays, [Next]_vars, NEW t \in used', t \notin Tokens'
               PROVE  \E k \in Logins : ReplacedBy(t, k)'
    BY DEF CountedStays
  <2>1. t \in Logins BY TypeNext DEF TypeInv, RequestTypeOK
  <2>2. t \in used BY <2>1, GoneStaysGone
  <2>3. CASE t \in Tokens BY <2>2, <2>3, DeletedForAReason, GoneStaysGone
  <2>4. CASE t \notin Tokens BY <2>1, <2>2, <2>4, ReplacedForGood DEF CountedStays
  <2> QED BY <2>3, <2>4
<1>3. CountedStays => UsedSessionStays BY DEF CountedStays, UsedSessionStays
<1> QED BY <1>1, <1>2, <1>3, TypeInvariance, PTL DEF Spec

\* A token enters the table by its login, or by a request that read it before.
LEMMA InsertedOrRevived ==
    ASSUME TypeInv, [Next]_vars, NEW t \in Logins
    PROVE  /\ t \in revived => t \in revived'
           /\ t \in Tokens' /\ t \notin Tokens => t \in revived' \/ lpc[t] = "create"
<1>1. ASSUME NEW l \in Logins, Login(l)
      PROVE  revived' = revived /\ (t \in Tokens' /\ t \notin Tokens => lpc[t] = "create")
  BY <1>1
    DEF Login, LoginHas, CleanOldSessions, CreateSession, Without, Tokens, TypeInv, LoginTypeOK
<1>2. ASSUME NEW q \in Requests, SaveSession(q)
      PROVE  /\ t \in revived => t \in revived'
             /\ t \in Tokens' /\ t \notin Tokens => t \in revived'
  BY <1>2 DEF SaveSession, Saved, Tokens, TypeInv, LoginTypeOK
<1>3. ASSUME NEW l \in Logins, GetOld(l) PROVE revived' = revived /\ (t \in Tokens' => t \in Tokens)
  BY <1>3 DEF GetOld, Tokens, TypeInv, LoginTypeOK
<1>4. CASE DeleteUnusedSessions BY <1>4 DEF DeleteUnusedSessions, Without, Tokens
<1>5. CASE UNCHANGED <<sessions, revived>> BY <1>5 DEF Tokens
<1> QED BY <1>1, <1>2, <1>3, <1>4, <1>5 DEF Next, vars, Register, RegisterHas, RegisterCreate,
      Request, ReadSession

\* A replaced session is in the table only because a request saved it back.
ReplacedIsRevived == \A t \in Tokens, k \in Logins : ReplacedBy(t, k) => t \in revived

\* Two sessions of one user on one machine, where the newer login saw the older
\* one's row, exist only because a request saved the older one back.
THEOREM OneSessionPerMachineHolds == Spec => []OneSessionPerMachine
<1>1. Init => ReplacedIsRevived BY DEF Init, ReplacedIsRevived, Tokens
<1>2. TypeInv /\ ReplacedIsRevived /\ [Next]_vars => ReplacedIsRevived'
  <2> SUFFICES ASSUME TypeInv, ReplacedIsRevived, [Next]_vars,
                      NEW t \in Tokens', NEW k \in Logins, ReplacedBy(t, k)'
               PROVE  t \in revived'
    BY DEF ReplacedIsRevived
  <2>1. t \in Logins BY DEF Tokens
  <2>2. ReplacedBy(t, k) BY <2>1, ReplacedIsDeleted
  <2>3. lpc[t] = "answered" BY <2>2 DEF ReplacedBy, TypeInv, RowsRefer, SeenWereAnswered
  <2> QED BY <2>1, <2>2, <2>3, InsertedOrRevived DEF ReplacedIsRevived
<1>3. ReplacedIsRevived => OneSessionPerMachine
  BY DEF ReplacedIsRevived, OneSessionPerMachine, Tokens
<1> QED BY <1>1, <1>2, <1>3, TypeInvariance, PTL DEF Spec

(***************************************************************************)
(* Who is registered and who is let in                                     *)
(***************************************************************************)

\* Every row of users was made by one answered registration, and Has found none
\* of the rows it looked at to carry the name.
RegistrationsMadeUsers ==
    /\ \A r \in Registers :
        /\ rpc[r] = "answered" <=> rid[r] # 0
        /\ rpc[r] = "answered" => rid[r] \in UserIds /\ users[rid[r]] = NewUser(rcred[r])
    /\ \A i \in UserIds : \E r \in Registers : rpc[r] = "answered" /\ rid[r] = i
NamesWereFree ==
    \A r \in Registers :
        /\ rpc[r] = "idle" => rsaw[r] = 0
        /\ rsaw[r] <= Len(users)
        /\ rpc[r] \in {"create", "answered"} =>
            \A i \in 1..rsaw[r] : users[i].name # rcred[r].name
UsersInv == RegistrationsMadeUsers /\ NamesWereFree

LEMMA UsersNext == TypeInv /\ UsersInv /\ [Next]_vars => UsersInv'
<1> SUFFICES ASSUME TypeInv, UsersInv, [Next]_vars PROVE UsersInv' OBVIOUS
<1> USE DEF UsersInv
<1>0. RegisterTypeOK /\ Len(users) \in Nat BY DEF TypeInv, RegisterTypeOK
<1>1. ASSUME NEW r \in Registers, RegisterHas(r) PROVE UsersInv'
  <2>1. PICK c \in Credentials :
          /\ rcred' = [rcred EXCEPT ![r] = c]
          /\ \/ /\ rpc' = [rpc EXCEPT ![r] = IF NameTaken(c) THEN "refused" ELSE "create"]
                /\ rsaw' = [rsaw EXCEPT ![r] = Len(users)]
             \/ /\ rpc' = [rpc EXCEPT ![r] = "create"]
                /\ UNCHANGED rsaw
    BY <1>1 DEF RegisterHas
  <2>2. /\ rpc[r] = "idle" /\ rpc'[r] \in {"refused", "create"}
        /\ UNCHANGED <<users, rid>>
        /\ \A s \in Registers : s # r =>
              rpc'[s] = rpc[s] /\ rcred'[s] = rcred[s] /\ rsaw'[s] = rsaw[s]
        /\ rcred'[r] = c
    BY <1>0, <1>1, <2>1 DEF RegisterHas, RegisterTypeOK
  <2>3. RegistrationsMadeUsers'
    <3>1. \A s \in Registers :
            /\ rpc'[s] = "answered" <=> rpc[s] = "answered"
            /\ rpc[s] = "answered" => rcred'[s] = rcred[s]
      BY <2>2
    <3>2. \A s \in Registers :
            /\ rpc'[s] = "answered" <=> rid'[s] # 0
            /\ rpc'[s] = "answered" =>
                rid'[s] \in UserIds' /\ users'[rid'[s]] = NewUser(rcred'[s])
      BY <2>2, <3>1 DEF RegistrationsMadeUsers, UserIds
    <3>3. \A i \in UserIds' : \E s \in Registers : rpc'[s] = "answered" /\ rid'[s] = i
      BY <2>2, <3>1 DEF RegistrationsMadeUsers, UserIds
    <3> QED BY <3>2, <3>3 DEF RegistrationsMadeUsers, NewUser
  <2>4. /\ rsaw'[r] = 0 \/ rsaw'[r] = Len(users)
        /\ rpc'[r] = "create" /\ rsaw'[r] # 0 => ~NameTaken(c)
    BY <1>0, <2>1, <2>2 DEF NamesWereFree, RegisterTypeOK
  <2>5. /\ rsaw'[r] <= Len(users)
        /\ rpc'[r] = "create" => \A i \in 1..rsaw'[r] : users[i].name # c.name
    BY <1>0, <2>4 DEF NameTaken
  <2>6. NamesWereFree' BY <2>2, <2>5 DEF NamesWereFree
  <2> QED BY <2>3, <2>6
<1>2. ASSUME NEW r \in Registers, RegisterCreate(r) PROVE UsersInv'
  <2>1. /\ rpc[r] = "create" /\ UNCHANGED <<rcred, rsaw>> /\ rcred[r] \in Credentials
        /\ \A s \in Registers : s # r => rpc'[s] = rpc[s] /\ rid'[s] = rid[s]
    BY <1>0, <1>2 DEF RegisterCreate, RegisterTypeOK
  <2>2. CASE UNCHANGED <<users, rid>> /\ rpc'[r] = "refused"
    BY <2>1, <2>2 DEF RegistrationsMadeUsers, NamesWereFree, UserIds, NewUser
  <2>3. CASE users' = Append(users, NewUser(rcred[r])) /\ rpc'[r] = "answered"
             /\ rid'[r] = Len(users) + 1
    <3>1. /\ Len(users') = Len(users) + 1 /\ users'[Len(users) + 1] = NewUser(rcred[r])
          /\ \A i \in 1..Len(users) : users'[i] = users[i]
      <4>1. NewUser(rcred[r]) \in UserRows
        BY <2>1, LowerAssumption DEF Credentials, NewUser, UserRows, Hash
      <4> QED BY <1>0, <2>3, <4>1 DEF RegisterTypeOK
    <3>2. RegistrationsMadeUsers'
      <4>1. \A s \in Registers :
              /\ rpc'[s] = "answered" <=> rid'[s] # 0
              /\ rpc'[s] = "answered" =>
                  rid'[s] \in UserIds' /\ users'[rid'[s]] = NewUser(rcred'[s])
        BY <1>0, <2>1, <2>3, <3>1 DEF RegistrationsMadeUsers, UserIds
      <4>2. \A i \in UserIds' : i = Len(users) + 1 \/ i \in UserIds BY <1>0, <3>1 DEF UserIds
      <4>3. \A i \in UserIds' : \E s \in Registers : rpc'[s] = "answered" /\ rid'[s] = i
        BY <2>1, <2>3, <4>2 DEF RegistrationsMadeUsers
      <4> QED BY <2>1, <4>1, <4>3 DEF RegistrationsMadeUsers, NewUser
    <3>3. NamesWereFree'
      BY <1>0, <2>1, <2>3, <3>1 DEF NamesWereFree, RegisterTypeOK
    <3> QED BY <3>2, <3>3
  <2> QED BY <1>0, <1>2, <2>2, <2>3 DEF RegisterCreate, RegisterTypeOK
<1>3. CASE UNCHANGED <<users, registerVars>>
  BY <1>3 DEF RegistrationsMadeUsers, NamesWereFree, UserIds, NewUser
<1> QED BY <1>1, <1>2, <1>3 DEF Next, vars, Register, Login, LoginHas, CleanOldSessions,
      CreateSession, Request, ReadSession, SaveSession, DeleteUnusedSessions, GetOld

LEMMA UsersInvariance == Spec => []UsersInv
<1>1. Init => UsersInv
  BY DEF Init, UsersInv, RegistrationsMadeUsers, NamesWereFree, UserIds
<1> QED BY <1>1, UsersNext, TypeInvariance, PTL DEF Spec

\* A name is registered twice only by overlapping registrations, a failed query, or
\* a name typed with upper-case letters.
THEOREM NamesTakenOnce == Spec => []NameTakenOnce
<1>1. TypeInv /\ UsersInv => NameTakenOnce
  <2> SUFFICES ASSUME TypeInv, UsersInv, NEW r \in Registers, NEW s \in Registers,
                      rid[r] # 0, rid[s] \in 1..rsaw[r],
                      users[rid[s]].name = users[rid[r]].name
               PROVE  rcred[r].name # Lower[rcred[r].name]
    BY DEF NameTakenOnce
  <2>1. rpc[r] = "answered" /\ users[rid[r]] = NewUser(rcred[r])
    BY DEF UsersInv, RegistrationsMadeUsers
  <2>2. users[rid[s]].name # rcred[r].name BY <2>1 DEF UsersInv, NamesWereFree
  <2> QED BY <2>1, <2>2 DEF NewUser
<1> QED BY <1>1, TypeInvariance, UsersInvariance, PTL

\* A completed registration with the name of c in lower case and its password.
RegisteredAs(c) ==
    \E r \in Registers : /\ rpc[r] = "answered"
                         /\ Lower[rcred[r].name] = c.name
                         /\ rcred[r].pass = c.pass

LEMMA MatchesAreRegistered ==
    ASSUME UsersInv, NEW c \in Credentials
    PROVE  Matches(c) # {} <=> RegisteredAs(c)
<1>1. ASSUME NEW i \in Matches(c) PROVE RegisteredAs(c)
  <2>1. i \in UserIds /\ users[i].name = c.name /\ users[i].hash = <<c.name, c.pass>>
    BY <1>1 DEF Matches, UserIds, Hash
  <2>2. PICK r \in Registers : rpc[r] = "answered" /\ rid[r] = i
    BY <2>1 DEF UsersInv, RegistrationsMadeUsers
  <2>3. users[i] = NewUser(rcred[r]) BY <2>2 DEF UsersInv, RegistrationsMadeUsers
  <2>4. <<Lower[rcred[r].name], rcred[r].pass>> = <<c.name, c.pass>>
    BY <2>1, <2>3 DEF NewUser, Hash
  <2> QED BY <2>2, <2>4 DEF RegisteredAs
<1>2. ASSUME RegisteredAs(c) PROVE Matches(c) # {}
  <2>1. PICK r \in Registers : /\ rpc[r] = "answered"
                               /\ Lower[rcred[r].name] = c.name
                               /\ rcred[r].pass = c.pass
    BY <1>2 DEF RegisteredAs
  <2>2. rid[r] \in UserIds /\ users[rid[r]] = NewUser(rcred[r])
    BY <2>1 DEF UsersInv, RegistrationsMadeUsers
  <2>3. /\ users[rid[r]].name = c.name
        /\ users[rid[r]].hash = <<c.name, c.pass>>
    BY <2>1, <2>2 DEF NewUser, Hash
  <2>4. rid[r] \in Matches(c) BY <2>2, <2>3 DEF Matches, UserIds, Hash
  <2> QED BY <2>4
<1> QED BY <1>1, <1>2

\* A login without a failing query succeeds exactly with the password of a completed
\* registration and its name in lower case.
THEOREM LoginsMatchRegistrations == Spec => LoginMatchesRegistration
<1>1. TypeInv /\ UsersInv /\ [Next]_vars =>
        \A l \in Logins : lpc[l] = "idle" /\ lpc'[l] \in {"clean", "unknown"} =>
            (lpc'[l] = "clean" <=>
                \E r \in Registers : /\ rpc[r] = "answered"
                                     /\ Lower[rcred[r].name] = lcred'[l].name
                                     /\ rcred[r].pass = lcred'[l].pass)
  <2> SUFFICES ASSUME TypeInv, UsersInv, [Next]_vars, NEW l \in Logins,
                      lpc[l] = "idle", lpc'[l] \in {"clean", "unknown"}
               PROVE  lpc'[l] = "clean" <=> RegisteredAs(lcred'[l])
    BY DEF RegisteredAs
  <2>1. LoginHas(l)
    <3>1. PICK k \in Logins : Login(k)
      BY DEF Next, vars, Register, RegisterHas, RegisterCreate, Request, ReadSession,
          SaveSession, DeleteUnusedSessions, GetOld
    <3> QED BY <3>1 DEF Login, LoginHas, CleanOldSessions, CreateSession, TypeInv, LoginTypeOK
  <2>2. PICK c \in Credentials :
          /\ lcred' = [lcred EXCEPT ![l] = c]
          /\ \/ Matches(c) # {} /\ lpc' = [lpc EXCEPT ![l] = "clean"]
             \/ Matches(c) = {} /\ lpc' = [lpc EXCEPT ![l] = "unknown"]
             \/ lpc' = [lpc EXCEPT ![l] = "failed"]
    BY <2>1 DEF LoginHas
  <2>3. lcred'[l] = c /\ (lpc'[l] = "clean" <=> Matches(c) # {})
    BY <2>2 DEF TypeInv, LoginTypeOK
  <2> QED BY <2>3, MatchesAreRegistered
<1> QED BY <1>1, TypeInvariance, UsersInvariance, PTL DEF Spec, LoginMatchesRegistration
=============================================================================
