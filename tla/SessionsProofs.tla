---------------------------- MODULE SessionsProofs ----------------------------
(***************************************************************************)
(* For every set of users, tenants, sessions and requests: the types, that *)
(* a user without a membership stays out, and that Sessions implements     *)
(* SessionLife.                                                            *)
(***************************************************************************)
EXTENDS Sessions, TLAPS

Known(s) == s \in Session /\ sessions[s] # NoValue
Out(s) == Known(s) /\ ~ sessions[s].pendiente
Ended(p) == p = NoValue \/ (Out(p) /\ sessions[p].revocado)

\* What a request in progress has read is there and of its kind.
Fits(q) ==
  /\ q.kind = "login" => q.row \in UserRow
  /\ q.phase = "acceso" => q.kind = "login"
  /\ q.phase = "contrasena" => q.row \in UserRow /\ q.pedido \in Password
  /\ q.phase \in {"leer", "usuario", "miembro"} =>
       /\ q.kind \in {"create", "update", "status"}
       /\ q.miembro \in MemberRow
       /\ q.pedido \in BOOLEAN
  /\ q.phase = "usuario" /\ q.kind # "create" => q.row \in UserRow

UserThere(q) ==
  /\ q.phase = "miembro" => users[q.usuario] # NoValue
  /\ q.phase = "usuario" /\ q.kind # "create" => users[q.usuario] # NoValue

\* The session it renews was in force and, once revoked, stays so; the one it
\* opens is its own until it is signed.
SessionThere(q) ==
  /\ q.phase = "revocar" => Out(q.padre)
  /\ q.phase \in {"membresia", "abrir"} => Ended(q.padre)
  /\ q.phase = "abrir" => membership[q.usuario] # NoValue
  /\ q.phase \in {"firmar", "acceso"} =>
       /\ Known(q.sesion)
       /\ sessions[q.sesion].usuario = q.usuario
       /\ sessions[q.sesion].pendiente <=> q.phase = "firmar"

RequestsFit == \A r \in Request : request[r] # NoValue => Fits(request[r])
RequestsFound ==
  \A r \in Request : request[r] # NoValue => UserThere(request[r]) /\ SessionThere(request[r])

\* A session is signed by the one request that opened it.
OneOpener ==
  \A r, t \in Request :
    At(r, "firmar") /\ At(t, "firmar") /\ request[r].sesion = request[t].sesion => r = t

MembersAreUsers == \A u \in User : membership[u] # NoValue => users[u] # NoValue

RenewedAreOver == \A s \in Session : sessions[s] # NoValue => Ended(sessions[s].padre)

Typed ==
  /\ users \in [User -> UserRow \cup {NoValue}]
  /\ membership \in [User -> MemberRow \cup {NoValue}]
  /\ businesses \in [Business -> BusinessStatus]
  /\ sessions \in [Session -> SessionRow \cup {NoValue}]
  /\ access \subseteq User
  /\ request \in [Request -> RequestRecord \cup {NoValue}]

TokensOut == tokens \subseteq {s \in Session : Out(s)}

SessionsInv ==
  /\ Typed /\ TokensOut /\ RequestsFit /\ RequestsFound /\ OneOpener
  /\ MembersAreUsers /\ StrangersStayOut /\ RenewedAreOver

-----------------------------------------------------------------------------
USE SessionsAssumption

LEMMA InitSessions == Init => SessionsInv
<1> SUFFICES ASSUME Init PROVE SessionsInv
  OBVIOUS
<1>1. Typed
  <2>1. users \in [User -> UserRow \cup {NoValue}]
    BY DEF Init, UserRow
  <2> QED
    BY <2>1 DEF Init, Typed, MemberRow, MembershipStatus, BusinessStatus
<1>2. MembersAreUsers
  BY DEF Init, MembersAreUsers
<1>3. TokensOut /\ RequestsFit /\ RequestsFound /\ OneOpener /\ StrangersStayOut /\ RenewedAreOver
  BY DEF Init, TokensOut, RequestsFit, RequestsFound, OneOpener, At, StrangersStayOut,
         SessionsOf, RenewedAreOver
<1> QED
  BY <1>1, <1>2, <1>3 DEF SessionsInv

LEMMA RevokeTyped ==
  ASSUME Typed, NEW S, \A s \in S : Known(s), Revoke(S)
  PROVE  sessions' \in [Session -> SessionRow \cup {NoValue}]
<1> SUFFICES ASSUME NEW s \in S PROVE [sessions[s] EXCEPT !.revocado = TRUE] \in SessionRow
  BY DEF Typed, Revoke
<1>1. sessions[s] \in SessionRow
  BY DEF Typed, Known
<1> QED
  BY <1>1 DEF SessionRow

LEMMA TypedStep ==
  ASSUME SessionsInv, [Next]_vars PROVE Typed'
<1> USE DEF SessionsInv, Typed
<1>1. ASSUME NEW r \in Request, NEW u \in User, Login(r, u) PROVE Typed'
  BY <1>1 DEF Login, Begin, Asked, RequestRecord, Phase, rows, clients
<1>2. ASSUME NEW r \in Request, NEW u \in User, ChangePassword(r, u) PROVE Typed'
  BY <1>2 DEF ChangePassword, Begin, Asked, RequestRecord, Phase, rows, clients, StrangersStayOut, MembersAreUsers
<1>3. ASSUME NEW r \in Request, NEW s \in tokens, Refresh(r, s) PROVE Typed'
  BY <1>3 DEF Refresh, Begin, Asked, RequestRecord, Phase, rows, clients, TokensOut, Out, Known, SessionRow
<1>4. ASSUME NEW r \in Request, NEW u \in User, NEW v \in User, AskUsers(r, v, u) PROVE Typed'
  <2>1. [negocio |-> membership[v].negocio, estatus |-> "ACTIVA"] \in MemberRow
    BY <1>4 DEF AskUsers, Authorized, Member, MemberRow, MembershipStatus
  <2>2. PICK kind \in {"create", "update", "status"}, activo \in BOOLEAN :
           Begin(r, [Asked(kind, u, NoValue, "leer") EXCEPT
                       !.pedido = activo,
                       !.miembro = [negocio |-> membership[v].negocio, estatus |-> "ACTIVA"]])
    BY <1>4 DEF AskUsers
  <2> DEFINE m == [negocio |-> membership[v].negocio, estatus |-> "ACTIVA"]
             q == [Asked(kind, u, NoValue, "leer") EXCEPT !.pedido = activo, !.miembro = m]
  <2>3. m \in MemberRow
    BY <2>1
  <2> HIDE DEF m
  <2>4. Asked(kind, u, NoValue, "leer") \in RequestRecord
    BY DEF Asked, RequestRecord, Phase
  <2>5. q \in RequestRecord
    <3>1. [Asked(kind, u, NoValue, "leer") EXCEPT !.pedido = activo] \in RequestRecord
      BY <2>4 DEF RequestRecord
    <3> QED
      BY <2>3, <3>1 DEF RequestRecord
  <2> HIDE DEF q
  <2>6. request' \in [Request -> RequestRecord \cup {NoValue}]
    BY <2>2, <2>5 DEF Begin, q, m
  <2> QED
    BY <1>4, <2>6 DEF AskUsers, rows, clients
<1>5. ASSUME NEW r \in Request, RevokeOld(r) PROVE Typed'
  <2> DEFINE p == request[r].padre
  <2>1. p \in Session /\ sessions[p] \in SessionRow
    BY <1>5 DEF RevokeOld, At, RequestsFound, SessionThere, Out, Known
  <2>2. [sessions[p] EXCEPT !.revocado = TRUE] \in SessionRow
    BY <2>1 DEF SessionRow
  <2>3. sessions' \in [Session -> SessionRow \cup {NoValue}]
    BY <1>5, <2>2 DEF RevokeOld
  <2> QED
    BY <1>5, <2>3 DEF RevokeOld, At, GoTo, RequestRecord, Phase, rows, clients
<1>6. ASSUME NEW r \in Request, FindMembership(r) PROVE Typed'
  BY <1>6 DEF FindMembership, At, GoTo, Forget, RequestRecord, Phase, rows, clients
<1>7. ASSUME NEW r \in Request, SaveSession(r) PROVE Typed'
  <2> DEFINE s == request[r].sesion
  <2>1. s \in Session /\ sessions[s] \in SessionRow
    BY <1>7 DEF SaveSession, At, RequestsFound, SessionThere, Known
  <2>2. [sessions[s] EXCEPT !.pendiente = FALSE, !.revocado = FALSE] \in SessionRow
    BY <2>1 DEF SessionRow
  <2>3. sessions' \in [Session -> SessionRow \cup {NoValue}]
    BY <1>7, <2>1, <2>2 DEF SaveSession
  <2>4. request' \in [Request -> RequestRecord \cup {NoValue}] /\ access' \subseteq User
    BY <1>7 DEF SaveSession, At, GoTo, Forget, Answer, clients, RequestRecord, Phase
  <2> QED
    BY <1>7, <2>3, <2>4 DEF SaveSession, rows
<1>8. ASSUME NEW r \in Request, NEW s \in Session, OpenSession(r, s) PROVE Typed'
  <2>1. NewSession(request[r]) \in SessionRow
    BY <1>8 DEF OpenSession, At, NewSession, SessionRow, RequestRecord
  <2>2. sessions' \in [Session -> SessionRow \cup {NoValue}]
    BY <1>8, <2>1 DEF OpenSession
  <2>3. [request[r] EXCEPT !.phase = "firmar", !.sesion = s] \in RequestRecord
    <3>1. request[r] \in RequestRecord
      BY <1>8 DEF OpenSession, At
    <3>2. [request[r] EXCEPT !.phase = "firmar"] \in RequestRecord
      BY <3>1 DEF RequestRecord, Phase
    <3> QED
      BY <3>2 DEF RequestRecord
  <2>4. request' \in [Request -> RequestRecord \cup {NoValue}]
    BY <1>8, <2>3 DEF OpenSession
  <2> QED
    BY <1>8, <2>2, <2>4 DEF OpenSession, rows, clients
<1>9. ASSUME NEW r \in Request, SaveLastAccess(r) PROVE Typed'
  BY <1>9 DEF SaveLastAccess, At, Forget, Answer, RequestRecord, Phase, clients, RequestsFit, Fits
<1>10. ASSUME NEW r \in Request, SavePassword(r) PROVE Typed'
  BY <1>10 DEF SavePassword, At, GoTo, RequestRecord, Phase, clients, RequestsFit, Fits, UserRow
<1>11. ASSUME NEW r \in Request, CloseSessions(r) PROVE Typed'
  BY <1>11, RevokeTyped DEF CloseSessions, SessionsOf, Known, At, Forget, rows, clients
<1>12. ASSUME NEW r \in Request, ReadMember(r) PROVE Typed'
  BY <1>12 DEF ReadMember, MemberFound, At, GoTo, Forget, RequestRecord, Phase, rows, clients
<1>13. ASSUME NEW r \in Request, SaveUser(r) PROVE Typed'
  <2> DEFINE q == request[r]
             u == q.usuario
  <2>1. u \in User /\ q \in RequestRecord /\ q.pedido \in BOOLEAN
    BY <1>13 DEF SaveUser, At, RequestRecord, RequestsFit, Fits
  <2>2. users' \in [User -> UserRow \cup {NoValue}]
    <3>1. CASE q.kind = "create"
      <4>1. PICK p \in Password :
               users' = [users EXCEPT ![u] = [password |-> p, activo |-> q.pedido]]
        BY <1>13, <3>1 DEF SaveUser
      <4>2. [password |-> p, activo |-> q.pedido] \in UserRow
        BY <2>1 DEF UserRow
      <4> QED
        BY <4>1, <4>2
    <3>2. CASE q.kind # "create"
      <4> DEFINE a == IF q.kind = "status" THEN q.pedido ELSE q.row.activo
      <4>1. users[u] \in UserRow /\ a \in BOOLEAN
        BY <1>13, <2>1, <3>2 DEF SaveUser, At, RequestsFit, Fits, RequestsFound, UserThere, UserRow
      <4>2. [users[u] EXCEPT !.activo = a] \in UserRow
        BY <4>1 DEF UserRow
      <4>3. users' = [users EXCEPT ![u] = [users[u] EXCEPT !.activo = a]]
        BY <1>13, <2>1, <3>2 DEF SaveUser
      <4> QED
        BY <4>2, <4>3
    <3> QED
      BY <3>1, <3>2
  <2>3. request' \in [Request -> RequestRecord \cup {NoValue}]
    BY <1>13, <2>1 DEF SaveUser, GoTo, RequestRecord, Phase
  <2> QED
    BY <1>13, <2>2, <2>3 DEF SaveUser, clients
<1>14. ASSUME NEW r \in Request, SaveMember(r) PROVE Typed'
  BY <1>14 DEF SaveMember, At, Forget, clients, RequestsFit, Fits, MemberRow, MembershipStatus
<1>15. ASSUME NEW r \in Request, Fail(r) PROVE Typed'
  BY <1>15 DEF Fail, Forget, rows, clients
<1>16. ASSUME NEW u \in User, Logout(u) PROVE Typed'
  BY <1>16, RevokeTyped DEF Logout, SessionsOf, Known, rows, clients
<1>17. ASSUME NEW u \in User, Expire(u) PROVE Typed'
  BY <1>17 DEF Expire, rows
<1>18. ASSUME NEW v \in User, NEW b \in Business, StatusBusiness(v, b) PROVE Typed'
  BY <1>18 DEF StatusBusiness, clients
<1>19. ASSUME NEW v \in User, NEW b \in Business, NEW u \in User, CreateBusiness(v, b, u) PROVE Typed'
  BY <1>19 DEF CreateBusiness, clients, UserRow, MemberRow, MembershipStatus, BusinessStatus
<1>20. CASE UNCHANGED vars
  BY <1>20 DEF vars, rows, clients
<1> QED
  BY <1>1, <1>2, <1>3, <1>4, <1>5, <1>6, <1>7, <1>8, <1>9, <1>10, <1>11, <1>12, <1>13, <1>14,
     <1>15, <1>16, <1>17, <1>18, <1>19, <1>20 DEF Next, Proceed

\* Fits is about what a request holds, so only the steps that give it something
\* are cases.
LEMMA FitStep ==
  ASSUME SessionsInv, [Next]_vars PROVE RequestsFit'
<1> USE DEF SessionsInv, Typed, RequestsFit
<1>1. ASSUME NEW r \in Request, NEW u \in User, Login(r, u) PROVE RequestsFit'
  BY <1>1 DEF Login, Begin, Asked, Fits
<1>2. ASSUME NEW r \in Request, NEW u \in User, ChangePassword(r, u) PROVE RequestsFit'
  BY <1>2 DEF ChangePassword, Begin, Asked, Fits, StrangersStayOut, MembersAreUsers
<1>3. ASSUME NEW r \in Request, NEW s \in tokens, Refresh(r, s) PROVE RequestsFit'
  BY <1>3 DEF Refresh, Begin, Asked, Fits
<1>4. ASSUME NEW r \in Request, NEW u \in User, NEW v \in User, AskUsers(r, v, u)
      PROVE  RequestsFit'
  <2>1. [negocio |-> membership[v].negocio, estatus |-> "ACTIVA"] \in MemberRow
    BY <1>4 DEF AskUsers, Authorized, Member, MemberRow, MembershipStatus
  <2> QED
    BY <1>4, <2>1 DEF AskUsers, Begin, Asked, Fits
<1>5. ASSUME NEW r \in Request, RevokeOld(r) PROVE RequestsFit'
  BY <1>5 DEF RevokeOld, At, GoTo, Fits, RequestRecord
<1>6. ASSUME NEW r \in Request, FindMembership(r) PROVE RequestsFit'
  BY <1>6 DEF FindMembership, At, GoTo, Forget, Fits, RequestRecord
<1>7. ASSUME NEW r \in Request, SaveSession(r) PROVE RequestsFit'
  BY <1>7 DEF SaveSession, At, GoTo, Forget, Fits, RequestRecord
<1>8. ASSUME NEW r \in Request, NEW s \in Session, OpenSession(r, s) PROVE RequestsFit'
  BY <1>8 DEF OpenSession, At, Fits, RequestRecord
<1>9. ASSUME NEW r \in Request, SavePassword(r) PROVE RequestsFit'
  BY <1>9 DEF SavePassword, At, GoTo, Fits, RequestRecord
<1>10. ASSUME NEW r \in Request, ReadMember(r) PROVE RequestsFit'
  <2> DEFINE q == request[r]
  <2>1. q \in RequestRecord /\ Fits(q) /\ q.phase = "leer"
    BY <1>10 DEF ReadMember, At
  <2>2. MemberFound(q) => users[q.usuario] \in UserRow /\ membership[q.usuario] \in MemberRow
    BY <2>1 DEF MemberFound, MembersAreUsers, RequestRecord
  <2>3. ASSUME NEW m \in MemberRow, NEW row \in UserRow
        PROVE  Fits([q EXCEPT !.phase = "usuario", !.row = row, !.miembro = m])
    BY <2>1 DEF Fits, RequestRecord
  <2>4. CASE q.kind # "create" /\ MemberFound(q)
    <3>1. request' = [request EXCEPT ![r].phase = "usuario", ![r].row = users[q.usuario],
                                     ![r].miembro = membership[q.usuario]]
      BY <1>10, <2>4 DEF ReadMember
    <3>2. request' = [request EXCEPT ![r] = [q EXCEPT !.phase = "usuario", !.row = users[q.usuario],
                                                      !.miembro = membership[q.usuario]]]
      BY <2>1, <3>1
    <3>3. Fits([q EXCEPT !.phase = "usuario", !.row = users[q.usuario],
                         !.miembro = membership[q.usuario]])
      BY <2>2, <2>3, <2>4
    <3> QED
      BY <3>2, <3>3
  <2>5. CASE q.kind = "create"
    BY <1>10, <2>1, <2>5 DEF ReadMember, GoTo, Fits, RequestRecord
  <2>6. CASE q.kind # "create" /\ ~ MemberFound(q)
    BY <1>10, <2>6 DEF ReadMember, Forget
  <2> QED
    BY <2>4, <2>5, <2>6
<1>11. ASSUME NEW r \in Request, SaveUser(r) PROVE RequestsFit'
  BY <1>11 DEF SaveUser, At, GoTo, Fits, RequestRecord
<1>12. ASSUME NEW r \in Request, request' = [request EXCEPT ![r] = NoValue] PROVE RequestsFit'
  BY <1>12
<1>13. CASE UNCHANGED request
  BY <1>13
<1> QED
  BY <1>1, <1>2, <1>3, <1>4, <1>5, <1>6, <1>7, <1>8, <1>9, <1>10, <1>11, <1>12, <1>13
     DEF Next, Proceed, vars, SaveLastAccess, CloseSessions, SaveMember, Fail, Forget,
         Logout, Expire, StatusBusiness, CreateBusiness

\* No step takes a row away, opens a session again or gives it to another.
UsersStay == \A u \in User : users[u] # NoValue => users'[u] # NoValue

MembersStay == \A u \in User : membership[u] # NoValue => membership'[u] # NoValue

StillThere(s) ==
  /\ sessions'[s] # NoValue
  /\ sessions'[s].usuario = sessions[s].usuario
  /\ sessions'[s].padre = sessions[s].padre
  /\ ~ sessions[s].pendiente =>
       ~ sessions'[s].pendiente /\ (sessions[s].revocado => sessions'[s].revocado)

SessionsStay == \A s \in Session : sessions[s] # NoValue => StillThere(s)

LEMMA UsersStayStep ==
  ASSUME SessionsInv, [Next]_vars PROVE UsersStay
<1> USE DEF SessionsInv, Typed, UsersStay
<1>1. ASSUME NEW r \in Request, SaveLastAccess(r) PROVE UsersStay
  <2>1. request[r].row \in UserRow
    BY <1>1 DEF SaveLastAccess, At, RequestsFit, Fits
  <2> QED
    BY <1>1, <2>1 DEF SaveLastAccess
<1>2. ASSUME NEW r \in Request, SavePassword(r) PROVE UsersStay
  <2>1. [request[r].row EXCEPT !.password = request[r].pedido] \in UserRow
    BY <1>2 DEF SavePassword, At, RequestsFit, Fits, UserRow
  <2> QED
    BY <1>2, <2>1 DEF SavePassword
<1>3. ASSUME NEW r \in Request, SaveUser(r) PROVE UsersStay
  <2> DEFINE q == request[r]
             u == q.usuario
  <2>1. u \in User /\ q.pedido \in BOOLEAN
    BY <1>3 DEF SaveUser, At, RequestRecord, RequestsFit, Fits
  <2>2. CASE q.kind = "create"
    BY <1>3, <2>1, <2>2 DEF SaveUser
  <2>3. CASE q.kind # "create"
    <3> DEFINE a == IF q.kind = "status" THEN q.pedido ELSE q.row.activo
    <3>1. users[u] \in UserRow /\ a \in BOOLEAN
      BY <1>3, <2>1, <2>3 DEF SaveUser, At, RequestsFit, Fits, RequestsFound, UserThere, UserRow
    <3>2. [users[u] EXCEPT !.activo = a] \in UserRow
      BY <3>1 DEF UserRow
    <3>3. users' = [users EXCEPT ![u] = [users[u] EXCEPT !.activo = a]]
      BY <1>3, <2>1, <2>3 DEF SaveUser
    <3> QED
      BY <3>2, <3>3
  <2> QED
    BY <2>2, <2>3
<1>4. ASSUME NEW v \in User, NEW b \in Business, NEW u \in User, CreateBusiness(v, b, u)
      PROVE  UsersStay
  BY <1>4 DEF CreateBusiness
<1>5. CASE UNCHANGED users
  BY <1>5
<1> QED
  BY <1>1, <1>2, <1>3, <1>4, <1>5
     DEF Next, Proceed, vars, rows, Login, ChangePassword, Refresh, AskUsers, RevokeOld,
         FindMembership, SaveSession, OpenSession, CloseSessions, ReadMember, SaveMember, Fail,
         Logout, Expire, StatusBusiness

LEMMA MembersStayStep ==
  ASSUME SessionsInv, [Next]_vars PROVE MembersStay
<1> USE DEF SessionsInv, Typed, MembersStay
<1>1. ASSUME NEW r \in Request, SaveMember(r) PROVE MembersStay
  <2> DEFINE q == request[r]
             estatus == IF q.kind = "status" THEN IF q.pedido THEN "ACTIVA" ELSE "INACTIVA"
                                             ELSE q.miembro.estatus
  <2>1. q.miembro \in MemberRow /\ q.pedido \in BOOLEAN
    BY <1>1 DEF SaveMember, At, RequestsFit, Fits
  <2>2. estatus \in MembershipStatus
    BY <2>1 DEF MemberRow, MembershipStatus
  <2>3. membership' = [membership EXCEPT ![q.usuario] = [q.miembro EXCEPT !.estatus = estatus]]
    BY <1>1 DEF SaveMember
  <2> HIDE DEF estatus
  <2>4. [q.miembro EXCEPT !.estatus = estatus] \in MemberRow
    BY <2>1, <2>2 DEF MemberRow
  <2> QED
    BY <2>3, <2>4
<1>2. ASSUME NEW v \in User, NEW b \in Business, NEW u \in User, CreateBusiness(v, b, u)
      PROVE  MembersStay
  <2>1. [negocio |-> b, estatus |-> "ACTIVA"] \in MemberRow
    BY DEF MemberRow, MembershipStatus
  <2> QED
    BY <1>2, <2>1 DEF CreateBusiness
<1>3. CASE UNCHANGED membership
  BY <1>3
<1> QED
  BY <1>1, <1>2, <1>3
     DEF Next, Proceed, vars, rows, Login, ChangePassword, Refresh, AskUsers, RevokeOld,
         FindMembership, SaveSession, OpenSession, SaveLastAccess, SavePassword, CloseSessions,
         ReadMember, SaveUser, Fail, Logout, Expire, StatusBusiness

LEMMA RevokeStays ==
  ASSUME Typed, NEW S, Revoke(S) PROVE SessionsStay
<1> SUFFICES ASSUME NEW s \in Session, sessions[s] # NoValue PROVE StillThere(s)
  BY DEF SessionsStay
<1>1. sessions[s] \in SessionRow
  BY DEF Typed
<1>2. [sessions[s] EXCEPT !.revocado = TRUE] \in SessionRow
  BY <1>1 DEF SessionRow
<1> QED
  BY <1>1, <1>2 DEF Revoke, StillThere, SessionRow

LEMMA SessionsStayStep ==
  ASSUME SessionsInv, [Next]_vars PROVE SessionsStay
<1> USE DEF SessionsInv
<1>1. ASSUME NEW r \in Request, RevokeOld(r) PROVE SessionsStay
  <2> DEFINE p == request[r].padre
  <2>1. p \in Session /\ sessions[p] \in SessionRow
    BY <1>1 DEF Typed, RevokeOld, At, RequestsFound, SessionThere, Out, Known
  <2>2. [sessions[p] EXCEPT !.revocado = TRUE] \in SessionRow
    BY <2>1 DEF SessionRow
  <2>3. sessions' = [sessions EXCEPT ![p] = [sessions[p] EXCEPT !.revocado = TRUE]]
    BY <1>1 DEF RevokeOld
  <2> QED
    BY <2>1, <2>2, <2>3 DEF Typed, SessionsStay, StillThere, SessionRow
<1>2. ASSUME NEW r \in Request, SaveSession(r) PROVE SessionsStay
  <2> DEFINE s == request[r].sesion
  <2>1. s \in Session /\ sessions[s] \in SessionRow /\ sessions[s].pendiente
    BY <1>2 DEF Typed, SaveSession, At, RequestsFound, SessionThere, Known
  <2>2. [sessions[s] EXCEPT !.pendiente = FALSE, !.revocado = FALSE] \in SessionRow
    BY <2>1 DEF SessionRow
  <2>3. sessions' = [sessions EXCEPT ![s] =
                       [sessions[s] EXCEPT !.pendiente = FALSE, !.revocado = FALSE]]
    BY <1>2, <2>1 DEF Typed, SaveSession
  <2> QED
    BY <2>1, <2>2, <2>3 DEF Typed, SessionsStay, StillThere, SessionRow
<1>3. ASSUME NEW r \in Request, NEW s \in Session, OpenSession(r, s) PROVE SessionsStay
  BY <1>3 DEF Typed, OpenSession, SessionsStay, StillThere
<1>4. ASSUME NEW r \in Request, CloseSessions(r) PROVE SessionsStay
  BY <1>4, RevokeStays DEF CloseSessions
<1>5. ASSUME NEW u \in User, Logout(u) PROVE SessionsStay
  BY <1>5, RevokeStays DEF Logout
<1>6. CASE UNCHANGED sessions
  BY <1>6 DEF SessionsStay, StillThere
<1> QED
  BY <1>1, <1>2, <1>3, <1>4, <1>5, <1>6
     DEF Next, Proceed, vars, Login, ChangePassword, Refresh, AskUsers, FindMembership,
         SaveLastAccess, SavePassword, ReadMember, SaveUser, SaveMember, Fail, Expire,
         StatusBusiness, CreateBusiness

-----------------------------------------------------------------------------
\* Only the request that opened a session signs it.
LEMMA SignedByItsOpener ==
  ASSUME SessionsInv, [Next]_vars, NEW t \in Request, At(t, "firmar"), request'[t] = request[t]
  PROVE  sessions'[request[t].sesion].pendiente
<1> DEFINE s == request[t].sesion
<1> USE DEF SessionsInv
<1>1. s \in Session /\ sessions[s] \in SessionRow /\ sessions[s].pendiente
  BY DEF Typed, At, RequestsFound, SessionThere, Known
<1>2. ASSUME NEW r \in Request, SaveSession(r) PROVE sessions'[s].pendiente
  <2>1. At(r, "firmar") /\ r # t
    <3>1. SUFFICES ASSUME r = t PROVE FALSE
      BY <1>2 DEF SaveSession
    <3>2. request[t] \in RequestRecord /\ request[t].phase = "firmar"
      BY DEF Typed, At
    <3>3. CASE request[t].kind = "login"
      BY <1>2, <3>1, <3>2, <3>3 DEF SaveSession, GoTo, Typed, RequestRecord
    <3>4. CASE request[t].kind # "login"
      BY <1>2, <3>1, <3>2, <3>4 DEF SaveSession, Forget, Typed, At
    <3> QED
      BY <3>3, <3>4
  <2>2. request[r].sesion # s
    BY <2>1 DEF OneOpener
  <2> QED
    BY <1>1, <1>2, <2>2 DEF SaveSession, Typed
<1>3. ASSUME NEW r \in Request, RevokeOld(r) PROVE sessions'[s].pendiente
  BY <1>1, <1>3 DEF RevokeOld, Typed, SessionRow
<1>4. ASSUME NEW r \in Request, NEW x \in Session, OpenSession(r, x) PROVE sessions'[s].pendiente
  BY <1>1, <1>4 DEF OpenSession, Typed
<1>5. ASSUME NEW S, Revoke(S) PROVE sessions'[s].pendiente
  BY <1>1, <1>5 DEF Revoke, SessionRow
<1>6. CASE UNCHANGED sessions
  BY <1>1, <1>6
<1> QED
  BY <1>2, <1>3, <1>4, <1>5, <1>6
     DEF Next, Proceed, vars, Login, ChangePassword, Refresh, AskUsers, FindMembership,
         SaveLastAccess, SavePassword, CloseSessions, ReadMember, SaveUser, SaveMember, Fail,
         Logout, Expire, StatusBusiness, CreateBusiness

LEMMA OutStays ==
  ASSUME Typed, SessionsStay, NEW p PROVE (Out(p) => Out(p)') /\ (Ended(p) => Ended(p)')
BY DEF Out, Ended, Known, SessionsStay, StillThere

\* What a request that does not move has found stays found.
LEMMA WaitingFound ==
  ASSUME SessionsInv, [Next]_vars,
         NEW t \in Request, request[t] # NoValue, request'[t] = request[t]
  PROVE  UserThere(request[t])' /\ SessionThere(request[t])'
<1> DEFINE q == request[t]
<1> USE DEF SessionsInv
<1>1. q \in RequestRecord /\ UserThere(q) /\ SessionThere(q)
  BY DEF Typed, RequestsFound
<1>2. UsersStay /\ MembersStay /\ SessionsStay
  BY UsersStayStep, MembersStayStep, SessionsStayStep
<1>3. UserThere(request[t])'
  BY <1>1, <1>2 DEF UserThere, UsersStay, RequestRecord
<1>4. q.phase = "revocar" => Out(request[t].padre)'
  BY <1>1, <1>2, OutStays DEF SessionThere
<1>5. q.phase \in {"membresia", "abrir"} => Ended(request[t].padre)'
  BY <1>1, <1>2, OutStays DEF SessionThere
<1>6. q.phase = "abrir" => membership'[q.usuario] # NoValue
  BY <1>1, <1>2 DEF SessionThere, MembersStay, RequestRecord
<1>7. q.phase \in {"firmar", "acceso"} =>
        /\ Known(request[t].sesion)'
        /\ sessions'[q.sesion].usuario = q.usuario
  BY <1>1, <1>2 DEF SessionThere, Known, SessionsStay, StillThere
<1>8. q.phase = "firmar" => sessions'[q.sesion].pendiente
  BY SignedByItsOpener DEF At
<1>9. q.phase = "acceso" => ~ sessions'[q.sesion].pendiente
  BY <1>1, <1>2 DEF SessionThere, Known, SessionsStay, StillThere
<1> QED
  BY <1>3, <1>4, <1>5, <1>6, <1>7, <1>8, <1>9 DEF SessionThere

\* What a request has just done is what its next step counts on.
LEMMA FoundStep ==
  ASSUME SessionsInv, [Next]_vars PROVE RequestsFound'
<1> USE DEF SessionsInv
<1> DEFINE Found(r) == request'[r] # NoValue => UserThere(request[r])' /\ SessionThere(request[r])'
<1> SUFFICES ASSUME NEW t \in Request, request'[t] # NoValue, request'[t] # request[t]
             PROVE  UserThere(request[t])' /\ SessionThere(request[t])'
  BY WaitingFound DEF RequestsFound
<1>0. SessionsStay
  BY SessionsStayStep
<1>1. ASSUME NEW r \in Request, NEW u \in User, Login(r, u) PROVE Found(t)
  BY <1>1 DEF Login, Begin, Asked, Typed, UserThere, SessionThere, Ended
<1>2. ASSUME NEW r \in Request, NEW u \in User, ChangePassword(r, u) PROVE Found(t)
  BY <1>2 DEF ChangePassword, Begin, Asked, Typed, UserThere, SessionThere
<1>3. ASSUME NEW r \in Request, NEW s \in tokens, Refresh(r, s) PROVE Found(t)
  <2>1. Out(s)'
    BY <1>3 DEF Refresh, TokensOut, Out, Known
  <2> QED
    BY <1>3, <2>1 DEF Refresh, Begin, Asked, Typed, UserThere, SessionThere
<1>4. ASSUME NEW r \in Request, NEW u \in User, NEW v \in User, AskUsers(r, v, u) PROVE Found(t)
  BY <1>4 DEF AskUsers, Begin, Asked, Typed, UserThere, SessionThere
<1>5. ASSUME NEW r \in Request, RevokeOld(r) PROVE Found(t)
  <2> DEFINE p == request[r].padre
  <2>1. Out(p) /\ request[r] \in RequestRecord
    BY <1>5 DEF Typed, RevokeOld, At, RequestsFound, SessionThere
  <2>2. p \in Session /\ sessions'[p] # NoValue /\ ~ sessions'[p].pendiente /\ sessions'[p].revocado
    BY <1>5, <2>1, <1>0 DEF RevokeOld, Typed, Out, Known, SessionRow, SessionsStay, StillThere
  <2> QED
    BY <1>5, <2>1, <2>2
       DEF RevokeOld, GoTo, Typed, UserThere, SessionThere, RequestRecord, Ended, Out, Known
<1>6. ASSUME NEW r \in Request, FindMembership(r) PROVE Found(t)
  <2>1. Ended(request[r].padre) /\ request[r] \in RequestRecord
    BY <1>6 DEF Typed, FindMembership, At, RequestsFound, SessionThere
  <2>2. Ended(request[r].padre)'
    BY <1>6, <2>1 DEF FindMembership, Ended, Out, Known, GoTo, Forget, Typed, RequestRecord
  <2>3. CASE Member(request[r].usuario)
    BY <1>6, <2>1, <2>2, <2>3
       DEF FindMembership, Member, GoTo, Typed, UserThere, SessionThere, RequestRecord, rows
  <2>4. CASE ~ Member(request[r].usuario)
    BY <1>6, <2>4 DEF FindMembership, Forget, Typed
  <2> QED
    BY <2>3, <2>4
<1>7. ASSUME NEW r \in Request, NEW s \in Session, OpenSession(r, s) PROVE Found(t)
  <2>1. request[r] \in RequestRecord
    BY <1>7 DEF Typed, OpenSession, At
  <2>2. NewSession(request[r]) \in SessionRow
    BY <2>1 DEF NewSession, SessionRow, RequestRecord
  <2>3. /\ Known(s)'
        /\ sessions'[s].usuario = request[r].usuario
        /\ sessions'[s].pendiente
    BY <1>7, <2>2 DEF OpenSession, Typed, Known, NewSession
  <2> QED
    BY <1>7, <2>1, <2>3 DEF OpenSession, Typed, UserThere, SessionThere, RequestRecord
<1>8. ASSUME NEW r \in Request, SaveSession(r) PROVE Found(t)
  <2> DEFINE s == request[r].sesion
  <2>1. /\ request[r] \in RequestRecord /\ Known(s)
        /\ sessions[s].usuario = request[r].usuario /\ sessions[s] \in SessionRow
    BY <1>8 DEF Typed, SaveSession, At, RequestsFound, SessionThere, Known
  <2>2. ~ sessions'[s].pendiente
    BY <1>8, <2>1 DEF SaveSession, Typed, Known, SessionRow
  <2>3. s \in Session /\ sessions'[s] # NoValue /\ sessions'[s].usuario = request[r].usuario
    BY <2>1, <1>0 DEF Known, SessionsStay, StillThere
  <2>4. CASE request[r].kind = "login"
    <3>1. /\ t = r
          /\ request'[t].phase = "acceso"
          /\ request'[t].sesion = s
          /\ request'[t].usuario = request[r].usuario
      BY <1>8, <2>1, <2>4 DEF SaveSession, GoTo, Typed, RequestRecord
    <3> QED
      BY <2>2, <2>3, <3>1 DEF UserThere, SessionThere, Known
  <2>5. CASE request[r].kind # "login"
    BY <1>8, <2>5 DEF SaveSession, Forget, Typed
  <2> QED
    BY <2>4, <2>5
<1>9. ASSUME NEW r \in Request, SavePassword(r) PROVE Found(t)
  BY <1>9 DEF SavePassword, At, GoTo, Typed, UserThere, SessionThere, RequestRecord
<1>10. ASSUME NEW r \in Request, ReadMember(r) PROVE Found(t)
  <2> DEFINE q == request[r]
  <2>1. q \in RequestRecord /\ users' = users
    BY <1>10 DEF Typed, ReadMember, At, rows
  <2>2. MemberFound(q) => users[q.usuario] # NoValue
    BY <2>1 DEF MemberFound, MembersAreUsers, RequestRecord
  <2>3. CASE q.kind = "create"
    BY <1>10, <2>1, <2>3 DEF ReadMember, GoTo, Typed, UserThere, SessionThere, RequestRecord
  <2>4. CASE q.kind # "create" /\ MemberFound(q)
    <3>1. /\ request'[r].phase = "usuario" /\ request'[r].usuario = q.usuario
          /\ t = r
      BY <1>10, <2>1, <2>4 DEF ReadMember, Typed, RequestRecord
    <3> QED
      BY <2>1, <2>2, <2>4, <3>1 DEF UserThere, SessionThere
  <2>5. CASE q.kind # "create" /\ ~ MemberFound(q)
    BY <1>10, <2>5 DEF ReadMember, Forget, Typed
  <2> QED
    BY <2>3, <2>4, <2>5
<1>11. ASSUME NEW r \in Request, SaveUser(r) PROVE Found(t)
  <2> DEFINE q == request[r]
  <2>1. q \in RequestRecord /\ q.pedido \in BOOLEAN
    BY <1>11 DEF Typed, SaveUser, At, RequestsFit, Fits
  <2>2. users'[q.usuario] # NoValue
    <3>1. CASE q.kind = "create"
      BY <1>11, <2>1, <3>1 DEF SaveUser, UserRow, Typed, RequestRecord
    <3>2. CASE q.kind # "create"
      BY <1>11, <2>1, <3>2, UsersStayStep
         DEF SaveUser, At, RequestsFound, UserThere, UsersStay, RequestRecord
    <3> QED
      BY <3>1, <3>2
  <2> QED
    BY <1>11, <2>1, <2>2 DEF SaveUser, GoTo, Typed, UserThere, SessionThere, RequestRecord
<1>12. CASE UNCHANGED request
  BY <1>12
<1>13. ASSUME NEW r \in Request, request' = [request EXCEPT ![r] = NoValue] PROVE Found(t)
  BY <1>13 DEF Typed
<1> QED
  BY <1>1, <1>2, <1>3, <1>4, <1>5, <1>6, <1>7, <1>8, <1>9, <1>10, <1>11, <1>12, <1>13
     DEF Next, Proceed, vars, SaveLastAccess, CloseSessions, SaveMember, Fail, Forget,
         Logout, Expire, StatusBusiness, CreateBusiness

LEMMA OneOpenerStep ==
  ASSUME SessionsInv, [Next]_vars PROVE OneOpener'
<1> USE DEF SessionsInv
<1>1. ASSUME NEW r \in Request, NEW s \in Session, OpenSession(r, s) PROVE OneOpener'
  <2>1. \A t \in Request : At(t, "firmar") => request[t].sesion # s
    BY <1>1 DEF OpenSession, At, RequestsFound, SessionThere, Known
  <2>2. request'[r].sesion = s /\ \A t \in Request : t # r => request'[t] = request[t]
    BY <1>1 DEF OpenSession, At, Typed, RequestRecord
  <2> QED
    BY <2>1, <2>2 DEF OneOpener, At
<1>2. CASE ~ \E r \in Request, s \in Session : OpenSession(r, s)
  <2> DEFINE Others == \A t \in Request : At(t, "firmar")' => request'[t] = request[t]
  <2>1. ASSUME NEW r \in Request, NEW q, q.phase # "firmar", Begin(r, q) PROVE Others
    BY <2>1 DEF Begin, At, Typed
  <2>2. ASSUME NEW r \in Request, NEW phase, phase # "firmar", At(r, request[r].phase), GoTo(r, phase)
        PROVE  Others
    BY <2>2 DEF GoTo, At, Typed, RequestRecord
  <2>3. ASSUME NEW r \in Request, Forget(r) PROVE Others
    BY <2>3 DEF Forget, At, Typed
  <2>4. ASSUME UNCHANGED request PROVE Others
    BY <2>4 DEF At
  <2>5. ASSUME NEW r \in Request, ReadMember(r) PROVE Others
    BY <2>5 DEF ReadMember, GoTo, Forget, At, Typed, RequestRecord
  <2>6. ASSUME NEW r \in Request, NEW u \in User, Login(r, u) PROVE Others
    BY <2>1, <2>6 DEF Login, Asked
  <2>7. ASSUME NEW r \in Request, NEW u \in User, ChangePassword(r, u) PROVE Others
    BY <2>1, <2>7 DEF ChangePassword, Asked
  <2>8. ASSUME NEW r \in Request, NEW s \in tokens, Refresh(r, s) PROVE Others
    BY <2>1, <2>8 DEF Refresh, Asked
  <2>9. ASSUME NEW r \in Request, NEW u \in User, NEW v \in User, AskUsers(r, v, u) PROVE Others
    BY <2>1, <2>9 DEF AskUsers, Asked
  <2>10. ASSUME NEW r \in Request,
                RevokeOld(r) \/ FindMembership(r) \/ SaveSession(r) \/ SavePassword(r) \/ SaveUser(r)
         PROVE  Others
    BY <2>2, <2>3, <2>10 DEF RevokeOld, FindMembership, SaveSession, SavePassword, SaveUser, At
  <2>11. Others
    BY <1>2, <2>3, <2>4, <2>5, <2>6, <2>7, <2>8, <2>9, <2>10
       DEF Next, Proceed, vars, SaveLastAccess, CloseSessions, SaveMember, Fail, Logout, Expire,
           StatusBusiness, CreateBusiness
  <2> QED
    BY <2>11 DEF OneOpener, At
<1> QED
  BY <1>1, <1>2

LEMMA MembersAreUsersStep ==
  ASSUME SessionsInv, [Next]_vars PROVE MembersAreUsers'
<1> USE DEF SessionsInv
<1>0. UsersStay
  BY UsersStayStep
<1>1. ASSUME NEW r \in Request, SaveMember(r) PROVE MembersAreUsers'
  BY <1>0, <1>1 DEF SaveMember, At, RequestsFound, UserThere, MembersAreUsers, UsersStay, Typed,
     RequestRecord
<1>2. ASSUME NEW v \in User, NEW b \in Business, NEW u \in User, CreateBusiness(v, b, u)
      PROVE  MembersAreUsers'
  <2>1. PICK p \in Password : users' = [users EXCEPT ![u] = [password |-> p, activo |-> TRUE]]
    BY <1>2 DEF CreateBusiness
  <2>2. [password |-> p, activo |-> TRUE] \in UserRow
    BY DEF UserRow
  <2>3. users'[u] # NoValue
    BY <2>1, <2>2 DEF Typed
  <2> QED
    BY <1>0, <1>2, <2>3 DEF CreateBusiness, MembersAreUsers, UsersStay, Typed
<1>3. CASE UNCHANGED membership
  BY <1>0, <1>3 DEF MembersAreUsers, UsersStay
<1> QED
  BY <1>1, <1>2, <1>3
     DEF Next, Proceed, vars, rows, Login, ChangePassword, Refresh, AskUsers, RevokeOld,
         FindMembership, SaveSession, OpenSession, SaveLastAccess, SavePassword, CloseSessions,
         ReadMember, SaveUser, Fail, Logout, Expire, StatusBusiness

LEMMA OnlyOpened ==
  ASSUME SessionsInv, [Next]_vars, NEW s \in Session, sessions[s] = NoValue, sessions'[s] # NoValue
  PROVE  \E r \in Request : OpenSession(r, s)
<1> USE DEF SessionsInv
<1>0. SUFFICES ASSUME ~ \E r \in Request : OpenSession(r, s) PROVE FALSE
  OBVIOUS
<1>1. ASSUME NEW r \in Request, NEW x \in Session, x # s, OpenSession(r, x) PROVE FALSE
  BY <1>1 DEF OpenSession, Typed
<1>2. ASSUME NEW r \in Request, RevokeOld(r) PROVE FALSE
  BY <1>2 DEF RevokeOld, At, RequestsFound, SessionThere, Out, Known, Typed
<1>3. ASSUME NEW r \in Request, SaveSession(r) PROVE FALSE
  BY <1>3 DEF SaveSession, At, RequestsFound, SessionThere, Known, Typed
<1>4. ASSUME NEW S, Revoke(S), \A x \in S : Known(x) PROVE FALSE
  BY <1>4 DEF Revoke, Known
<1>5. CASE UNCHANGED sessions
  BY <1>5
<1>6. \A v \in User : \A x \in SessionsOf(v) : Known(x)
  BY DEF SessionsOf, Known
<1>7. ASSUME NEW v \in User, Logout(v) PROVE FALSE
  BY <1>4, <1>6, <1>7 DEF Logout
<1>8. ASSUME NEW r \in Request, CloseSessions(r) PROVE FALSE
  <2>1. request[r].usuario \in User
    BY <1>8 DEF CloseSessions, At, Typed, RequestRecord
  <2> QED
    BY <1>4, <1>6, <1>8, <2>1 DEF CloseSessions
<1> QED
  BY <1>0, <1>1, <1>2, <1>3, <1>5, <1>7, <1>8
     DEF Next, Proceed, vars, Login, ChangePassword, Refresh, AskUsers, FindMembership,
         SaveLastAccess, SavePassword, ReadMember, SaveUser, SaveMember, Fail, Expire,
         StatusBusiness, CreateBusiness

\* A session is opened, and a token issued, for a user that has a membership,
\* and a membership never goes.
LEMMA StrangersStep ==
  ASSUME SessionsInv, [Next]_vars PROVE StrangersStayOut'
<1> USE DEF SessionsInv
<1> SUFFICES ASSUME NEW u \in User, membership'[u] = NoValue
             PROVE  SessionsOf(u)' = {} /\ u \notin access'
  BY DEF StrangersStayOut
<1>1. membership[u] = NoValue /\ SessionsOf(u) = {} /\ u \notin access
  BY MembersStayStep DEF MembersStay, StrangersStayOut
<1>2. \A s \in Session : sessions[s] # NoValue => sessions[s].usuario # u
  BY <1>1 DEF SessionsOf
<1>3. ASSUME NEW s \in Session, sessions'[s] # NoValue PROVE sessions'[s].usuario # u
  <2>1. CASE sessions[s] # NoValue
    BY <1>2, <2>1, SessionsStayStep DEF SessionsStay, StillThere
  <2>2. CASE sessions[s] = NoValue
    <3>1. PICK r \in Request : OpenSession(r, s)
      BY <1>3, <2>2, OnlyOpened
    <3>2. membership[request[r].usuario] # NoValue
      BY <3>1 DEF OpenSession, At, RequestsFound, SessionThere
    <3>3. sessions'[s].usuario = request[r].usuario
      BY <3>1 DEF OpenSession, NewSession, Typed
    <3> QED
      BY <1>1, <3>2, <3>3
  <2> QED
    BY <2>1, <2>2
<1>4. u \notin access'
  <2>1. ASSUME NEW r \in Request, SaveSession(r) PROVE u \notin access'
    BY <1>1, <1>2, <2>1
       DEF SaveSession, Answer, clients, At, RequestsFound, SessionThere, Known
  <2>2. ASSUME NEW r \in Request, SaveLastAccess(r) PROVE u \notin access'
    BY <1>1, <1>2, <2>2
       DEF SaveLastAccess, Answer, clients, At, RequestsFound, SessionThere, Known
  <2>3. CASE access' \subseteq access
    BY <1>1, <2>3
  <2> QED
    BY <2>1, <2>2, <2>3
       DEF Next, Proceed, vars, clients, Login, ChangePassword, Refresh, AskUsers, RevokeOld,
           FindMembership, OpenSession, SavePassword, CloseSessions, ReadMember, SaveUser,
           SaveMember, Fail, Logout, Expire, StatusBusiness, CreateBusiness
<1> QED
  BY <1>3, <1>4 DEF SessionsOf

LEMMA RenewedStep ==
  ASSUME SessionsInv, [Next]_vars PROVE RenewedAreOver'
<1> USE DEF SessionsInv
<1>0. SessionsStay
  BY SessionsStayStep
<1>1. ASSUME NEW s \in Session, sessions[s] # NoValue PROVE Ended(sessions[s].padre)'
  <2>1. Ended(sessions[s].padre) /\ sessions'[s].padre = sessions[s].padre
    BY <1>0, <1>1 DEF RenewedAreOver, SessionsStay, StillThere
  <2> QED
    BY <1>0, <2>1 DEF Ended, Out, Known, SessionsStay, StillThere
<1>2. ASSUME NEW r \in Request, NEW s \in Session, OpenSession(r, s)
      PROVE  Ended(sessions[s].padre)'
  <2>1. Ended(request[r].padre)
    BY <1>2 DEF OpenSession, At, RequestsFound, SessionThere
  <2>2. sessions'[s].padre = request[r].padre
    BY <1>2 DEF OpenSession, NewSession, Typed
  <2> QED
    BY <1>0, <2>1, <2>2 DEF Ended, Out, Known, SessionsStay, StillThere
<1>3. ASSUME NEW s \in Session, sessions[s] = NoValue, sessions'[s] # NoValue
      PROVE  \E r \in Request : OpenSession(r, s)
  BY <1>3, OnlyOpened
<1> QED
  BY <1>1, <1>2, <1>3 DEF RenewedAreOver

LEMMA TokensStep ==
  ASSUME SessionsInv, [Next]_vars PROVE TokensOut'
<1> USE DEF SessionsInv
<1>0. \A s \in Session : Out(s) => Out(s)'
  BY SessionsStayStep, OutStays
<1>1. ASSUME NEW r \in Request, SaveSession(r) PROVE TokensOut'
  <2> DEFINE s == request[r].sesion
  <2>1. s \in Session /\ sessions[s] \in SessionRow
    BY <1>1 DEF SaveSession, At, RequestsFound, SessionThere, Known, Typed
  <2>2. sessions'[s] = [sessions[s] EXCEPT !.pendiente = FALSE, !.revocado = FALSE]
    BY <1>1, <2>1 DEF SaveSession, Typed
  <2>3. sessions'[s] \in SessionRow /\ ~ sessions'[s].pendiente
    BY <2>1, <2>2 DEF SessionRow
  <2>4. tokens' \subseteq tokens \cup {s}
    BY <1>1 DEF SaveSession, Answer, clients
  <2> QED
    BY <1>0, <2>1, <2>3, <2>4 DEF TokensOut, Out, Known
<1>2. ASSUME NEW r \in Request, SaveLastAccess(r) PROVE TokensOut'
  <2>1. Out(request[r].sesion)
    BY <1>2 DEF SaveLastAccess, At, RequestsFound, SessionThere, Known, Out
  <2>2. tokens' \subseteq tokens \cup {request[r].sesion} /\ sessions' = sessions
    BY <1>2 DEF SaveLastAccess, Answer, clients
  <2> QED
    BY <2>1, <2>2 DEF TokensOut, Out, Known
<1>3. CASE UNCHANGED tokens
  BY <1>0, <1>3 DEF TokensOut, Out, Known
<1> QED
  BY <1>1, <1>2, <1>3
     DEF Next, Proceed, vars, clients, Login, ChangePassword, Refresh, AskUsers, RevokeOld,
         FindMembership, OpenSession, SavePassword, CloseSessions, ReadMember, SaveUser,
         SaveMember, Fail, Logout, Expire, StatusBusiness, CreateBusiness

-----------------------------------------------------------------------------
THEOREM SessionsInvariant == Spec => []SessionsInv
<1>1. SessionsInv /\ [Next]_vars => SessionsInv'
  BY TypedStep, TokensStep, FitStep, FoundStep, OneOpenerStep, MembersAreUsersStep, StrangersStep,
     RenewedStep DEF SessionsInv
<1> QED
  BY InitSessions, <1>1, PTL DEF Spec

\* What Sessions' rows hold, and a token is out only once its hash is saved.
THEOREM SessionsTyped == Spec => []SessionsTypeOK
<1>1. SessionsInv => SessionsTypeOK
  BY DEF SessionsInv, Typed, TokensOut, Out, Known, SessionsTypeOK
<1> QED
  BY SessionsInvariant, <1>1, PTL

\* A user created without its membership (users.service.ts:2) stays out.
THEOREM StrangersSafe == Spec => []StrangersStayOut
<1>1. SessionsInv => StrangersStayOut
  BY DEF SessionsInv
<1> QED
  BY SessionsInvariant, <1>1, PTL

-----------------------------------------------------------------------------
LEMMA LivesInit == Init => Lives!LifeInit
BY DEF Init, Lives!LifeInit, LifeOf

\* Revoking ends the sessions in force, and only those.
LEMMA LivesRevoke ==
  ASSUME SessionsInv, NEW S \in SUBSET Session, \A s \in S : Known(s), Revoke(S)
  PROVE  Lives!LifeNext
<1> DEFINE E == {s \in S : LifeOf(s) = "inForce"}
<1>1. ASSUME NEW s \in Session
      PROVE  /\ LifeOf(s)' = IF s \in E THEN "over" ELSE LifeOf(s)
             /\ sessions'[s] # NoValue <=> sessions[s] # NoValue
             /\ sessions[s] # NoValue => sessions'[s].padre = sessions[s].padre
  <2>1. CASE s \in S
    <3>1. sessions[s] \in SessionRow /\ sessions[s] # NoValue
      BY <2>1 DEF Known, SessionsInv, Typed
    <3>2. sessions'[s] = [sessions[s] EXCEPT !.revocado = TRUE]
      BY <2>1 DEF Revoke
    <3>3. /\ sessions'[s] \in SessionRow /\ sessions'[s].revocado
          /\ sessions'[s].pendiente = sessions[s].pendiente
          /\ sessions'[s].padre = sessions[s].padre
      BY <3>1, <3>2 DEF SessionRow
    <3>4. sessions'[s] # NoValue
      BY <3>3
    <3> QED
      BY <2>1, <3>1, <3>3, <3>4 DEF LifeOf
  <2>2. CASE s \notin S
    BY <2>2 DEF Revoke, LifeOf
  <2> QED
    BY <2>1, <2>2
<1>2. Lives!End(E)
  BY <1>1 DEF Lives!End
<1> QED
  BY <1>2 DEF Lives!LifeNext

LEMMA LivesStep ==
  ASSUME SessionsInv, [Next]_vars PROVE [Lives!LifeNext]_(Lives!lifeVars)
<1> DEFINE Goal == Lives!LifeNext \/ UNCHANGED Lives!lifeVars
<1> SUFFICES Goal
  OBVIOUS
<1> USE DEF SessionsInv
<1>1. ASSUME NEW r \in Request, RevokeOld(r) PROVE Goal
  <2> DEFINE p == request[r].padre
  <2>1. Known(p) /\ Revoke({p})
    BY <1>1 DEF RevokeOld, At, RequestsFound, SessionThere, Out, Known, Typed, Revoke
  <2> QED
    BY <2>1, LivesRevoke DEF Known
<1>2. ASSUME NEW r \in Request, CloseSessions(r) PROVE Goal
  BY <1>2, LivesRevoke DEF CloseSessions, SessionsOf, Known
<1>3. ASSUME NEW u \in User, Logout(u) PROVE Goal
  BY <1>3, LivesRevoke DEF Logout, SessionsOf, Known
<1>4. ASSUME NEW r \in Request, NEW s \in Session, OpenSession(r, s) PROVE Goal
  <2>0. PICK p \in Session \cup {NoValue} : p = request[r].padre
    BY <1>4 DEF OpenSession, At, Typed, RequestRecord
  <2>1. Ended(p) /\ sessions[s] = NoValue
    BY <1>4, <2>0 DEF OpenSession, At, RequestsFound, SessionThere
  <2>2. NewSession(request[r]) \in SessionRow
    BY <1>4 DEF OpenSession, At, Typed, NewSession, SessionRow, RequestRecord
  <2>3. sessions' = [sessions EXCEPT ![s] = NewSession(request[r])]
    BY <1>4 DEF OpenSession
  <2>4. sessions'[s] # NoValue /\ sessions'[s].pendiente /\ sessions'[s].padre = p
    BY <2>0, <2>2, <2>3 DEF Typed, NewSession
  <2>5. p = NoValue \/ (p \in Session /\ LifeOf(p) = "over")
    BY <2>1 DEF Ended, Out, Known, LifeOf
  <2>6. Lives!Open(s, p)
    <3>1. Lives!Renewable(p)
      BY <2>5 DEF Lives!Renewable
    <3>2. LifeOf(s) = "unborn" /\ LifeOf(s)' = "opening"
      BY <2>1, <2>4 DEF LifeOf
    <3>3. \A x \in Session : x # s => sessions'[x] = sessions[x]
      BY <2>3 DEF Typed
    <3>4. \A x \in Session : x # s => LifeOf(x)' = LifeOf(x)
      BY <3>3 DEF LifeOf
    <3> QED
      BY <2>4, <3>1, <3>2, <3>3, <3>4 DEF Lives!Open
  <2> QED
    BY <2>5, <2>6 DEF Lives!LifeNext
<1>5. ASSUME NEW r \in Request, SaveSession(r) PROVE Goal
  <2>0. PICK s \in Session : s = request[r].sesion
    BY <1>5 DEF SaveSession, At, RequestsFound, SessionThere, Known
  <2>1. /\ s \in Session /\ sessions[s] # NoValue /\ sessions[s] \in SessionRow
        /\ sessions[s].pendiente
    BY <1>5, <2>0 DEF SaveSession, At, RequestsFound, SessionThere, Known, Typed
  <2>2. sessions'[s] = [sessions[s] EXCEPT !.pendiente = FALSE, !.revocado = FALSE]
    BY <1>5, <2>0, <2>1 DEF SaveSession, Typed
  <2>3. /\ sessions'[s] \in SessionRow /\ ~ sessions'[s].pendiente /\ ~ sessions'[s].revocado
        /\ sessions'[s].padre = sessions[s].padre
    BY <2>1, <2>2 DEF SessionRow
  <2>4. \A x \in Session : x # s => sessions'[x] = sessions[x]
    BY <1>5, <2>0 DEF SaveSession, Typed
  <2>5. Lives!Issue(s)
    <3>1. Lives!Renewable(sessions[s].padre)
      BY <2>1 DEF RenewedAreOver, Ended, Out, Known, LifeOf, Lives!Renewable
    <3>2. LifeOf(s) = "opening" /\ LifeOf(s)' = "inForce"
      BY <2>1, <2>3 DEF LifeOf
    <3>3. \A x \in Session : x # s => LifeOf(x)' = LifeOf(x)
      BY <2>4 DEF LifeOf
    <3> QED
      BY <2>1, <2>3, <2>4, <3>1, <3>2, <3>3 DEF Lives!Issue
  <2> QED
    BY <2>1, <2>5 DEF Lives!LifeNext
<1>6. CASE UNCHANGED sessions
  BY <1>6 DEF Lives!lifeVars, LifeOf
<1> QED
  BY <1>1, <1>2, <1>3, <1>4, <1>5, <1>6
     DEF Next, Proceed, vars, Login, ChangePassword, Refresh, AskUsers, FindMembership,
         SaveLastAccess, SavePassword, ReadMember, SaveUser, SaveMember, Fail, Expire,
         StatusBusiness, CreateBusiness

\* However requests overlap or stop half-way, each session of auth.service.ts is
\* born, comes into force and ends as SessionLife.tla says: it never comes back,
\* and one that renews another is in force only once the other has ended.
THEOREM SessionsRefine == Spec => SessionsLive
<1>1. SessionsInv /\ [Next]_vars => [Lives!LifeNext]_(Lives!lifeVars)
  BY LivesStep
<1> QED
  BY LivesInit, SessionsInvariant, <1>1, PTL DEF Spec, SessionsLive, Lives!LifeSpec
=============================================================================
