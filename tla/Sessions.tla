------------------------------- MODULE Sessions -------------------------------
(***************************************************************************)
(* Users, their sessions and their memberships: src/auth/auth.service.ts,  *)
(* src/users/users.service.ts, src/businesses/businesses.service.ts and    *)
(* the guards in front of them.  No request here runs in a transaction but *)
(* the creation of a business: each statement is a step, so two requests   *)
(* interleave between any two of them and any of them may be the last.     *)
(*                                                                         *)
(* TypeORM's save() writes what the entity holds where it differs from the *)
(* row.  The entity is as old as its read; a column declared select: false *)
(* (the password, the hash of the token) is not read back, so an entity    *)
(* that has one always writes it.                                          *)
(***************************************************************************)
CONSTANTS User,            \* every user there may be
          Business,        \* the tenants
          FirstBusiness,   \* the tenant and the users of a new installation
          FirstUsers,
          Administrators,  \* users whose role grants usuarios.editar
          PlatformAdmins,  \* users with es_administrador_plataforma
          Password,
          Request,         \* requests in progress at a time
          Session,         \* the ids sessions are given, each once
          NoValue          \* no user, no session, no request, nothing read

VARIABLES users,       \* password and activo of each user, NoValue before it exists
          membership,  \* each user's membership: no request gives it a second one
          businesses,  \* estatus of each tenant
          sessions,    \* the row of each session
          tokens,      \* sessions whose refresh token a client holds
          access,      \* users who hold an access token that has not expired
          request      \* what each request has read and does next

rows == <<users, membership, businesses>>
clients == <<tokens, access>>
vars == <<rows, sessions, clients, request>>

MembershipStatus == {"ACTIVA", "INACTIVA"}
BusinessStatus == {"ninguno", "ACTIVO", "SUSPENDIDO"}   \* DESACTIVADO is no different

UserRow == [password : Password, activo : BOOLEAN]
MemberRow == [negocio : Business, estatus : MembershipStatus]

\* pendiente is a refreshTokenHash of 'pending'; padre, the session a refresh
\* renews, is in no column.
SessionRow ==
  [usuario : User, pendiente : BOOLEAN, revocado : BOOLEAN, padre : Session \cup {NoValue}]

ASSUME SessionsAssumption ==
  /\ FirstBusiness \in Business
  /\ FirstUsers \subseteq User
  /\ NoValue \notin Session \cup UserRow \cup MemberRow \cup SessionRow

\* What a request is about to do.
Phase ==
  {"revocar", "membresia", "abrir", "firmar", "acceso", "contrasena", "cerrar",
   "leer", "usuario", "miembro"}

Init ==
  /\ users \in [User -> [password : Password, activo : {TRUE}] \cup {NoValue}]
  /\ \A u \in User : users[u] = NoValue <=> u \notin FirstUsers
  /\ membership = [u \in User |->
                     IF u \in FirstUsers
                     THEN [negocio |-> FirstBusiness, estatus |-> "ACTIVA"] ELSE NoValue]
  /\ businesses = [b \in Business |-> IF b = FirstBusiness THEN "ACTIVO" ELSE "ninguno"]
  /\ sessions = [s \in Session |-> NoValue]
  /\ tokens = {}
  /\ access = {}
  /\ request = [r \in Request |-> NoValue]

-----------------------------------------------------------------------------
At(r, phase) == request[r] # NoValue /\ request[r].phase = phase

\* A request for user u that has read row: the session it renews, the one it
\* opens, the membership it has read or is to write, and what it asks for.
Asked(kind, u, row, phase) ==
  [kind |-> kind, usuario |-> u, row |-> row, phase |-> phase, padre |-> NoValue,
   sesion |-> NoValue, miembro |-> NoValue, pedido |-> NoValue]

Begin(r, q) == request[r] = NoValue /\ request' = [request EXCEPT ![r] = q]
GoTo(r, phase) == request' = [request EXCEPT ![r].phase = phase]
Forget(r) == request' = [request EXCEPT ![r] = NoValue]

\* The first half of login(): the user is read, its password compared.
Login(r, u) ==
  /\ users[u] # NoValue
  /\ users[u].activo
  /\ Begin(r, Asked("login", u, users[u], "membresia"))
  /\ UNCHANGED <<rows, sessions, clients>>

\* refresh() finds the session of a token it is sent, if it is not revoked.
Refresh(r, s) ==
  /\ ~ sessions[s].revocado
  /\ Begin(r, [Asked("refresh", sessions[s].usuario, NoValue, "revocar") EXCEPT !.padre = s])
  /\ UNCHANGED <<rows, sessions, clients>>

\* It revokes it, whatever became of it since.
RevokeOld(r) ==
  /\ At(r, "revocar")
  /\ sessions' = [sessions EXCEPT ![request[r].padre].revocado = TRUE]
  /\ GoTo(r, "membresia")
  /\ UNCHANGED <<rows, clients>>

\* Mutant: a user without a membership is let in.
MemberUnlessInactive(u) == membership[u] # NoValue => membership[u].estatus = "ACTIVA"

\* A membership in force, of a business in force.
Member(u) ==
  /\ membership[u] # NoValue
  /\ membership[u].estatus = "ACTIVA"
  /\ businesses[membership[u].negocio] = "ACTIVO"

FindMembership(r) ==
  /\ At(r, "membresia")
  /\ IF Member(request[r].usuario) THEN GoTo(r, "abrir") ELSE Forget(r)
  /\ UNCHANGED <<rows, sessions, clients>>

\* The request ends: the client gets its two tokens, or the answer is lost.
Answer(q) ==
  \/ tokens' = tokens \cup {q.sesion} /\ access' = access \cup {q.usuario}
  \/ UNCHANGED clients

NewSession(q) ==
  [usuario |-> q.usuario, pendiente |-> TRUE, revocado |-> FALSE, padre |-> q.padre]

\* Mutant: the tokens go out before the hash is saved.
OpenSessionAnswering(r, s) ==
  /\ At(r, "abrir")
  /\ sessions[s] = NoValue
  /\ sessions' = [sessions EXCEPT ![s] = NewSession(request[r])]
  /\ request' = [request EXCEPT ![r].phase = "firmar", ![r].sesion = s]
  /\ Answer([request[r] EXCEPT !.sesion = s])
  /\ UNCHANGED rows

OpenSession(r, s) ==
  /\ At(r, "abrir")
  /\ sessions[s] = NoValue
  /\ sessions' = [sessions EXCEPT ![s] = NewSession(request[r])]
  /\ request' = [request EXCEPT ![r].phase = "firmar", ![r].sesion = s]
  /\ UNCHANGED <<rows, clients>>

\* The session is saved again, with the hash of its token and with the revocado
\* it was inserted with: whoever revoked it in between is overruled.  It is the
\* last statement of a refresh.
SaveSession(r) ==
  LET q == request[r] IN
  /\ At(r, "firmar")
  /\ sessions' = [sessions EXCEPT ![q.sesion].pendiente = FALSE, ![q.sesion].revocado = FALSE]
  /\ IF q.kind = "login" THEN GoTo(r, "acceso") /\ UNCHANGED clients
                         ELSE Forget(r) /\ Answer(q)
  /\ UNCHANGED rows

\* Mutant: the session is saved once more with the user.
SaveLastAccessAndSession(r) ==
  LET q == request[r] IN
  /\ At(r, "acceso")
  /\ users' = [users EXCEPT ![q.usuario] = q.row]
  /\ sessions' = [sessions EXCEPT ![q.sesion].revocado = FALSE]
  /\ Forget(r)
  /\ Answer(q)
  /\ UNCHANGED <<membership, businesses>>

\* login() saves the user it read to set ultimoAcceso, which writes back its
\* password and its activo as they were then.
SaveLastAccess(r) ==
  LET q == request[r] IN
  /\ At(r, "acceso")
  /\ users' = [users EXCEPT ![q.usuario] = q.row]
  /\ Forget(r)
  /\ Answer(q)
  /\ UNCHANGED <<membership, businesses, sessions>>

-----------------------------------------------------------------------------
Revoke(S) ==
  sessions' = [s \in Session |->
                 IF s \in S THEN [sessions[s] EXCEPT !.revocado = TRUE] ELSE sessions[s]]

SessionsOf(u) == {s \in Session : sessions[s] # NoValue /\ sessions[s].usuario = u}

\* logout(): one of the caller's sessions, or all of them.
Logout(u) ==
  /\ u \in access
  /\ \E S \in {SessionsOf(u)} \cup {{s} : s \in SessionsOf(u)} : Revoke(S)
  /\ UNCHANGED <<rows, clients, request>>

\* changePassword() in its three statements.
ChangePassword(r, u) ==
  /\ u \in access
  /\ \E nueva \in Password :
        Begin(r, [Asked("change", u, users[u], "contrasena") EXCEPT !.pedido = nueva])
  /\ UNCHANGED <<rows, sessions, clients>>

SavePassword(r) ==
  LET q == request[r] IN
  /\ At(r, "contrasena")
  /\ users' = [users EXCEPT ![q.usuario] = [q.row EXCEPT !.password = q.pedido]]
  /\ GoTo(r, "cerrar")
  /\ UNCHANGED <<membership, businesses, sessions, clients>>

CloseSessions(r) ==
  /\ At(r, "cerrar")
  /\ Revoke(SessionsOf(request[r].usuario))
  /\ Forget(r)
  /\ UNCHANGED <<rows, clients>>

-----------------------------------------------------------------------------
\* JwtAuthGuard, TenantContextGuard and PermissionsGuard: an access token, an
\* active membership and a role that grants it, read now; the handler is later.
Authorized(v) == v \in access /\ Member(v) /\ v \in Administrators

\* users.service: create(), update() and status(), asked by v about u, for the
\* tenant of v.
AskUsers(r, v, u) ==
  /\ Authorized(v)
  /\ \E kind \in {"create", "update", "status"}, activo \in BOOLEAN :
        /\ kind = "update" => activo   \* not read otherwise
        /\ Begin(r, [Asked(kind, u, NoValue, "leer") EXCEPT
                       !.pedido = activo,
                       !.miembro = [negocio |-> membership[v].negocio, estatus |-> "ACTIVA"]])
  /\ UNCHANGED <<rows, sessions, clients>>

MemberFound(q) ==
  membership[q.usuario] # NoValue /\ membership[q.usuario].negocio = q.miembro.negocio

\* The member and its user are read together; create() has only a role to find.
ReadMember(r) ==
  LET q == request[r] IN
  /\ At(r, "leer")
  /\ \/ q.kind = "create" /\ GoTo(r, "usuario")
     \/ /\ q.kind # "create" /\ MemberFound(q)
        /\ request' = [request EXCEPT ![r].phase = "usuario", ![r].row = users[q.usuario],
                                      ![r].miembro = membership[q.usuario]]
     \/ q.kind # "create" /\ ~ MemberFound(q) /\ Forget(r)
  /\ UNCHANGED <<rows, sessions, clients>>

\* The unique key of usernames refuses a second user.  The password is not among
\* the columns update() and status() read, so they leave it alone.
SaveUser(r) ==
  LET q == request[r] IN
  /\ At(r, "usuario")
  /\ q.kind = "create" => users[q.usuario] = NoValue
  /\ IF q.kind = "create"
     THEN \E p \in Password :
             users' = [users EXCEPT ![q.usuario] = [password |-> p, activo |-> q.pedido]]
     ELSE users' = [users EXCEPT ![q.usuario].activo =
                      IF q.kind = "status" THEN q.pedido ELSE q.row.activo]
  /\ GoTo(r, "miembro")
  /\ UNCHANGED <<membership, businesses, sessions, clients>>

SaveMember(r) ==
  LET q == request[r]
      estatus == IF q.kind = "status" THEN IF q.pedido THEN "ACTIVA" ELSE "INACTIVA"
                                      ELSE q.miembro.estatus
  IN /\ At(r, "miembro")
     /\ membership' = [membership EXCEPT ![q.usuario] = [q.miembro EXCEPT !.estatus = estatus]]
     /\ Forget(r)
     /\ UNCHANGED <<users, businesses, sessions, clients>>

\* PlatformAdminGuard believes the token: no membership is read.
CreateBusiness(v, b, u) ==
  /\ v \in access \cap PlatformAdmins
  /\ users[u] = NoValue
  /\ businesses[b] = "ninguno"
  /\ \E p \in Password : users' = [users EXCEPT ![u] = [password |-> p, activo |-> TRUE]]
  /\ membership' = [membership EXCEPT ![u] = [negocio |-> b, estatus |-> "ACTIVA"]]
  /\ businesses' = [businesses EXCEPT ![b] = "ACTIVO"]
  /\ UNCHANGED <<sessions, clients, request>>

StatusBusiness(v, b) ==
  /\ v \in access \cap PlatformAdmins
  /\ businesses[b] # "ninguno"
  /\ \E estatus \in BusinessStatus \ {"ninguno"} :
        businesses' = [businesses EXCEPT ![b] = estatus]
  /\ UNCHANGED <<users, membership, sessions, clients, request>>

\* Minutes pass: the user's last access token expires.
Expire(u) ==
  /\ u \in access
  /\ access' = access \ {u}
  /\ UNCHANGED <<rows, sessions, tokens, request>>

\* A statement fails, the process stops or the connection drops: what was
\* written stays, and the client gets no answer.
Fail(r) ==
  /\ request[r] # NoValue
  /\ Forget(r)
  /\ UNCHANGED <<rows, sessions, clients>>

-----------------------------------------------------------------------------
\* The next statement of a request in progress.
Proceed(r) ==
  \/ RevokeOld(r) \/ FindMembership(r) \/ SaveSession(r)
  \/ \E s \in Session : OpenSession(r, s)
  \/ SaveLastAccess(r) \/ SavePassword(r) \/ CloseSessions(r)
  \/ ReadMember(r) \/ SaveUser(r) \/ SaveMember(r)

Next ==
  \/ \E r \in Request :
        \/ \E u \in User : Login(r, u) \/ ChangePassword(r, u)
        \/ \E s \in tokens : Refresh(r, s)
        \/ \E u, v \in User : AskUsers(r, v, u)
        \/ Proceed(r)
        \/ Fail(r)
  \/ \E u \in User : Logout(u) \/ Expire(u)
  \/ \E v \in User, b \in Business :
        StatusBusiness(v, b) \/ \E u \in User : CreateBusiness(v, b, u)

Spec == Init /\ [][Next]_vars

-----------------------------------------------------------------------------
RequestRecord ==
  [kind : {"login", "refresh", "change", "create", "update", "status"}, usuario : User,
   row : UserRow \cup {NoValue}, phase : Phase, padre : Session \cup {NoValue},
   sesion : Session \cup {NoValue}, miembro : MemberRow \cup {NoValue},
   pedido : Password \cup BOOLEAN \cup {NoValue}]

SessionsTypeOK ==
  /\ users \in [User -> UserRow \cup {NoValue}]
  /\ membership \in [User -> MemberRow \cup {NoValue}]
  /\ businesses \in [Business -> BusinessStatus]
  /\ sessions \in [Session -> SessionRow \cup {NoValue}]
  /\ tokens \subseteq {s \in Session : sessions[s] # NoValue /\ ~ sessions[s].pendiente}
  /\ access \subseteq User
  /\ request \in [Request -> RequestRecord \cup {NoValue}]

\* Refinement: however login, refresh, logout and change of password overlap,
\* stop half-way or repeat, each session lives the life of SessionLife.tla; in
\* particular no save brings back a session whose token was already out.
LifeOf(s) ==
  IF sessions[s] = NoValue THEN "unborn"
  ELSE IF sessions[s].pendiente THEN "opening"
  ELSE IF sessions[s].revocado THEN "over" ELSE "inForce"

Lives == INSTANCE SessionLife WITH
  NoSession <- NoValue,
  life <- [s \in Session |-> LifeOf(s)],
  renews <- [s \in Session |-> IF sessions[s] = NoValue THEN NoValue ELSE sessions[s].padre]

SessionsLive == Lives!LifeSpec

\* create() of users saves the user and then the membership: a user whose
\* membership never came, now or later, has no session and no token.
StrangersStayOut ==
  \A u \in User : membership[u] = NoValue => SessionsOf(u) = {} /\ u \notin access

\* What a change of password sets only another change replaces.
PasswordKept ==
  [][\A u \in User :
       users[u] # NoValue /\ users'[u].password # users[u].password =>
         \E r \in Request : At(r, "contrasena") /\ request[r].usuario = u
                               /\ users'[u].password = request[r].pedido]_vars
=============================================================================
