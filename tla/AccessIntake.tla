----------------------------- MODULE AccessIntake -----------------------------
(* How a platform message becomes an Echo: a worker of the QQ adapter, or a *)
(* request of the web or ingress API, provisions the sender (QQ only),      *)
(* resolves the identity, ensures the Session, stores the Message and asks  *)
(* for the Echo, each in a statement or transaction of its own, beside the  *)
(* operator's commands on the same tables and beside redeliveries.          *)
(*                                                                          *)
(* Internal users are named: qqUserID derives one per QQ number, here the   *)
(* number itself.  Roles stay empty, as every caller leaves them, and the   *)
(* binding revision, which nothing reads, is left out.                      *)
EXTENDS Naturals, FiniteSets

CONSTANTS
    IntakeWorkers,  \* goroutines that handle one message each
    Senders,        \* platform users
    Operators,      \* further internal users, made by the operator
    NoUser,
    Deliveries,     \* records [via, from, space, key, text]
    Provisioned,    \* senders the operator has provisioned before
    MaxMembers,     \* session.MaxMembersPerSession
    MaxCommands     \* bound: commands of the operator

ASSUME IntakeAssumption ==
    /\ NoUser \notin Senders \union Operators
    /\ MaxMembers \in Nat \ {0}
    /\ MaxCommands \in Nat
    /\ Provisioned \subseteq Senders
    /\ \A d \in Deliveries : d.via \in {"qq", "api"} /\ d.from \in Senders

Internal == Senders \union Operators
Keys == {d.key : d \in Deliveries}
IdentityOf(d) == <<d.via, d.space, d.from>>
Identities == {IdentityOf(d) : d \in Deliveries}

VARIABLES
    userRow,     \* [Internal -> {"none", "active", "disabled"}]
    membership,  \* app_memberships: users of the App
    binding,     \* external_identities: [Identities -> Internal or NoUser]
    joined,      \* session_members: pairs <<session, user>>
    messageRow,  \* [Keys -> set of at most one message]
    echoRow,     \* [Keys -> set of at most one accepted request]
    workerAt,    \* where each worker is
    delivery,    \* the delivery it handles, as a set of at most one
    resolved,    \* the user it has resolved
    shutOut,     \* history: users disabled when it took its delivery
    commands     \* how many commands the operator has given

identityRows == <<userRow, membership, binding>>
sessionRows == <<joined, messageRow, echoRow>>
worker == <<workerAt, delivery, resolved, shutOut>>
intakeVars == <<identityRows, sessionRows, worker, commands>>

IntakeInit ==
    /\ userRow = [u \in Internal |-> IF u \in Provisioned THEN "active" ELSE "none"]
    /\ membership = Provisioned /\ joined = {}
    /\ binding = [i \in Identities |-> IF i[3] \in Provisioned THEN i[3] ELSE NoUser]
    /\ commands = 0
    /\ messageRow = [k \in Keys |-> {}] /\ echoRow = [k \in Keys |-> {}]
    /\ workerAt = [w \in IntakeWorkers |-> "idle"]
    /\ delivery = [w \in IntakeWorkers |-> {}]
    /\ resolved = [w \in IntakeWorkers |-> NoUser]
    /\ shutOut = [w \in IntakeWorkers |-> {}]

DeliveryOf(w) == CHOOSE d \in delivery[w] : TRUE

GoTo(w, place) == workerAt' = [workerAt EXCEPT ![w] = place]

\* An error or the end: the answer goes out and the worker is free again.
Leave(w) ==
    /\ GoTo(w, "idle")
    /\ delivery' = [delivery EXCEPT ![w] = {}]
    /\ resolved' = [resolved EXCEPT ![w] = NoUser]
    /\ shutOut' = [shutOut EXCEPT ![w] = {}]

Continue(w, place) == GoTo(w, place) /\ UNCHANGED <<delivery, resolved, shutOut>>

-----------------------------------------------------------------------------
(* The tables of the identity store *)

\* CreateUser: one INSERT; a user that is there stays as it is.
InsertUser(u) ==
    userRow' = [userRow EXCEPT ![u] = IF @ = "none" THEN "active" ELSE @]

\* BindExternalIdentity refuses a user that is missing or disabled, and an
\* identity of another user.
MayBind(i, u) == userRow[u] = "active" /\ binding[i] \in {NoUser, u}

\* SetMembership refuses a user that is missing and takes a disabled one.
MayJoin(u) == userRow[u] # "none"

\* The operator's commands: identity-bind creates, binds and adds the member
\* in three steps, of which any may be the last; DisableUser; identity-unbind.
ProvisionUser(u) ==
    /\ userRow[u] = "none" /\ InsertUser(u)
    /\ UNCHANGED <<membership, binding, sessionRows, worker>>

ProvisionBinding(i, u) ==
    /\ binding[i] = NoUser /\ MayBind(i, u)
    /\ binding' = [binding EXCEPT ![i] = u]
    /\ UNCHANGED <<userRow, membership, sessionRows, worker>>

ProvisionMember(u) ==
    /\ u \notin membership /\ MayJoin(u)
    /\ membership' = membership \union {u}
    /\ UNCHANGED <<userRow, binding, sessionRows, worker>>

DisableUser(u) ==
    /\ userRow[u] = "active"
    /\ userRow' = [userRow EXCEPT ![u] = "disabled"]
    /\ UNCHANGED <<membership, binding, sessionRows, worker>>

UnbindIdentity(i) ==
    /\ binding[i] # NoUser
    /\ binding' = [binding EXCEPT ![i] = NoUser]
    /\ UNCHANGED <<userRow, membership, sessionRows, worker>>

-----------------------------------------------------------------------------
(* EnsureQQIdentity, then Intake; both begin with ResolveIdentity, whose    *)
(* three SELECTs are three steps.                                           *)

TakeDelivery(w, d) ==
    /\ workerAt[w] = "idle"
    /\ GoTo(w, IF d.via = "qq" THEN "ensure binding" ELSE "binding")
    /\ delivery' = [delivery EXCEPT ![w] = {d}]
    /\ shutOut' = [shutOut EXCEPT ![w] = {u \in Internal : userRow[u] = "disabled"}]
    /\ UNCHANGED <<identityRows, sessionRows, resolved>>

\* GetExternalIdentity.  The provisioner makes a user that is not found.
ReadBinding(w) ==
    /\ workerAt[w] \in {"ensure binding", "binding"}
    /\ LET u == binding[IdentityOf(DeliveryOf(w))]
           ensuring == workerAt[w] = "ensure binding"
       IN IF u = NoUser
          THEN IF ensuring THEN Continue(w, "create user") ELSE Leave(w)
          ELSE /\ GoTo(w, IF ensuring THEN "ensure user" ELSE "user")
               /\ resolved' = [resolved EXCEPT ![w] = u]
               /\ UNCHANGED <<delivery, shutOut>>
    /\ UNCHANGED <<identityRows, sessionRows>>

\* Mutant of Refused: the status of the user is not looked at.
RefusedNever(u) == FALSE

\* GetUser: a disabled user is refused.
Refused(u) == userRow[u] = "disabled"

ReadUser(w) ==
    /\ workerAt[w] \in {"ensure user", "user"}
    /\ IF Refused(resolved[w]) THEN Leave(w)
       ELSE Continue(w, IF workerAt[w] = "user" THEN "member" ELSE "ensure member")
    /\ UNCHANGED <<identityRows, sessionRows>>

\* GetMembership in the provisioner: another user's identity is refused, a
\* member is done, a user without membership gets it.
ReadMemberOfQQ(w) ==
    /\ workerAt[w] = "ensure member"
    /\ IF resolved[w] # DeliveryOf(w).from THEN Leave(w)
       ELSE Continue(w, IF resolved[w] \in membership THEN "binding" ELSE "add member")
    /\ UNCHANGED <<identityRows, sessionRows>>

CreateQQUser(w) ==
    /\ workerAt[w] = "create user"
    /\ InsertUser(DeliveryOf(w).from)
    /\ Continue(w, "add member")
    /\ UNCHANGED <<membership, binding, sessionRows>>

AddMember(w) ==
    /\ workerAt[w] = "add member"
    /\ membership' = membership \union {DeliveryOf(w).from}
    /\ Continue(w, "bind")
    /\ UNCHANGED <<userRow, binding, sessionRows>>

Bind(w) ==
    /\ workerAt[w] = "bind"
    /\ LET d == DeliveryOf(w) IN
       IF MayBind(IdentityOf(d), d.from)
       THEN /\ binding' = [binding EXCEPT ![IdentityOf(d)] = d.from]
            /\ Continue(w, "binding")
       ELSE Leave(w) /\ UNCHANGED binding
    /\ UNCHANGED <<userRow, membership, sessionRows>>

\* GetMembership in Intake: ErrMembershipRequired without one.
ReadMember(w) ==
    /\ workerAt[w] = "member"
    /\ IF resolved[w] \in membership THEN Continue(w, "session") ELSE Leave(w)
    /\ UNCHANGED <<identityRows, sessionRows>>

-----------------------------------------------------------------------------
(* Session, Message, Echo *)

\* sessionIDFor: a group shares one Session, a private chat has its user's.
SessionOf(w) ==
    LET d == DeliveryOf(w) IN
    IF d.space = "private" THEN <<d.via, d.from, resolved[w]>> ELSE <<d.via, d.space>>

MembersOf(s) == {u \in Internal : <<s, u>> \in joined}

Sessions == {<<d.via, d.space>> : d \in Deliveries}
                \union {<<d.via, d.from, u>> : d \in Deliveries, u \in Internal}

\* EnsureSession: creates the Session or adds the member, up to the limit.
EnsureSession(w) ==
    /\ workerAt[w] = "session"
    /\ LET here == MembersOf(SessionOf(w)) IN
       IF resolved[w] \in here \/ Cardinality(here) < MaxMembers
       THEN /\ joined' = joined \union {<<SessionOf(w), resolved[w]>>}
            /\ Continue(w, "message")
       ELSE Leave(w) /\ UNCHANGED joined
    /\ UNCHANGED <<identityRows, messageRow, echoRow>>

MessageOf(w) ==
    [session |-> SessionOf(w), sender |-> resolved[w], text |-> DeliveryOf(w).text]

\* Mutant of SameMessage: a key seen before is taken for a redelivery.
SameKey(old, new) == TRUE

\* messageIdentityEqual
SameMessage(old, new) == old = new

\* CreateMessage: the key is the primary key; the same message again replays,
\* another one under its key is a conflict.
CreateMessage(w) ==
    /\ workerAt[w] = "message"
    /\ LET k == DeliveryOf(w).key IN
       IF messageRow[k] = {}
       THEN /\ messageRow' = [messageRow EXCEPT ![k] = {MessageOf(w)}]
            /\ Continue(w, "echo")
       ELSE /\ UNCHANGED messageRow
            /\ IF \A old \in messageRow[k] : SameMessage(old, MessageOf(w))
               THEN Continue(w, "echo") ELSE Leave(w)
    /\ UNCHANGED <<identityRows, joined, echoRow>>

\* Admission.Create: a new key makes the Echo, a known one replays; the App may
\* be disabled or its queue full.
CreateEchoOf(w) ==
    /\ workerAt[w] = "echo"
    /\ LET k == DeliveryOf(w).key IN
       \/ echoRow' = [echoRow EXCEPT ![k] = IF @ = {} THEN {MessageOf(w)} ELSE @]
       \/ UNCHANGED echoRow
    /\ Leave(w)
    /\ UNCHANGED <<identityRows, joined, messageRow>>

\* Any store call may fail, and the process may go down, with the rows kept.
Fail(w) ==
    /\ workerAt[w] # "idle" /\ Leave(w)
    /\ UNCHANGED <<identityRows, sessionRows>>

-----------------------------------------------------------------------------
Operate ==
    /\ commands < MaxCommands /\ commands' = commands + 1
    /\ \/ \E u \in Internal : ProvisionUser(u) \/ ProvisionMember(u) \/ DisableUser(u)
       \/ \E i \in Identities :
             UnbindIdentity(i) \/ \E u \in Internal : ProvisionBinding(i, u)

Handle(w) ==
    \/ ReadBinding(w) \/ ReadUser(w) \/ ReadMemberOfQQ(w) \/ CreateQQUser(w)
    \/ AddMember(w) \/ Bind(w) \/ ReadMember(w)
    \/ EnsureSession(w) \/ CreateMessage(w) \/ CreateEchoOf(w)

IntakeNext ==
    \/ Operate
    \/ /\ \E w \in IntakeWorkers :
             (\E d \in Deliveries : TakeDelivery(w, d)) \/ Handle(w) \/ Fail(w)
       /\ UNCHANGED commands

IntakeSpec == IntakeInit /\ [][IntakeNext]_intakeVars

-----------------------------------------------------------------------------
(* Properties *)

Places == {"idle", "ensure binding", "ensure user", "ensure member",
           "create user", "add member", "bind", "binding", "user", "member",
           "session", "message", "echo"}

\* Every variable stays in its domain.
IntakeTypeOK ==
    /\ userRow \in [Internal -> {"none", "active", "disabled"}]
    /\ membership \subseteq Internal
    /\ binding \in [Identities -> Internal \union {NoUser}]
    /\ workerAt \in [IntakeWorkers -> Places]
    /\ \A w \in IntakeWorkers :
          /\ delivery[w] \subseteq Deliveries /\ shutOut[w] \subseteq Internal
          /\ resolved[w] \in Internal \union {NoUser}
          /\ Cardinality(delivery[w]) = IF workerAt[w] = "idle" THEN 0 ELSE 1
    /\ commands \in 0..MaxCommands /\ joined \subseteq Sessions \X Internal
    /\ \A k \in Keys : Cardinality(messageRow[k]) <= 1 /\ Cardinality(echoRow[k]) <= 1

\* Every Echo is that of a stored message: however deliveries repeat, cross and
\* fail, the request that was accepted names the sender, the Session and the
\* text of the message row with its key, and that sender belongs to the App and
\* to the Session.
EchoIsOfItsMessage ==
    \A k \in Keys : \A e \in echoRow[k] :
        /\ e \in messageRow[k]
        /\ e.sender \in membership
        /\ <<e.session, e.sender>> \in joined

\* "Disabling takes effect with the next identity snapshot" (identity.go): who
\* was disabled when a worker took the delivery is not resolved by it, whatever
\* is provisioned, bound and unbound meanwhile.
DisabledAreShutOut ==
    \A w \in IntakeWorkers :
        workerAt[w] \in {"member", "session", "message", "echo"} => resolved[w] \notin shutOut[w]
=============================================================================
