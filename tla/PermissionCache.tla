--------------------------- MODULE PermissionCache ---------------------------
(***************************************************************************)
(* smart-sso, the permissions an application keeps: an administrator       *)
(* changes them on the server, the server tells the application by a JMS   *)
(* message, PermissionJmsListener marks what every session holds as old,   *)
(* and PermissionFilter fetches it anew at the next request.  SsoFilter    *)
(* and LogoutFilter put the user into the session and take him out.        *)
(*                                                                         *)
(* One application, one session of it, requests of that session that run   *)
(* at the same time.  The tokens, each of a user of its own, are those of  *)
(* TokenStore, issued before.  A set of permissions is abstracted to whose *)
(* it is and how many changes it has seen.  External: the broker, which    *)
(* may lose a message; the remote call, which may fail.                    *)
(***************************************************************************)
EXTENDS Naturals, Sequences

CONSTANTS
    Token,
    Request,     \* threads that serve the session's requests
    None,        \* null, or an empty list of permissions
    MaxChanges   \* bound: changes of permissions

ASSUME NoneAssumption == None \notin Token /\ None \notin Nat
ASSUME BoundAssumption == MaxChanges \in Nat

VARIABLES
    status,      \* TokenStore: the tokens
    db,          \* the changes that are committed
    admin,       \* where the administrator's request stands
    topic,       \* the messages on their way, each with the change it is about
    isChanged, tokenSet,      \* PermissionJmsMonitor
    listener, loaded,         \* PermissionJmsListener: its step, what it has fetched
    filter, filterLoaded,     \* PermissionFilter.init, likewise
    applicationSet,           \* applicationPermissionSet
    sessionUser, permission,  \* the session's attributes
    pc, tok, fetched,         \* a request: its step, its token, its permissions
    lost,        \* history: changes without a message after their commit
    cleared,     \* history: the changes told of when tokenSet was last cleared
    raced,       \* history: tokens whose request fetched before that, and marks after it
    overlapped,  \* history: user and permissions were set by requests that overlap
    startRaced   \* history: the first load overlapped that of a message

server  == <<db, admin, lost>>
monitor == <<isChanged, tokenSet>>
loader  == <<listener, loaded, filter, filterLoaded, applicationSet, startRaced>>
session == <<sessionUser, permission, overlapped>>
request == <<pc, tok, fetched>>
vars == <<status, server, topic, monitor, cleared, raced, loader, session, request>>

Tokens == INSTANCE TokenStore

Change == 1..MaxChanges
Version == 0..MaxChanges
Permissions == [of : Token \cup {None}, version : Version]
Labels == {"idle", "login", "drop", "permit", "invoke", "store", "mark"}

TypeOK ==
    /\ Tokens!StatusTypeOK
    /\ db \in Version
    /\ admin \in {"idle", "commit", "send"}
    /\ topic \in Seq(Change) /\ Len(topic) <= MaxChanges
    /\ isChanged \in BOOLEAN
    /\ tokenSet \in SUBSET Token
    /\ listener \in {"wait", "clear", "fetch", "store"}
    /\ filter \in {"fetch", "store", "ready"}
    /\ {loaded, filterLoaded, applicationSet} \subseteq Version \cup {None}
    /\ sessionUser \in Token \cup {None}
    /\ permission \in Permissions \cup {None}
    /\ pc \in [Request -> Labels]
    /\ tok \in [Request -> Token \cup {None}]
    /\ fetched \in [Request -> Permissions \cup {None}]
    /\ lost \in SUBSET Change
    /\ cleared \in Version
    /\ raced \in SUBSET Token
    /\ {overlapped, startRaced} \subseteq BOOLEAN

-----------------------------------------------------------------------------

Goto(r, label) == pc' = [pc EXCEPT ![r] = label]

End(r) ==
    /\ Goto(r, "idle")
    /\ tok' = [tok EXCEPT ![r] = None]
    /\ fetched' = [fetched EXCEPT ![r] = None]

Alone(r) == \A q \in Request \ {r} : pc[q] = "idle"

-----------------------------------------------------------------------------
\* The server: tokens end; an administrator changes permissions.

EndToken ==
    /\ \E t \in Token : Tokens!End(t)
    /\ UNCHANGED <<server, topic, monitor, cleared, raced, loader, session, request>>

\* A change that no message will tell of.
Lose(changes) == lost' = lost \cup changes

\* send: the message is on its way, or an exception was logged and swallowed.
Sent(change) == topic' = Append(topic, change)

\* RolePermissionServiceImpl.allocate sends inside its transaction ...
AllocateSends ==
    /\ admin = "idle" /\ db < MaxChanges
    /\ Len(topic) < MaxChanges
    /\ admin' = "commit"
    /\ Sent(db + 1) \/ UNCHANGED topic
    /\ UNCHANGED <<status, db, lost, monitor, cleared, raced, loader, session, request>>

\* ... which is committed when it returns; by then the message may have been handled.
AllocateCommits ==
    /\ admin = "commit"
    /\ admin' = "idle"
    /\ db' = db + 1
    /\ Lose(IF \E i \in DOMAIN topic : topic[i] = db + 1 THEN {} ELSE {db + 1})
    /\ UNCHANGED <<status, topic, monitor, cleared, raced, loader, session, request>>

\* PermissionServiceImpl.save: the row first, then the message.
SaveCommits ==
    /\ admin = "idle" /\ db < MaxChanges
    /\ Len(topic) < MaxChanges
    /\ admin' = "send"
    /\ db' = db + 1
    /\ UNCHANGED <<status, lost, topic, monitor, cleared, raced, loader, session, request>>

SaveSends ==
    /\ admin = "send"
    /\ admin' = "idle"
    /\ \/ Sent(db) /\ UNCHANGED lost
       \/ Lose({db}) /\ UNCHANGED topic
    /\ UNCHANGED <<status, db, monitor, cleared, raced, loader, session, request>>

\* PermissionServiceImpl.deletePermission sends no message.
DeletePermission ==
    /\ admin = "idle" /\ db < MaxChanges
    /\ db' = db + 1
    /\ Lose({db + 1})
    /\ UNCHANGED <<status, admin, topic, monitor, cleared, raced, loader, session, request>>

\* The application is not connected when the message is published.
LoseMessage ==
    /\ topic # <<>>
    /\ topic' = Tail(topic)
    /\ Lose({c \in Change : cleared < c /\ c <= Head(topic)})
    /\ UNCHANGED <<status, db, admin, monitor, cleared, raced, loader, session, request>>

-----------------------------------------------------------------------------
\* PermissionJmsListener.onMessage, one message at a time

SetChanged ==
    /\ listener = "wait" /\ topic # <<>>
    /\ listener' = "clear"
    /\ isChanged' = TRUE
    /\ UNCHANGED <<status, server, topic, tokenSet, cleared, raced, loaded, filter,
                   filterLoaded, applicationSet, startRaced, session, request>>

\* History at a clear of tokenSet: what it tells of, and the requests it comes too early for.
Told ==
    /\ cleared' = IF Head(topic) > db THEN db
                  ELSE IF Head(topic) > cleared THEN Head(topic) ELSE cleared
    /\ raced' = {tok[r] : r \in {q \in Request : pc[q] \in {"store", "mark"}}}
    /\ startRaced' = (startRaced \/ filter = "store")

\* Mutant of ClearTokens: tokenSet is left as it is.
KeepTokens ==
    /\ listener = "clear" /\ topic # <<>>
    /\ listener' = "fetch"
    /\ topic' = Tail(topic)
    /\ Told
    /\ UNCHANGED <<status, server, monitor, loaded, filter, filterLoaded, applicationSet,
                   session, request>>

ClearTokens ==
    /\ listener = "clear" /\ topic # <<>>
    /\ listener' = "fetch"
    /\ tokenSet' = {}
    /\ topic' = Tail(topic)
    /\ Told
    /\ UNCHANGED <<status, server, isChanged, loaded, filter, filterLoaded, applicationSet,
                   session, request>>

\* initApplicationPermissions: the remote call, then the set is replaced ...
ListenerFetches ==
    /\ listener = "fetch"
    /\ listener' = "store"
    /\ loaded' = db
    /\ UNCHANGED <<status, server, topic, monitor, cleared, raced, filter, filterLoaded,
                   applicationSet, startRaced, session, request>>

\* Mutant of ListenerStores: the set is made once.
ListenerStoresOnce ==
    /\ listener = "store"
    /\ listener' = "wait"
    /\ applicationSet' = IF applicationSet = None THEN loaded ELSE applicationSet
    /\ startRaced' = (startRaced /\ filter # "ready")
    /\ loaded' = None
    /\ UNCHANGED <<status, server, topic, monitor, cleared, raced, filter,
                   filterLoaded, session, request>>

ListenerStores ==
    /\ listener = "store"
    /\ listener' = "wait"
    /\ applicationSet' = loaded
    /\ startRaced' = (startRaced /\ filter # "ready")
    /\ loaded' = None
    /\ UNCHANGED <<status, server, topic, monitor, cleared, raced, filter,
                   filterLoaded, session, request>>

\* ... by an empty one if the call fails.
ListenerFails ==
    /\ listener = "fetch"
    /\ listener' = "wait"
    /\ applicationSet' = None
    /\ UNCHANGED <<status, server, topic, monitor, cleared, raced, loaded, filter,
                   filterLoaded, startRaced, session, request>>

\* PermissionFilter.init, when the listener may already be running.
FilterFetches ==
    /\ filter = "fetch"
    /\ filter' = "store"
    /\ filterLoaded' = db
    /\ UNCHANGED <<status, server, topic, monitor, cleared, raced, listener, loaded,
                   applicationSet, startRaced, session, request>>

FilterStores ==
    /\ filter = "store"
    /\ filter' = "ready"
    /\ applicationSet' = filterLoaded
    /\ filterLoaded' = None
    /\ UNCHANGED <<status, server, topic, monitor, cleared, raced, listener, loaded,
                   startRaced, session, request>>

FilterFails ==
    /\ filter = "fetch"
    /\ filter' = "ready"
    /\ applicationSet' = None
    /\ UNCHANGED <<status, server, topic, monitor, cleared, raced, listener, loaded,
                   filterLoaded, startRaced, session, request>>

-----------------------------------------------------------------------------
\* SsoFilter and LogoutFilter

\* The session has a user whose token is valid: on to PermissionFilter.
Enter(r) ==
    /\ filter = "ready" /\ pc[r] = "idle"
    /\ sessionUser # None /\ status[sessionUser] = "live"
    /\ Goto(r, "permit")
    /\ UNCHANGED <<status, server, topic, monitor, cleared, raced, loader, session, tok,
                   fetched>>

\* Nobody in the session, and a valid token in the parameter.
Authenticate(r, t) ==
    /\ filter = "ready" /\ pc[r] = "idle"
    /\ sessionUser = None /\ status[t] = "live"
    /\ Goto(r, "login")
    /\ tok' = [tok EXCEPT ![r] = t]
    /\ UNCHANGED <<status, server, topic, monitor, cleared, raced, loader, session, fetched>>

SetSessionUser(r) ==
    /\ pc[r] = "login"
    /\ sessionUser' = tok[r]
    /\ overlapped' = (overlapped \/ ~Alone(r))
    /\ End(r)
    /\ UNCHANGED <<status, server, topic, monitor, cleared, raced, loader, permission>>

\* Mutant of ForgetUser: the permissions stay in the session.
ForgetUserOnly(r) ==
    /\ filter = "ready" /\ pc[r] = "idle"
    /\ sessionUser' = None
    /\ overlapped' = (overlapped \/ ~Alone(r))
    /\ UNCHANGED <<status, server, topic, monitor, cleared, raced, loader, permission,
                   request>>

\* invalidate, by a logout, or by a request that is not Ajax and finds nobody in the
\* session, or a token that is no longer valid.
ForgetUser(r) ==
    /\ filter = "ready" /\ pc[r] = "idle"
    /\ sessionUser' = None
    /\ overlapped' = (overlapped \/ ~Alone(r))
    /\ Goto(r, "drop")
    /\ UNCHANGED <<status, server, topic, monitor, cleared, raced, loader, permission, tok,
                   fetched>>

DropPermission(r) ==
    /\ pc[r] = "drop"
    /\ permission' = None
    /\ overlapped' = ~Alone(r)
    /\ End(r)
    /\ UNCHANGED <<status, server, topic, monitor, cleared, raced, loader, sessionUser>>

-----------------------------------------------------------------------------
\* PermissionFilter.doFilter

\* getLocalPermissionSet: nothing there, or out of date.
Changed == permission = None \/ (isChanged /\ sessionUser \in Token \ tokenSet)

\* The request goes on, or ends; so it does with a NullPointerException at line 61, when
\* another request has logged the user out.
Permit(r) ==
    /\ pc[r] = "permit"
    /\ IF Changed
       THEN Goto(r, "invoke") /\ UNCHANGED <<tok, fetched>>
       ELSE End(r)
    /\ UNCHANGED <<status, server, topic, monitor, cleared, raced, loader, session>>

\* invokePermissionInSession reads the user again and fetches his permissions; a token
\* that is no longer valid has none.  The request ends when another one has logged the
\* user out, or when the remote call throws.
FetchPermissions(r) ==
    /\ pc[r] = "invoke"
    /\ \/ End(r)
       \/ /\ sessionUser # None
          /\ tok' = [tok EXCEPT ![r] = sessionUser]
          /\ fetched' = [fetched EXCEPT ![r] =
                [of |-> IF status[sessionUser] = "live" THEN sessionUser ELSE None,
                 version |-> db]]
          /\ Goto(r, "store")
    /\ UNCHANGED <<status, server, topic, monitor, cleared, raced, loader, session>>

SetSessionPermission(r) ==
    /\ pc[r] = "store"
    /\ permission' = fetched[r]
    /\ fetched' = [fetched EXCEPT ![r] = None]
    /\ Goto(r, "mark")
    /\ UNCHANGED <<status, server, topic, monitor, cleared, raced, loader, sessionUser,
                   overlapped, tok>>

MarkToken(r) ==
    /\ pc[r] = "mark"
    /\ tokenSet' = IF isChanged THEN tokenSet \cup {tok[r]} ELSE tokenSet
    /\ End(r)
    /\ UNCHANGED <<status, server, topic, isChanged, cleared, raced, loader, session>>

-----------------------------------------------------------------------------

Init ==
    /\ status = [t \in Token |-> "live"]
    /\ db = 0 /\ admin = "idle" /\ topic = <<>>
    /\ isChanged = FALSE /\ tokenSet = {}
    /\ listener = "wait" /\ loaded = None
    /\ filter = "fetch" /\ filterLoaded = None /\ applicationSet = None
    /\ sessionUser = None /\ permission = None
    /\ pc = [r \in Request |-> "idle"] /\ tok = [r \in Request |-> None]
    /\ fetched = [r \in Request |-> None]
    /\ lost = {} /\ cleared = 0 /\ raced = {}
    /\ overlapped = FALSE /\ startRaced = FALSE

Next ==
    \/ EndToken
    \/ AllocateSends \/ AllocateCommits \/ SaveCommits \/ SaveSends \/ DeletePermission
    \/ LoseMessage
    \/ SetChanged \/ ClearTokens \/ ListenerFetches \/ ListenerStores \/ ListenerFails
    \/ FilterFetches \/ FilterStores \/ FilterFails
    \/ \E r \in Request :
          \/ \E t \in Token : Authenticate(r, t)
          \/ SetSessionUser(r) \/ ForgetUser(r) \/ DropPermission(r)
          \/ Enter(r) \/ Permit(r) \/ FetchPermissions(r) \/ SetSessionPermission(r)
          \/ MarkToken(r)

Spec == Init /\ [][Next]_vars

-----------------------------------------------------------------------------
\* What the cache promises

\* The permissions in a session are those of its user (or none, when his token ended
\* before they were fetched), unless requests overlapped that set user and permissions.
OwnPermissions ==
    sessionUser # None /\ permission # None /\ ~overlapped
        => permission.of \in {sessionUser, None}

\* Nothing in the topic, nor about to be sent, that is about change c or a later one.
Delivered(c) ==
    /\ c <= db /\ ~(admin = "send" /\ c = db)
    /\ \A i \in DOMAIN topic : topic[i] < c

\* PermissionJmsMonitor.java:14,19: a session that has not seen a change is found out at
\* its next request once the message was delivered, unless no message came after the
\* commit, or a request of the same token had fetched before tokenSet was cleared and
\* marked itself after that, or overlapping requests mixed up the session.
StaleIsRefetched ==
    \A c \in Change \ lost :
        /\ Delivered(c) /\ ~overlapped
        /\ sessionUser # None /\ permission # None /\ permission.version < c
        => isChanged /\ sessionUser \notin tokenSet \ raced

\* With no load under way, the application's own set has seen those changes, too, unless
\* the last load failed or the application's start overlapped a message.
ApplicationSetFresh ==
    listener \in {"wait", "clear"} /\ filter = "ready" /\ applicationSet # None
        => applicationSet >= cleared \/ startRaced
=============================================================================
