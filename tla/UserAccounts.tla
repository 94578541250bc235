---------------------------- MODULE UserAccounts ----------------------------
(***************************************************************************)
(* smart-sso, the table of users as the server's threads change it:        *)
(* UserServiceImpl over one SQL statement each.  A login, a change of the  *)
(* own password and a submitted edit form read a row and later write the   *)
(* whole row back; enabling, resetting and deleting, which the pages of    *)
(* the administrators ask for (AdminTable), are statements on a set of     *)
(* rows.                                                                   *)
(*                                                                         *)
(* Users are numbered as they are created.  A password is the initial one  *)
(* of the system or one of the user's own.  External: MySQL, one statement *)
(* at a time, except for the transaction of deleteById.                    *)
(***************************************************************************)
EXTENDS Integers, FiniteSets

CONSTANTS
    Worker,         \* threads of the server that read and write back
    Account,        \* names to log in with
    None,
    MaxUsers,       \* bound: users ever created
    MaxEvents       \* bound: calls of threads, operations posted by AdminTable, and requests
                    \* that fail on their way, together

ASSUME AccountAssumption == None \notin Worker \cup Account \cup Nat
ASSUME UserBounds == MaxUsers \in Nat /\ MaxUsers >= 2 /\ MaxEvents \in Nat

Id == 1..MaxUsers
Password == {"initial", "own"}
User == [account : Account, password : Password, enabled : BOOLEAN]

VARIABLES
    user,           \* SYS_USER
    created,        \* its auto-increment
    task,           \* what a thread has read, and what it is going to write
    dirty,          \* history: threads whose row was changed after they read it
    overwritten,    \* history: users a dirty thread has written
    decided,        \* history: what was last asked for, of a user's password and state
    unverified,     \* history: accounts saved after a check that did not hold any more
    events          \* history: how many there were

accounts == <<user, created, task, dirty, overwritten, decided, unverified>>

\* id is None in a form that adds a user; sets are the fields the caller decides.
Task == [step : {"save", "update"}, id : Id \cup {None}, row : User,
         sets : SUBSET {"password", "enabled"}]

AccountsTypeOK ==
    /\ user \in [Id -> User \cup {None}]
    /\ created \in 0..MaxUsers
    /\ \A i \in Id : user[i] # None => i <= created
    /\ task \in [Worker -> Task \cup {None}]
    /\ dirty \in SUBSET {th \in Worker : task[th] # None /\ task[th].step = "update"}
    /\ overwritten \in SUBSET Id
    /\ decided \in [Id -> [password : Password, enabled : BOOLEAN]]
    /\ unverified \in SUBSET Account
    /\ events \in 0..MaxEvents

-----------------------------------------------------------------------------

Present == {i \in Id : user[i] # None}

Named(a) == {i \in Present : user[i].account = a}

Idle(th) == task[th] = None

Event == events < MaxEvents /\ events' = events + 1

Starts(th, c) == task' = [task EXCEPT ![th] = c]

\* Threads that have read one of these rows, which now change.
Reading(ids) == {th \in Worker : ~Idle(th) /\ task[th].step = "update" /\ task[th].id \in ids}

Changed == {i \in Id : user'[i] # user[i]}

\* History: these fields of these users are asked for.
Decide(ids, sets, row) ==
    decided' = [i \in Id |->
        IF i \in ids THEN [password |-> IF "password" \in sets THEN row.password
                                        ELSE decided[i].password,
                           enabled  |-> IF "enabled" \in sets THEN row.enabled
                                        ELSE decided[i].enabled]
        ELSE decided[i]]

\* History: account a is written for user i (None: a new one); what other forms have
\* found out about it is void.
Verified(th, i, a) ==
    unverified' =
        IF \E q \in Worker \ {th} :
              /\ ~Idle(q) /\ "enabled" \in task[q].sets /\ task[q].row.account = a
              /\ task[q].id = None \/ task[q].id # i
        THEN unverified \cup {a} ELSE unverified

-----------------------------------------------------------------------------

\* login: two rows of the account are an error, as are a wrong password and a disabled user.
LoginReads(th, i) ==
    /\ Event
    /\ Idle(th) /\ i \in Present
    /\ Named(user[i].account) = {i} /\ user[i].enabled
    /\ Starts(th, [step |-> "update", id |-> i, row |-> user[i], sets |-> {}])
    /\ UNCHANGED <<user, created, dirty, overwritten, decided, unverified>>

\* updatePassword, of a user who is logged in: get.
PasswordReads(th, i) ==
    /\ Event
    /\ Idle(th) /\ i \in Present
    /\ Starts(th, [step |-> "update", id |-> i, sets |-> {"password"},
                   row |-> [user[i] EXCEPT !.password = "own"]])
    /\ UNCHANGED <<user, created, dirty, overwritten, decided, unverified>>

\* Mutant of CheckAccount: only for a new user.
CheckAccountNew(th) ==
    \E i \in Present \cup {None}, a \in Account, b \in BOOLEAN, given \in BOOLEAN :
        /\ Idle(th) /\ (i = None => given)
        /\ \/ Event /\ (i = None => Named(a) = {}) /\ UNCHANGED unverified
           \/ /\ events + 2 <= MaxEvents /\ events' = events + 2
              /\ unverified' = unverified \cup {a}
        /\ Starts(th, [step |-> "save", id |-> i,
                       row |-> [account |-> a, password |-> "own", enabled |-> b],
                       sets |-> {"enabled"} \cup IF given THEN {"password"} ELSE {}])
        /\ UNCHANGED <<user, created, dirty, overwritten, decided>>

\* The edit form is submitted: validateAccount finds no other user of that name.  A
\* request for the check that fails counts as passed.
CheckAccount(th) ==
    \E i \in Present \cup {None}, a \in Account, b \in BOOLEAN, given \in BOOLEAN :
        /\ Idle(th) /\ (i = None => given)
        /\ \/ Event /\ Named(a) \subseteq {i} /\ UNCHANGED unverified
           \/ /\ events + 2 <= MaxEvents /\ events' = events + 2
              /\ unverified' = unverified \cup {a}
        /\ Starts(th, [step |-> "save", id |-> i,
                       row |-> [account |-> a, password |-> "own", enabled |-> b],
                       sets |-> {"enabled"} \cup IF given THEN {"password"} ELSE {}])
        /\ UNCHANGED <<user, created, dirty, overwritten, decided>>

\* Mutant of SaveReads: a blank password is a password.
SaveReadsBlank(th) ==
    LET c == task[th] IN
    /\ ~Idle(th) /\ c.step = "save" /\ c.id # None
    /\ task' = [task EXCEPT ![th] =
          IF user[c.id] = None THEN None ELSE [c EXCEPT !.step = "update"]]
    /\ UNCHANGED <<user, created, dirty, overwritten, decided, unverified, events>>

\* save of a user that is there: get, and a blank password stays what it is.  A user who
\* was deleted is a NullPointerException.
SaveReads(th) ==
    LET c == task[th] IN
    /\ ~Idle(th) /\ c.step = "save" /\ c.id # None
    /\ task' = [task EXCEPT ![th] =
          IF user[c.id] = None THEN None
          ELSE [c EXCEPT !.step = "update",
                         !.row.password = IF "password" \in c.sets THEN @
                                          ELSE user[c.id].password]]
    /\ UNCHANGED <<user, created, dirty, overwritten, decided, unverified, events>>

\* save of a new user.
Insert(th) ==
    LET c == task[th]
        i == created + 1 IN
    /\ ~Idle(th) /\ c.step = "save" /\ c.id = None
    /\ i \in Id /\ created' = i
    /\ user' = [user EXCEPT ![i] = c.row]
    /\ Decide({i}, c.sets, c.row)
    /\ task' = [task EXCEPT ![th] = None]
    /\ Verified(th, None, c.row.account)
    /\ UNCHANGED <<dirty, overwritten, events>>

\* dao.update writes the whole row, if it is still there.
Update(th) ==
    LET c == task[th] IN
    /\ ~Idle(th) /\ c.step = "update"
    /\ user' = [user EXCEPT ![c.id] = IF @ = None THEN None ELSE c.row]
    /\ Decide({c.id} \cap Present, c.sets, c.row)
    /\ overwritten' = IF th \in dirty THEN overwritten \cup {c.id} ELSE overwritten
    /\ dirty' = (dirty \cup Reading(Changed)) \ {th}
    /\ Verified(th, c.id, c.row.account)
    /\ task' = [task EXCEPT ![th] = None]
    /\ UNCHANGED <<created, events>>

-----------------------------------------------------------------------------
\* Statements on a set of rows, for AdminTable

Written(ids, sets, row) ==
    /\ Decide(ids \cap Present, sets, row)
    /\ dirty' = dirty \cup Reading(Changed)
    /\ UNCHANGED <<created, task, overwritten, unverified>>

\* enable: the rows that are there are changed, even if the answer is that some are not.
Enable(ids, b) ==
    /\ user' = [i \in Id |-> IF i \in ids \cap Present THEN [user[i] EXCEPT !.enabled = b]
                             ELSE user[i]]
    /\ Written(ids, {"enabled"}, [password |-> "own", enabled |-> b])

ResetPassword(ids) ==
    /\ user' = [i \in Id |-> IF i \in ids \cap Present
                             THEN [user[i] EXCEPT !.password = "initial"] ELSE user[i]]
    /\ Written(ids, {"password"}, [password |-> "initial", enabled |-> TRUE])

\* deleteById: a transaction, which is rolled back if a row is gone.
DeleteById(ids) ==
    /\ user' = IF ids \subseteq Present
               THEN [i \in Id |-> IF i \in ids THEN None ELSE user[i]] ELSE user
    /\ Written({}, {}, None)

-----------------------------------------------------------------------------

\* One or two users, each with an account and a password of his own.
AccountsInit ==
    /\ created \in 1..2
    /\ \E account \in [1..created -> Account] :
          /\ \A i, j \in 1..created : account[i] = account[j] => i = j
          /\ user = [i \in Id |->
                       IF i > created THEN None
                       ELSE [account |-> account[i], password |-> "own", enabled |-> TRUE]]
    /\ decided = [i \in Id |-> [password |-> "own", enabled |-> TRUE]]
    /\ task = [th \in Worker |-> None]
    /\ dirty = {} /\ overwritten = {} /\ unverified = {}
    /\ events = 0

AccountsNext ==
    \E th \in Worker :
        \/ \E i \in Id : LoginReads(th, i) \/ PasswordReads(th, i)
        \/ CheckAccount(th) \/ SaveReads(th) \/ Insert(th) \/ Update(th)

-----------------------------------------------------------------------------
\* What is promised of the users

\* A user's password and state are those last asked for, by an administrator or by the
\* user himself (UserService.java), unless a thread that had read the row before another
\* one changed it has written it back: a login can enable a user again.
DecisionsStand ==
    \A i \in Present \ overwritten :
        /\ user[i].password = decided[i].password
        /\ user[i].enabled = decided[i].enabled

\* No two users have one account (UserController.validateAccount), unless the check did
\* not take place, or did not hold any more at the save, or a row was written back that
\* had an older account.
AccountsUnique ==
    \A i, j \in Present :
        i # j /\ user[i].account = user[j].account
            => user[i].account \in unverified \/ {i, j} \cap overwritten # {}
=============================================================================
