------------------------------- MODULE Accounts -------------------------------
(***************************************************************************)
(* AuthService, UsersService and ProfilesService of the API, and the       *)
(* AuthService of packages/auth.  bcrypt's work is awaited, so that every  *)
(* request that hashes or compares a password reads before it and writes   *)
(* after it.                                                               *)
(***************************************************************************)
EXTENDS ApiTables

onlyCalls == UNCHANGED <<users, profiles, rows, made, second>>

\* AuthService.register: the address is looked up, then the password is hashed.
Register(c) ==
    /\ calls[c].at = "new"
    /\ \E e \in Emails, s \in NewSecrets :
           LET request == [Request("register") EXCEPT !.key = e, !.secret = s]
           IN  IF HasEmail(e) THEN Refused(c, request, "conflict")
                              ELSE Begins(c, request, "create")
    /\ onlyCalls

\* UsersService.create does not look first; without an address it takes a fixed one,
\* which is one of Emails here.
CreateUser(c) ==
    /\ calls[c].at = "new"
    /\ \E e \in Emails, s \in NewSecrets \cup {None} :
           Begins(c, [Request("createUser") EXCEPT !.key = e, !.secret = s], "create")
    /\ onlyCalls

\* user.create, of both
InsertUser(c) ==
    /\ calls[c].at = "create"
    /\ IF HasEmail(calls[c].key)
       THEN Ends(c, "taken") /\ UNCHANGED <<users, made>>
       ELSE /\ UserIdLeft
            /\ users' = [users EXCEPT ![NewUser] =
                             [email |-> calls[c].key, secret |-> calls[c].secret, token |-> None]]
            /\ made' = made \cup {NewUser}
            /\ calls' = [calls EXCEPT ![c].at = "profile", ![c].target = NewUser]
    /\ UNCHANGED <<profiles, rows, second>>

\* profile.create: for a new user a failure is swallowed, for profiles.update it is not.
InsertProfile(c) ==
    /\ calls[c].at = "profile"
    /\ LET u == calls[c].target
           next == CASE calls[c].op = "register" -> Goes(c, "sign")
                     [] calls[c].op # "register" -> Ends(c, "ok")
       IN  \/ users[u] # None /\ profiles' = [profiles EXCEPT ![u] = @ + 1] /\ next
           \/ /\ profiles' = profiles
              /\ IF calls[c].op = "updateProfile" THEN Ends(c, "broken") ELSE next
    /\ UNCHANGED <<users, rows, made, second>>

\* AuthService.login: a user without a password cannot; the hash that is compared is the
\* one that was read.
Login(c) ==
    /\ calls[c].at = "new"
    /\ \E e \in Emails, s \in Secrets :
           LET request == [Request("login") EXCEPT !.key = e, !.secret = s]
               found == {u \in Users : users[u] # None /\ users[u].email = e}
           IN  IF \E u \in found : users[u].secret # None
               THEN \E u \in found : Begins(c, [request EXCEPT !.target = u,
                                                               !.read = users[u].secret], "compare")
               ELSE Refused(c, request, "unauthorized")
    /\ onlyCalls

Compare(c) ==
    /\ calls[c].at = "compare"
    /\ IF calls[c].secret = calls[c].read THEN Goes(c, "sign") ELSE Ends(c, "unauthorized")
    /\ onlyCalls

\* signRefreshToken: the subject and the second are all that a token holds.
Sign(c) ==
    /\ calls[c].at = "sign"
    /\ calls' = [calls EXCEPT ![c].token = [user |-> calls[c].target, at |-> second],
                              ![c].at = "store"]
    /\ onlyCalls

\* Mutant: a token that is there is kept.
StoreFirst(c) ==
    /\ calls[c].at = "store"
    /\ LET u == calls[c].target
       IN  IF users[u] # None
           THEN Ends(c, "ok") /\ users' = [users EXCEPT ![u].token =
                                               IF @ = None THEN calls[c].token ELSE @]
           ELSE Ends(c, "missing") /\ users' = users
    /\ UNCHANGED <<profiles, rows, made, second>>

\* refreshTokenHash is one column: what it held is no longer accepted.
Store(c) ==
    /\ calls[c].at = "store"
    /\ LET u == calls[c].target
       IN  IF users[u] # None
           THEN Ends(c, "ok") /\ users' = [users EXCEPT ![u].token = calls[c].token]
           ELSE Ends(c, "missing") /\ users' = users
    /\ UNCHANGED <<profiles, rows, made, second>>

\* AuthService.refresh, with a token that was answered
Refresh(c) ==
    /\ calls[c].at = "new"
    /\ \E d \in Requests :
           /\ calls[d].op \in {"register", "login"} /\ calls[d].answer = "ok"
           /\ LET u == calls[d].token.user
                  good == users[u] # None /\ users[u].token = calls[d].token
              IN  Refused(c, [Request("refresh") EXCEPT !.target = u],
                          IF good THEN "ok" ELSE "unauthorized")
    /\ onlyCalls

\* UsersService.update: any caller, any user.  The password is hashed before the write.
UpdateUser(c) ==
    /\ calls[c].at = "new"
    /\ \E u \in made \cap Users, e \in Emails \cup {None}, s \in NewSecrets \cup {None} :
           Begins(c, [Request("updateUser") EXCEPT !.target = u, !.key = e, !.secret = s], "update")
    /\ onlyCalls

\* The refresh token stays as it is when the password changes.
WriteUser(c) ==
    /\ calls[c].at = "update"
    /\ LET u == calls[c].target
           e == calls[c].key
           given(value, old) == IF value = None THEN old ELSE value
       IN  IF users[u] = None THEN Ends(c, "missing") /\ users' = users
           ELSE IF e # None /\ \E v \in Users \ {u} : users[v] # None /\ users[v].email = e
           THEN Ends(c, "taken") /\ users' = users
           ELSE /\ Ends(c, "ok")
                /\ users' = [users EXCEPT
                                 ![u].email = given(e, users[u].email),
                                 ![u].secret = given(calls[c].secret, users[u].secret)]
    /\ UNCHANGED <<profiles, rows, made, second>>

\* UsersService.remove: refused by the database while the user has a profile or a row.
RemoveUser(c) ==
    /\ calls[c].at = "new"
    /\ \E u \in made \cap Users :
           LET request == [Request("removeUser") EXCEPT !.target = u]
           IN  IF users[u] = None THEN Refused(c, request, "missing") /\ users' = users
               ELSE IF UserReferred(u) THEN Refused(c, request, "broken") /\ users' = users
               ELSE Refused(c, request, "ok") /\ users' = [users EXCEPT ![u] = None]
    /\ UNCHANGED <<profiles, rows, made, second>>

\* ProfilesService.update: the first profile is found and then written, or one is made;
\* no operation deletes a profile, so that writing the one that was found succeeds.
UpdateProfile(c) ==
    /\ calls[c].at = "new"
    /\ \E u \in made \cap Users, actor \in made \cap Users :
           LET request == [Request("updateProfile") EXCEPT !.target = u, !.actor = actor]
           IN  IF actor # u /\ actor \notin Admins THEN Refused(c, request, "forbidden")
               ELSE IF profiles[u] > 0 THEN Refused(c, request, "ok")
               ELSE Begins(c, request, "profile")
    /\ onlyCalls

SecondPasses ==
    /\ second < MaxSecond
    /\ second' = second + 1
    /\ UNCHANGED <<users, profiles, rows, made, calls>>

AccountsNext ==
    \/ \E c \in Requests :
           \/ Register(c) \/ CreateUser(c) \/ InsertUser(c) \/ InsertProfile(c)
           \/ Login(c) \/ Compare(c) \/ Sign(c) \/ Store(c) \/ Refresh(c)
           \/ UpdateUser(c) \/ WriteUser(c) \/ RemoveUser(c) \/ UpdateProfile(c)
    \/ SecondPasses

-----------------------------------------------------------------------------
\* A refresh token that was answered is accepted until another sign-in of that user is
\* stored, and one that had ended before this one began cannot take its place
\* (AuthService.register and login, users.refreshTokenHash).
LatestSessionWorks ==
    \A c \in Requests :
        LET u == calls[c].token.user
        IN  (calls[c].answer = "ok" /\ calls[c].token # None /\ users[u] # None
             /\ users[u].token # calls[c].token)
            => \E d \in Requests \ {c} :
                   /\ calls[d].answer = "ok" /\ calls[d].token # None /\ calls[d].token.user = u
                   /\ d \notin calls[c].before

\* The address of a new user that register found free is refused by the database only
\* when a request that ran beside it took it (AuthService.register's lookup).
TakenAddressNeedsARace ==
    \A c \in Requests :
        (calls[c].op = "register" /\ calls[c].answer = "taken")
        => \E d \in Requests : /\ Overlap(c, d) /\ calls[d].key = calls[c].key
                               /\ calls[d].op \in {"register", "createUser", "updateUser"}

\* A user has a second profile only when two requests that write profiles ran side by side
\* (ProfilesService.update, AuthService.register, UsersService.create: userId is not unique).
SecondProfileNeedsARace ==
    \A u \in Users : profiles[u] > 1 =>
        \E c, d \in Requests :
            /\ Overlap(c, d)
            /\ \A r \in {c, d} : /\ calls[r].target = u
                                 /\ calls[r].op \in {"register", "createUser", "updateProfile"}

------------------------------------------------------------------------------
(* AuthService of packages/auth over its InMemoryUserRepository: a map from the address to *)
(* the user, with no constraint.  Requests await the repository between looking for a user *)
(* and saving one.                                                                         *)

CONSTANTS
    Callers,     \* requests to the package
    Addresses,   \* trimmed, in lower case
    Passwords   \* of at least ten characters; a hash is the password it is of

VARIABLES
    saved,       \* the user of each address; a user is named by the request that made it
    asked        \* the requests

packageVars == <<saved, asked>>

Visitor == [at : {"new", "save", "done"}, email : Addresses \cup {None},
            password : Passwords \cup {None}, session : Callers \cup {None},
            before : SUBSET Callers]

ASSUME NobodyAssumption ==
    None \notin Callers \cup Addresses \cup [id : Callers, password : Passwords]

PackageTypeOK ==
    /\ saved \in [Addresses -> [id : Callers, password : Passwords] \cup {None}]
    /\ asked \in [Callers -> Visitor]

PackageInit ==
    /\ saved = [e \in Addresses |-> None]
    /\ asked = [c \in Callers |-> [at |-> "new", email |-> None, password |-> None,
                                   session |-> None, before |-> {}]]

Visits(c, email, password, at, session) ==
    asked' = [asked EXCEPT ![c] =
                  [at |-> at, email |-> email, password |-> password, session |-> session,
                   before |-> {d \in Callers : asked[d].at = "done"}]]

\* register: an input that is not valid is refused before anything is awaited.
SignUp(c) ==
    /\ asked[c].at = "new"
    /\ \E e \in Addresses, p \in Passwords :
           Visits(c, e, p, IF saved[e] # None THEN "done" ELSE "save", None)
    /\ UNCHANGED saved

\* save replaces whoever has the address; the session is of the user that was saved.
Save(c) ==
    /\ asked[c].at = "save"
    /\ saved' = [saved EXCEPT ![asked[c].email] = [id |-> c, password |-> asked[c].password]]
    /\ asked' = [asked EXCEPT ![c].at = "done", ![c].session = c]

\* login: nothing is awaited between reading the hash and the answer.
SignIn(c) ==
    /\ asked[c].at = "new"
    /\ \E e \in Addresses, p \in Passwords :
           Visits(c, e, p, "done",
                  IF saved[e] # None /\ saved[e].password = p THEN saved[e].id ELSE None)
    /\ UNCHANGED saved

PackageNext == \E c \in Callers : SignUp(c) \/ Save(c) \/ SignIn(c)

\* A session is of a user that is still saved under its address, unless another
\* registration of that address ran beside the one that made the user (register looks, and
\* save overwrites).
SessionOfNobodyNeedsARace ==
    \A c \in Callers :
        LET id == asked[c].session
            e == asked[c].email
        IN  (id # None /\ saved[e].id # id)
            => LET d == saved[e].id
               IN  id \notin asked[d].before /\ d \notin asked[id].before
=============================================================================
