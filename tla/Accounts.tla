------------------------------ MODULE Accounts ------------------------------
(***************************************************************************)
(* Accounts of the control plane (src/server.mjs): the owner and the local *)
(* users, their passwords, the groups they are members of, and the         *)
(* sessions they sign in to.  Handlers share the state in memory and give  *)
(* way to each other at every await: the derivation of a password hash, a  *)
(* folder that is made, a save, the synchronisation with Samba.  A handler *)
(* keeps the account object it found before.                               *)
(*                                                                         *)
(* Second factors are in SecondFactor.                                     *)
(***************************************************************************)
EXTENDS Naturals, FiniteSets, FiniteSetsExt

CONSTANTS
    Handlers,       \* requests under way at once
    Names,          \* user names, besides the owner's
    Groups,         \* identifiers of groups
    Updates,        \* bodies of PATCH /api/users, see Update
    Owner,          \* the owner's name
    None,
    Rejected,       \* whether a save, or Samba, may fail when an own password changes
    MaxAccounts,    \* bound: users created
    MaxPasswords    \* bound: passwords set

Steps == {"verify", "samba", "new", "folders", "update", "hash", "group", "own", "own saved"}

AccountsAssumption ==
    /\ None \notin Names \cup {Owner} /\ Owner \notin Names
    /\ None \notin BOOLEAN /\ None \notin Steps
    /\ Updates \subseteq
           [disabled : BOOLEAN \cup {None}, password : BOOLEAN, refused : BOOLEAN,
            groups : {None} \cup SUBSET Groups]
    /\ Rejected \in BOOLEAN /\ {MaxAccounts, MaxPasswords} \subseteq Nat

VARIABLES
    accounts,       \* account objects ever made; 0 is the owner's
    users,          \* store.state.users
    groups,         \* store.state.groups: the members of each, None if not there
    spent,          \* identifiers of groups already used
    sessions,       \* Sessions.sessions
    passwords,      \* passwords set so far: each is told from the others
    handlers,       \* what each handler waits for
    halfway,        \* history: accounts of which a request changed the password,
                    \* and then failed
    twice, orphaned \* history: names created twice at once, and names deleted
                    \* while a request on them was under way

vars == <<accounts, users, groups, spent, sessions, passwords, handlers, halfway,
          twice, orphaned>>

Idle == [step |-> None, name |-> None, account |-> None, password |-> None, body |-> None]

\* The first account of the name in store.state.users, or the configuration.
Found(name) ==
    LET named == {a \in users : accounts[a].name = name}
    IN IF name = Owner THEN 0 ELSE IF named = {} THEN None ELSE Min(named)

UserNames == {accounts[a].name : a \in users}

Waits(h, step, name, account, password, body) ==
    handlers' = [handlers EXCEPT ![h] =
        [step |-> step, name |-> name, account |-> account, password |-> password,
         body |-> body]]

Ends(h) == handlers' = [handlers EXCEPT ![h] = Idle]

Cleared(name) == {s \in sessions : s.name # name}

\* A session, with what the properties ask of it: the account and the password
\* it was made for, and whether they were out of date when it was made.
Session(name, account, password) ==
    [name |-> name, account |-> account, password |-> password,
     late |-> account \notin users \cup {0} \/ accounts[account].password # password]

-----------------------------------------------------------------------------
\* Signing in and out.

\* accountForPassword: the hash to verify is read before the await.
SignIn(h, name) ==
    LET account == Found(name)
    IN /\ handlers[h] = Idle /\ account # None /\ ~accounts[account].disabled
       /\ Waits(h, "verify", name, account, accounts[account].password, None)
       /\ UNCHANGED <<accounts, users, groups, spent, sessions, passwords, halfway,
                      twice, orphaned>>

\* The password is right: a user is signed in, the owner is synchronised first.
Verified(h) ==
    LET w == handlers[h]
    IN /\ w.step = "verify"
       /\ \/ w.name = Owner
             /\ Waits(h, "samba", w.name, w.account, w.password, None)
             /\ UNCHANGED sessions
          \/ w.name # Owner
             /\ sessions' = sessions \cup {Session(w.name, w.account, w.password)}
             /\ Ends(h)
       /\ UNCHANGED <<accounts, users, groups, spent, passwords, halfway, twice, orphaned>>

\* A failed synchronisation is only logged.
OwnerSynchronised(h) ==
    LET w == handlers[h]
    IN /\ w.step = "samba"
       /\ sessions' = sessions \cup {Session(w.name, w.account, w.password)}
       /\ Ends(h)
       /\ UNCHANGED <<accounts, users, groups, spent, passwords, halfway, twice, orphaned>>

\* POST /api/logout; and a session that has expired.
SignOut(s) ==
    /\ sessions' = sessions \ {s}
    /\ UNCHANGED <<accounts, users, groups, spent, passwords, handlers, halfway, twice,
                   orphaned>>

-----------------------------------------------------------------------------
\* Users.

\* POST /api/users: the name is looked for before the hash is derived.
Create(h, name, chosen) ==
    /\ handlers[h] = Idle /\ name \notin UserNames
    /\ Cardinality(DOMAIN accounts) <= MaxAccounts /\ passwords < MaxPasswords
    /\ Waits(h, "new", name, None, None, chosen)
    /\ UNCHANGED <<accounts, users, groups, spent, sessions, passwords, halfway, twice,
                   orphaned>>

Created(h) ==
    LET w == handlers[h]
        account == Cardinality(DOMAIN accounts)
    IN /\ w.step = "new" /\ account <= MaxAccounts /\ passwords < MaxPasswords
       /\ passwords' = passwords + 1
       /\ accounts' = [a \in DOMAIN accounts \cup {account} |->
              IF a = account
              THEN [name |-> w.name, password |-> passwords', disabled |-> FALSE]
              ELSE accounts[a]]
       /\ users' = users \cup {account}
       /\ twice' = IF w.name \in UserNames THEN twice \cup {w.name} ELSE twice
       /\ Waits(h, "folders", w.name, account, None, w.body)
       /\ UNCHANGED <<groups, spent, sessions, halfway, orphaned>>

\* applyUserGroups
WithGroups(name, chosen) ==
    [g \in Groups |->
        IF groups[g] = None \/ chosen = None THEN groups[g]
        ELSE IF g \in chosen THEN groups[g] \cup {name}
        ELSE groups[g] \ {name}]

\* The folders of the library exist.
Completed(h) ==
    LET w == handlers[h]
    IN /\ w.step = "folders"
       /\ groups' = WithGroups(w.name, w.body)
       /\ Ends(h)
       /\ UNCHANGED <<accounts, users, spent, sessions, passwords, halfway, twice, orphaned>>

\* A request that sets the groups of the user is under way.
Orphaned(name) ==
    IF \E h \in Handlers : handlers[h].name = name
                           /\ handlers[h].step \in {"folders", "update", "hash"}
    THEN orphaned \cup {name} ELSE orphaned

\* Variant: the groups keep the member.
DeleteKeepingMember(name) ==
    /\ Found(name) # None
    /\ users' = users \ {Found(name)}
    /\ sessions' = Cleared(name)
    /\ orphaned' = Orphaned(name)
    /\ UNCHANGED <<accounts, groups, spent, passwords, handlers, halfway, twice>>

\* Variant: the sessions stay, as no account answers to them.
DeleteKeepingSessions(name) ==
    /\ Found(name) # None
    /\ users' = users \ {Found(name)}
    /\ groups' = [g \in Groups |-> IF groups[g] = None THEN None ELSE groups[g] \ {name}]
    /\ orphaned' = Orphaned(name)
    /\ UNCHANGED <<accounts, sessions, spent, passwords, handlers, halfway, twice>>

\* DELETE /api/users/<name>: one step.
Delete(name) ==
    /\ Found(name) # None
    /\ users' = users \ {Found(name)}
    /\ groups' = [g \in Groups |-> IF groups[g] = None THEN None ELSE groups[g] \ {name}]
    /\ sessions' = Cleared(name)
    /\ orphaned' = Orphaned(name)
    /\ UNCHANGED <<accounts, spent, passwords, handlers, halfway, twice>>

\* PATCH /api/users/<name>: the user is found, then the body arrives and the
\* owner's password is verified.
Update(h, name, body) ==
    /\ handlers[h] = Idle /\ Found(name) # None /\ passwords < MaxPasswords
    /\ Waits(h, "update", name, Found(name), None, body)
    /\ UNCHANGED <<accounts, users, groups, spent, sessions, passwords, halfway, twice,
                   orphaned>>

\* A body with a quota out of range is refused after its other changes are made.
Finish(h, name, body) ==
    /\ IF body.refused
       THEN UNCHANGED <<groups, sessions>>
       ELSE /\ groups' = WithGroups(name, body.groups)
            /\ sessions' = Cleared(name)
    /\ Ends(h)

UpdateVerified(h) ==
    LET w == handlers[h]
    IN /\ w.step = "update"
       /\ accounts' = IF w.body.disabled = None THEN accounts
                      ELSE [accounts EXCEPT ![w.account].disabled = w.body.disabled]
       /\ IF w.body.password
          THEN /\ Waits(h, "hash", w.name, w.account, None, w.body)
               /\ UNCHANGED <<groups, sessions>>
          ELSE Finish(h, w.name, w.body)
       /\ UNCHANGED <<users, spent, passwords, halfway, twice, orphaned>>

\* Variant: the sessions end with a change of the account, not of its password.
UpdateHashedKeeping(h) ==
    LET w == handlers[h]
    IN /\ w.step = "hash" /\ passwords < MaxPasswords
       /\ passwords' = passwords + 1
       /\ accounts' = [accounts EXCEPT ![w.account].password = passwords']
       /\ groups' = WithGroups(w.name, w.body.groups)
       /\ Ends(h)
       /\ UNCHANGED <<users, spent, sessions, halfway, twice, orphaned>>

UpdateHashed(h) ==
    LET w == handlers[h]
    IN /\ w.step = "hash" /\ passwords < MaxPasswords
       /\ passwords' = passwords + 1
       /\ accounts' = [accounts EXCEPT ![w.account].password = passwords']
       /\ halfway' = IF w.body.refused THEN halfway \cup {w.account} ELSE halfway \ {w.account}
       /\ Finish(h, w.name, w.body)
       /\ UNCHANGED <<users, spent, twice, orphaned>>

-----------------------------------------------------------------------------
\* Groups.

\* POST /api/groups: validMembers keeps the names of users.
CreateGroup(g, members) ==
    /\ g \notin spent /\ spent' = spent \cup {g}
    /\ groups' = [groups EXCEPT ![g] = members \cap UserNames]
    /\ sessions' = {s \in sessions : s.name \notin groups'[g]}
    /\ UNCHANGED <<accounts, users, passwords, handlers, halfway, twice, orphaned>>

\* PATCH /api/groups/<id>: the group is found before its body arrives.
UpdateGroup(h, g, members) ==
    /\ handlers[h] = Idle /\ groups[g] # None
    /\ Waits(h, "group", None, g, None, members)
    /\ UNCHANGED <<accounts, users, groups, spent, sessions, passwords, halfway, twice,
                   orphaned>>

\* Variant: the members are taken as they arrive.
GroupUpdatedAsGiven(h) ==
    LET w == handlers[h]
    IN /\ w.step = "group"
       /\ groups' = IF groups[w.account] = None THEN groups
                    ELSE [groups EXCEPT ![w.account] = w.body]
       /\ sessions' = {s \in sessions : s.name \notin w.body}
       /\ Ends(h)
       /\ UNCHANGED <<accounts, users, spent, passwords, halfway, twice, orphaned>>

\* A group removed meanwhile is changed where nobody sees it.
GroupUpdated(h) ==
    LET w == handlers[h]
        members == w.body \cap UserNames
        before == IF groups[w.account] = None THEN {} ELSE groups[w.account]
    IN /\ w.step = "group"
       /\ groups' = IF groups[w.account] = None THEN groups
                    ELSE [groups EXCEPT ![w.account] = members]
       /\ sessions' = {s \in sessions : s.name \notin members \cup before}
       /\ Ends(h)
       /\ UNCHANGED <<accounts, users, spent, passwords, halfway, twice, orphaned>>

DeleteGroup(g) ==
    /\ groups[g] # None
    /\ groups' = [groups EXCEPT ![g] = None]
    /\ sessions' = {s \in sessions : s.name \notin groups[g]}
    /\ UNCHANGED <<accounts, users, spent, passwords, handlers, halfway, twice, orphaned>>

-----------------------------------------------------------------------------
\* Own password: POST /api/security/password, and for the owner PATCH
\* /api/settings too.  The account is that of the request's session.

ChangeOwn(h, s, route) ==
    LET account == Found(s.name)
    IN /\ handlers[h] = Idle /\ account # None /\ ~accounts[account].disabled
       /\ route = "settings" => s.name = Owner
       /\ passwords < MaxPasswords
       /\ Waits(h, "own", s.name, account, None, route)
       /\ UNCHANGED <<accounts, users, groups, spent, sessions, passwords, halfway, twice,
                      orphaned>>

\* The present password was verified and the hash of the new one derived; the
\* state is saved and, for the owner, Samba told.
OwnHashed(h) ==
    LET w == handlers[h]
    IN /\ w.step = "own" /\ passwords < MaxPasswords
       /\ passwords' = passwords + 1
       /\ accounts' = [accounts EXCEPT ![w.account].password = passwords']
       /\ halfway' = halfway \ {w.account}
       /\ Waits(h, "own saved", w.name, w.account, None, w.body)
       /\ UNCHANGED <<users, groups, spent, sessions, twice, orphaned>>

OwnSaved(h) ==
    LET w == handlers[h]
    IN /\ w.step = "own saved"
       /\ sessions' = IF w.body = "settings" THEN {} ELSE Cleared(w.name)
       /\ Ends(h)
       /\ UNCHANGED <<accounts, users, groups, spent, passwords, halfway, twice, orphaned>>

\* Neither route catches the error of its save, nor PATCH /api/settings that of Samba:
\* the new password is in memory already, and the next save by anyone stores it.
OwnRejected(h) ==
    LET w == handlers[h]
    IN /\ w.step = "own saved" /\ Rejected
       /\ halfway' = halfway \cup {w.account}
       /\ Ends(h)
       /\ UNCHANGED <<accounts, users, groups, spent, sessions, passwords, twice, orphaned>>

-----------------------------------------------------------------------------
Init ==
    /\ accounts = [a \in {0} |-> [name |-> Owner, password |-> 0, disabled |-> FALSE]]
    /\ users = {} /\ spent = {} /\ groups = [g \in Groups |-> None]
    /\ sessions = {} /\ passwords = 0
    /\ handlers = [h \in Handlers |-> Idle]
    /\ halfway = {} /\ twice = {} /\ orphaned = {}

Handle(h) ==
    \/ \E name \in Names \cup {Owner} : SignIn(h, name)
    \/ \E name \in Names, chosen \in {None} \cup SUBSET Groups : Create(h, name, chosen)
    \/ \E name \in Names, body \in Updates : Update(h, name, body)
    \/ \E g \in Groups, members \in SUBSET Names : UpdateGroup(h, g, members)
    \/ \E s \in sessions, route \in {"password", "settings"} : ChangeOwn(h, s, route)
    \/ Verified(h) \/ OwnerSynchronised(h) \/ Created(h) \/ Completed(h)
    \/ UpdateVerified(h) \/ UpdateHashed(h) \/ GroupUpdated(h)
    \/ OwnHashed(h) \/ OwnSaved(h) \/ OwnRejected(h)

Next ==
    \/ \E h \in Handlers : Handle(h)
    \/ \E name \in Names : Delete(name)
    \/ \E g \in Groups : DeleteGroup(g) \/ \E members \in SUBSET Names : CreateGroup(g, members)
    \/ \E s \in sessions : SignOut(s)

Spec == Init /\ [][Next]_vars

-----------------------------------------------------------------------------
\* localContext: an account that is there and not disabled answers to a session.
Honoured(s) == Found(s.name) # None /\ ~accounts[Found(s.name)].disabled

\* A change of the account's password is not yet answered.
Changing(account) ==
    \E h \in Handlers : handlers[h].step = "own saved" /\ handlers[h].account = account

\* When a user is deleted, or a password changed, the sessions from before end: a
\* session that is honoured stands for the account it was made for and was made
\* with its present password.  It may be an older one while the change is not yet
\* answered, after a change that failed half way, and when the sign-in was under
\* way during the change: its session is made last.
OldSessionsEnd ==
    \A s \in sessions :
        Honoured(s) /\ ~s.late =>
            LET account == Found(s.name)
            IN \/ s.account = account /\ s.password = accounts[account].password
               \/ Changing(account) \/ account \in halfway

\* A user name stands for one account, and a member of a group is a user, so that
\* a user created later under the name of a deleted one inherits nothing: unless
\* two creations of the name overlapped, or the user was deleted while a request
\* that sets its groups was under way.
DirectoryIsSound ==
    /\ \A a, b \in users : accounts[a].name = accounts[b].name =>
           a = b \/ accounts[a].name \in twice
    /\ \A g \in Groups : groups[g] # None => groups[g] \subseteq UserNames \cup orphaned

\* "password changes sign out every session" (README.md): when no change of the
\* owner's password is under way, no session of the owner is older than it.
PasswordSignsOut ==
    \A s \in sessions : s.name = Owner /\ ~s.late /\ s.password # accounts[0].password => Changing(0)
=============================================================================
