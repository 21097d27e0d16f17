---------------------------- MODULE SecondFactor ----------------------------
(***************************************************************************)
(* Second factors of one account (src/server.mjs): codes by SMS, an        *)
(* authenticator (TOTP) and passkeys, each set up, used and removed from   *)
(* several tabs at once.  What is waited for, a code or a challenge, is    *)
(* kept in memory, one of each kind for the account, until it is used or   *)
(* expires.  A handler gives way to the others while the SMS service       *)
(* sends.                                                                  *)
(*                                                                         *)
(* The user knows the password and enters codes, right and wrong ones, in  *)
(* any order.  Codes, secrets and challenges are numbers, each new one     *)
(* different.  The count of wrong passwords is left out; what follows a    *)
(* verified sign-in is in Accounts.                                        *)
(***************************************************************************)
EXTENDS Naturals

CONSTANTS
    Handlers,       \* requests that wait at once
    Phones,
    None,
    MaxAttempts,    \* 5 in the code
    MaxIssued       \* bound: codes, secrets and challenges

Challenges == [code : Nat, phone : Phones, attempts : Nat]

SecondFactorAssumption ==
    /\ None \notin Nat \cup Phones \cup Challenges
    /\ MaxAttempts \in Nat \ {0} /\ MaxIssued \in Nat

VARIABLES
    phone,          \* account.smsMfa
    secret,         \* account.totpSecret, which is enabled
    pendingSecret,  \* account.totpPendingSecret
    passkeys,       \* account.passkeys: the challenge each was registered with
    enrollment,     \* pendingSmsEnrollments
    login,          \* pendingSmsLogins
    registration,   \* pendingPasskeyRegistrations
    assertion,      \* pendingPasskeyLogins
    throttled,      \* smsSendThrottle: a code was sent less than 30 seconds ago
    handlers,       \* what each handler waits for
    issued,         \* numbers given out
    held,           \* what the user was sent or shown: a number, its kind, its phone
    used,           \* history: codes and challenges that opened a session
    entered,        \* history: codes of phones and authenticators that were accepted
    latest,         \* history: the last code of each kind, until it expires, is used
                    \* or tried too often, could not be sent, or SMS is disabled
    undone          \* history: codes removed by the failure of another send

account == <<phone, secret, pendingSecret, passkeys>>
pending == <<enrollment, login, registration, assertion, throttled>>
history == <<used, entered, latest, undone>>
vars == <<account, pending, handlers, issued, held, history>>

Kinds == {"enrollment", "login"}
Idle == [kind |-> None, number |-> None, phone |-> None]

New == issued + 1
Issue == issued < MaxIssued /\ issued' = New
Show(number, kind, to) == held' = held \cup {[number |-> number, kind |-> kind, phone |-> to]}
Numbers(kind) == {item.number : item \in {i \in held : i.kind = kind}}

-----------------------------------------------------------------------------
(* Codes by SMS *)

\* Variant: a code that waits is kept, for the phone it is now sent to.
IssueKept(challenge, to) ==
    [code |-> IF challenge = None THEN New ELSE challenge.code, phone |-> to, attempts |-> 0]

\* A code that waits is replaced.
IssueSmsChallenge(challenge, to) == [code |-> New, phone |-> to, attempts |-> 0]

Sends(h, kind, challenge) ==
    /\ handlers[h] = Idle
    /\ handlers' = [handlers EXCEPT ![h] =
           [kind |-> kind, number |-> challenge.code, phone |-> challenge.phone]]
    /\ latest' = [latest EXCEPT ![kind] = challenge.code]

\* POST /api/security/sms/setup
SetupSms(h, to) ==
    /\ Issue
    /\ enrollment' = IssueSmsChallenge(enrollment, to)
    /\ Sends(h, "enrollment", enrollment')
    /\ UNCHANGED <<account, login, registration, assertion, throttled, held, used, entered, undone>>

\* POST /api/login/sms/send
SendLogin(h) ==
    /\ phone # None /\ ~throttled
    /\ Issue
    /\ login' = IssueSmsChallenge(login, phone)
    /\ Sends(h, "login", login')
    /\ UNCHANGED <<account, enrollment, registration, assertion, throttled, held, used, entered, undone>>

\* The SMS service has the message; only a code to sign in is throttled, from now.
Sent(h) ==
    LET w == handlers[h]
    IN /\ w # Idle
       /\ Show(w.number, w.kind, w.phone)
       /\ throttled' = (throttled \/ w.kind = "login")
       /\ handlers' = [handlers EXCEPT ![h] = Idle]
       /\ UNCHANGED <<account, enrollment, login, registration, assertion, issued, history>>

\* The code that another send had put in place of the handler's own.
Other(challenge, h) ==
    IF challenge = None \/ challenge.code = handlers[h].number THEN {} ELSE {challenge.code}

\* The service fails, or answers too late, when the message may have left: the
\* entry of the account is removed, whosever it is.
NotSent(h) ==
    LET w == handlers[h]
    IN /\ w # Idle
       /\ Show(w.number, w.kind, w.phone) \/ UNCHANGED held
       /\ IF w.kind = "login"
          THEN login' = None /\ undone' = undone \cup Other(login, h) /\ UNCHANGED enrollment
          ELSE enrollment' = None /\ undone' = undone \cup Other(enrollment, h) /\ UNCHANGED login
       /\ latest' = IF latest[w.kind] = w.number THEN [latest EXCEPT ![w.kind] = None] ELSE latest
       /\ handlers' = [handlers EXCEPT ![h] = Idle]
       /\ UNCHANGED <<account, registration, assertion, throttled, issued, used, entered>>

Accepted(challenge, code) == challenge.attempts < MaxAttempts /\ challenge.code = code

\* Variant: a wrong code removes the entry.
LeftByOne(challenge, code) == None

\* Variant: a right code leaves it.
LeftForever(challenge, code) ==
    IF challenge.attempts = MaxAttempts THEN None ELSE [challenge EXCEPT !.attempts = @ + 1]

\* verifyPendingSms: the entry goes with the right code, and with the attempt after
\* the last one.
Left(challenge, code) ==
    IF challenge.attempts = MaxAttempts \/ challenge.code = code
    THEN None ELSE [challenge EXCEPT !.attempts = @ + 1]

Lapsed(kind, challenge, code) ==
    IF challenge.attempts + 1 >= MaxAttempts \/ challenge.code = code
    THEN [latest EXCEPT ![kind] = None] ELSE latest

\* POST /api/security/sms/verify
VerifySms(code) ==
    /\ enrollment # None
    /\ enrollment' = Left(enrollment, code)
    /\ latest' = Lapsed("enrollment", enrollment, code)
    /\ IF Accepted(enrollment, code)
       THEN phone' = enrollment.phone /\ entered' = entered \cup {code}
       ELSE UNCHANGED <<phone, entered>>
    /\ UNCHANGED <<secret, pendingSecret, passkeys, login, registration, assertion, throttled,
                   handlers, issued, held, used, undone>>

\* POST /api/login with a code by SMS
LoginSms(code) ==
    /\ phone # None /\ login # None
    /\ login' = Left(login, code)
    /\ latest' = Lapsed("login", login, code)
    /\ used' = IF Accepted(login, code) THEN used \cup {code} ELSE used
    /\ UNCHANGED <<account, enrollment, registration, assertion, throttled, handlers, issued,
                   held, entered, undone>>

\* POST /api/security/sms/disable: both entries go, a send under way goes on.
DisableSms ==
    /\ phone # None
    /\ phone' = None /\ enrollment' = None /\ login' = None
    /\ latest' = [kind \in Kinds |-> None]
    /\ UNCHANGED <<secret, pendingSecret, passkeys, registration, assertion, throttled,
                   handlers, issued, held, used, entered, undone>>

-----------------------------------------------------------------------------
(* Authenticator *)

\* POST /api/security/totp/setup: the secret is shown as a picture.
SetupTotp ==
    /\ Issue /\ pendingSecret' = New
    /\ Show(New, "totp", None)
    /\ UNCHANGED <<phone, secret, passkeys, pending, handlers, history>>

\* POST /api/security/totp/verify
VerifyTotp(code) ==
    /\ code = pendingSecret
    /\ secret' = pendingSecret /\ pendingSecret' = None
    /\ entered' = entered \cup {code}
    /\ UNCHANGED <<phone, passkeys, pending, handlers, issued, held, used, latest, undone>>

\* POST /api/security/totp/disable, with a code of the one that is enabled
DisableTotp(code) ==
    /\ secret # None => code = secret
    /\ <<secret, pendingSecret>> # <<None, None>>
    /\ secret' = None /\ pendingSecret' = None
    /\ UNCHANGED <<phone, passkeys, pending, handlers, issued, held, history>>

-----------------------------------------------------------------------------
(* Passkeys *)

\* POST /api/security/passkeys/register/options
RegisterOptions ==
    /\ Issue /\ registration' = New
    /\ Show(New, "passkey", None)
    /\ UNCHANGED <<account, enrollment, login, assertion, throttled, handlers, history>>

\* POST /api/security/passkeys/register/verify, with a key that was made for the
\* challenge; any other is refused and the entry stays.
RegisterVerify(challenge) ==
    /\ challenge = registration
    /\ passkeys' = passkeys \cup {challenge} /\ registration' = None
    /\ UNCHANGED <<phone, secret, pendingSecret, enrollment, login, assertion, throttled,
                   handlers, issued, held, history>>

\* POST /api/security/passkeys/remove
RemovePasskey(key) ==
    /\ passkeys' = passkeys \ {key}
    /\ UNCHANGED <<phone, secret, pendingSecret, pending, handlers, issued, held, history>>

\* POST /api/login/passkey/options
PasskeyOptions ==
    /\ passkeys # {}
    /\ Issue /\ assertion' = New
    /\ Show(New, "assertion", None)
    /\ UNCHANGED <<account, enrollment, login, registration, throttled, handlers, history>>

\* Variant: a challenge stays until it expires.
AssertionKept == assertion

AssertionUsed == None

\* POST /api/login/passkey/verify
PasskeyLogin(challenge) ==
    /\ challenge = assertion /\ passkeys # {}
    /\ assertion' = AssertionUsed
    /\ used' = used \cup {challenge}
    /\ UNCHANGED <<account, enrollment, login, registration, throttled, handlers, issued, held,
                   entered, latest, undone>>

-----------------------------------------------------------------------------
\* pendingValue finds an entry too old; 30 seconds pass after a code was sent.
Expire ==
    /\ \/ /\ enrollment # None /\ enrollment' = None
          /\ latest' = [latest EXCEPT !["enrollment"] = None]
          /\ UNCHANGED <<login, registration, assertion, throttled>>
       \/ /\ login # None /\ login' = None
          /\ latest' = [latest EXCEPT !["login"] = None]
          /\ UNCHANGED <<enrollment, registration, assertion, throttled>>
       \/ /\ registration # None /\ registration' = None
          /\ UNCHANGED <<enrollment, login, assertion, throttled, latest>>
       \/ /\ assertion # None /\ assertion' = None
          /\ UNCHANGED <<enrollment, login, registration, throttled, latest>>
       \/ /\ throttled /\ throttled' = FALSE
          /\ UNCHANGED <<enrollment, login, registration, assertion, latest>>
    /\ UNCHANGED <<account, handlers, issued, held, used, entered, undone>>

Init ==
    /\ phone = None /\ secret = None /\ pendingSecret = None /\ passkeys = {}
    /\ enrollment = None /\ login = None /\ registration = None /\ assertion = None
    /\ throttled = FALSE
    /\ handlers = [h \in Handlers |-> Idle]
    /\ issued = 0 /\ held = {}
    /\ used = {} /\ entered = {} /\ undone = {}
    /\ latest = [kind \in Kinds |-> None]

\* 0 is a wrong code.
Next ==
    \/ \E h \in Handlers :
        \/ \E to \in Phones : SetupSms(h, to)
        \/ SendLogin(h) \/ Sent(h) \/ NotSent(h)
    \/ \E code \in Numbers("enrollment") \cup {0} : VerifySms(code)
    \/ \E code \in Numbers("login") \cup {0} : LoginSms(code)
    \/ DisableSms
    \/ SetupTotp \/ \E code \in Numbers("totp") : VerifyTotp(code) \/ DisableTotp(code)
    \/ RegisterOptions \/ \E challenge \in Numbers("passkey") : RegisterVerify(challenge)
    \/ \E key \in passkeys : RemovePasskey(key)
    \/ PasskeyOptions \/ \E challenge \in Numbers("assertion") : PasskeyLogin(challenge)
    \/ Expire

Spec == Init /\ [][Next]_vars

-----------------------------------------------------------------------------
\* A code that was sent is accepted when the user enters it, until a later one
\* replaces it, it expires, is used or tried too often, or SMS is disabled; unless
\* the failure of another send has removed it.
SentCodeWorks ==
    /\ latest["enrollment"] \in Numbers("enrollment") \ undone =>
           enrollment # None /\ Accepted(enrollment, latest["enrollment"])
    /\ latest["login"] \in Numbers("login") \ undone =>
           login # None /\ Accepted(login, latest["login"])

\* "Your LightNAS verification code is ... It expires in 5 minutes." (server.mjs):
\* the same, without exception.
CodeLasts ==
    latest["login"] \in Numbers("login") => login # None /\ Accepted(login, latest["login"])

\* Nobody is locked out by a factor that does not work: the phone that is enabled
\* has received a code that was entered, and the authenticator has shown one; and
\* what has opened a session opens no other.
FactorsAreHeld ==
    /\ phone # None => \E i \in held : i.phone = phone /\ i.number \in entered
    /\ secret # None => secret \in entered
    /\ \A number \in used : number # assertion /\ (login = None \/ login.code # number)
=============================================================================
