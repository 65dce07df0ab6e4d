------------------------------- MODULE Accounts -------------------------------
(***************************************************************************)
(* Who may log in: the checks that Register and Login of                   *)
(* internal/service/auth/service.go make before they write, over the users *)
(* table and the password hashes of internal/security/password/argon2.go.  *)
(*                                                                         *)
(* An address as a client types it is an address and a spelling; a         *)
(* password and a device name matter by their lengths.  What happens after *)
(* the checks is the business of EmailVerification and SessionAuth.        *)
(***************************************************************************)
EXTENDS Naturals

CONSTANTS
    Registrations,     \* requests that call Register
    Logins,            \* requests that call Login
    Addresses,         \* what ToLower and TrimSpace leave of an address
    Malformed,         \* those of them that are empty, too long or not an address
    Passwords,         \* passwords clients use
    PasswordLength,    \* their lengths
    MinPassword, MaxPassword,
    DeviceLengths,     \* lengths of device names without the spaces around them
    MinDevice, MaxDevice,
    None

Requests  == Registrations \cup Logins
Spellings == {"plain", "padded", "capitals", "named"}
Typed     == [address : Addresses, spelling : Spellings]

\* The stored form of a password, and a row of the users table.
Hashes == [salt : Registrations, key : Passwords \X Registrations]
Users  == [hash : Hashes, verified : BOOLEAN]

\* How a request ends.
Answers == {"ok", "invalidInput", "exists", "invalidCredentials", "notVerified", "failed"}

ASSUME AccountsAssumption ==
    /\ Registrations \cap Logins = {}
    /\ None \notin Requests \cup Typed \cup Passwords \cup Hashes \cup Users \cup Answers
    /\ Malformed \subseteq Addresses
    /\ PasswordLength \in [Passwords -> Nat]
    /\ DeviceLengths \subseteq Nat
    /\ {MinPassword, MaxPassword, MinDevice, MaxDevice} \subseteq Nat \ {0}

VARIABLES
    users,     \* table users, by the text of the address
    sessions,  \* logins that have come to CreateSession
    pc,        \* what a request does next
    local,     \* its input and its local variables
    reply      \* how a finished request has ended

vars == <<users, sessions, pc, local, reply>>

-----------------------------------------------------------------------------
(* Checks.                                                                 *)

\* normalizeEmail.  An address with a display name in front keeps it.
\* (Faulty variant: the address is taken as it was typed.)
AsTyped(email) == email
Normalized(email) ==
    [email EXCEPT !.spelling = IF @ \in {"padded", "capitals"} THEN "plain" ELSE @]

\* validateEmail: what ParseAddress finds must be the whole text.
ValidEmail(email) == email.spelling # "named" /\ email.address \notin Malformed

\* validatePassword, which counts runes.
ValidPassword(p) ==
    /\ PasswordLength[p] # 0
    /\ PasswordLength[p] >= MinPassword
    /\ PasswordLength[p] <= MaxPassword

\* validateDeviceName.
ValidDevice(n) == n # 0 /\ n >= MinDevice /\ n <= MaxDevice

\* Argon2Manager.Hash: the key derived from a password and a fresh salt, which no other
\* password or salt gives; the salt is named by the request.
Hash(r, p) == [salt |-> r, key |-> <<p, r>>]

\* Argon2Manager.Verify: the key is derived again with the salt of the stored hash.
\* (Faulty variant: with a fresh one.)
VerifyWithFreshSalt(r, hash, p) == Hash(r, p).key = hash.key
Verify(r, hash, p) == Hash(hash.salt, p).key = hash.key

-----------------------------------------------------------------------------
Blank == [email |-> None, password |-> None, device |-> 0,
          user  |-> None,    \* loginUser
          hash  |-> None,    \* passwordHash
          known |-> {}]      \* history: registrations answered before the request began

Init ==
    /\ users = [email \in Typed |-> None]
    /\ sessions = {}
    /\ pc = [r \in Requests |-> "idle"]
    /\ local = [r \in Requests |-> Blank]
    /\ reply = [r \in Requests |-> None]

Goto(r, label) == pc' = [pc EXCEPT ![r] = label]

Return(r, answer) ==
    /\ Goto(r, "done")
    /\ reply' = [reply EXCEPT ![r] = answer]

Registered == {g \in Registrations : reply[g] = "ok"}

\* The request arrives; the checks that need no storage come first, the address before the
\* password.
Begin(r, email, p, device, label) ==
    LET input == [Blank EXCEPT !.email = Normalized(email), !.password = p,
                               !.device = device, !.known = Registered]
    IN
    /\ pc[r] = "idle"
    /\ local' = [local EXCEPT ![r] = input]
    /\ IF ValidEmail(input.email) /\ ValidPassword(p)
       THEN Goto(r, label) /\ UNCHANGED reply
       ELSE Return(r, "invalidInput")
    /\ UNCHANGED <<users, sessions>>

-----------------------------------------------------------------------------
(* Register.                                                               *)

StartRegister(r, email, p) == Begin(r, email, p, 0, "hash")

HashPassword(r) ==
    /\ pc[r] = "hash"
    /\ local' = [local EXCEPT ![r].hash = Hash(r, local[r].password)]
    /\ Goto(r, "createUser")
    /\ UNCHANGED <<users, sessions, reply>>

\* The unique index is one on lower(email).
Lower(email) == [email EXCEPT !.spelling = IF @ = "capitals" THEN "plain" ELSE @]

Taken(email) == \E other \in Typed : users[other] # None /\ Lower(other) = Lower(email)

\* The answer to the commit may be lost.
CreateUser(r) ==
    LET email == local[r].email IN
    /\ pc[r] = "createUser"
    /\ \/ /\ Taken(email)
          /\ Return(r, "exists")
          /\ UNCHANGED users
       \/ /\ ~Taken(email)
          /\ users' = [users EXCEPT ![email] = [hash |-> local[r].hash, verified |-> FALSE]]
          /\ \E answer \in {"ok", "failed"} : Return(r, answer)
    /\ UNCHANGED <<sessions, local>>

\* The address is confirmed (EmailVerification).
ConfirmEmail(email) ==
    /\ users[email] # None
    /\ ~users[email].verified
    /\ users' = [users EXCEPT ![email].verified = TRUE]
    /\ UNCHANGED <<sessions, pc, local, reply>>

-----------------------------------------------------------------------------
(* Login.                                                                  *)

StartLogin(r, email, p, device) == Begin(r, email, p, device, "getUser")

GetUserForLogin(r) ==
    LET user == users[local[r].email] IN
    /\ pc[r] = "getUser"
    /\ \/ /\ user = None
          /\ Return(r, "invalidCredentials")
          /\ UNCHANGED local
       \/ /\ user # None
          /\ local' = [local EXCEPT ![r].user = user]
          /\ Goto(r, "verify")
          /\ UNCHANGED reply
    /\ UNCHANGED <<users, sessions>>

\* The checks on what was read, in their order.
\* (Faulty variant: the confirmation is not asked for.)
RefusalUnconfirmed(r) ==
    LET user == local[r].user IN
    IF ~Verify(r, user.hash, local[r].password) THEN "invalidCredentials" ELSE
    IF ~ValidDevice(local[r].device) THEN "invalidInput" ELSE None
Refusal(r) ==
    LET user == local[r].user IN
    IF ~Verify(r, user.hash, local[r].password) THEN "invalidCredentials" ELSE
    IF ~user.verified THEN "notVerified"  ELSE
    IF ~ValidDevice(local[r].device) THEN "invalidInput" ELSE None

VerifyPassword(r) ==
    /\ pc[r] = "verify"
    /\ IF Refusal(r) # None
       THEN Return(r, Refusal(r))
       ELSE Goto(r, "createSession") /\ UNCHANGED reply
    /\ UNCHANGED <<users, sessions, local>>

CreateSession(r) ==
    /\ pc[r] = "createSession"
    /\ sessions' = sessions \cup {r}
    /\ Return(r, "ok")
    /\ UNCHANGED <<users, local>>

\* A statement fails or the request is cancelled.
Abort(r) ==
    /\ pc[r] \notin {"idle", "done"}
    /\ Return(r, "failed")
    /\ UNCHANGED <<users, sessions, local>>

-----------------------------------------------------------------------------
Next ==
    \/ \E email \in Typed, p \in Passwords :
          \/ \E r \in Registrations : StartRegister(r, email, p)
          \/ \E r \in Logins, n \in DeviceLengths : StartLogin(r, email, p, n)
    \/ \E email \in Typed : ConfirmEmail(email)
    \/ \E r \in Requests : \/ HashPassword(r) \/ CreateUser(r)
                           \/ GetUserForLogin(r) \/ VerifyPassword(r) \/ CreateSession(r)
                           \/ Abort(r)

Spec == Init /\ [][Next]_vars

-----------------------------------------------------------------------------
(* Properties.                                                             *)

\* r and g mean one address and one password, however they were typed.
SameCredentials(r, g) ==
    /\ local[r].email.address = local[g].email.address
    /\ local[r].password = local[g].password

\* One person has one account: an address that differs only in capitals or in spaces is
\* taken.
OneAccountPerAddress ==
    \A g, h \in Registered :
        local[g].email.address = local[h].email.address => g = h

\* A session is opened for the user who registered with the same address and password,
\* and who has confirmed the address.
SessionIsEarned ==
    \A r \in sessions :
        \E g \in Registrations :
            /\ local[g].hash # None
            /\ SameCredentials(r, g)
            /\ users[local[g].email] # None
            /\ users[local[g].email].hash = local[g].hash
            /\ users[local[g].email].verified

\* Who has registered can log in: with the same credentials, in any spelling that is one,
\* a login is refused only for want of the confirmation or for its device name.
NobodyLockedOut ==
    \A r \in Logins : \A g \in local[r].known :
        SameCredentials(r, g) /\ local[r].email.spelling # "named"
        => /\ reply[r] # "invalidCredentials"
           /\ reply[r] = "invalidInput" => ~ValidDevice(local[r].device)
=============================================================================
