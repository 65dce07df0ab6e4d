---------------------------- MODULE AccountsProofs ----------------------------
(***************************************************************************)
(* Proofs about Accounts, for any number of requests, addresses and        *)
(* passwords and for any limits on their lengths.                          *)
(***************************************************************************)
EXTENDS Accounts, TLAPS

-----------------------------------------------------------------------------
(* The inductive invariant.                                                *)

Labels == {"idle", "hash", "createUser", "getUser", "verify", "createSession", "done"}

Locals == [email : Typed \cup {None}, password : Passwords \cup {None}, device : Nat,
           user : Users \cup {None}, hash : Hashes \cup {None}, known : SUBSET Registrations]

TypeOK ==
    /\ users \in [Typed -> Users \cup {None}]
    /\ sessions \subseteq Logins
    /\ pc \in [Requests -> Labels]
    /\ local \in [Requests -> Locals]
    /\ reply \in [Requests -> Answers \cup {None}]

\* The input of r has passed the checks that need no storage.
Checked(r) == ValidEmail(local[r].email) /\ ValidPassword(local[r].password)

\* A request that has begun knows its input, with the address in one spelling.
InputOK(r) ==
    /\ r \in Registrations => pc[r] \in {"idle", "hash", "createUser", "done"}
    /\ r \in Logins => pc[r] \in {"idle", "getUser", "verify", "createSession", "done"}
    /\ pc[r] # "idle" =>
          /\ local[r].email \in Typed /\ local[r].password \in Passwords
          /\ local[r].email.spelling \in {"plain", "named"}
    /\ pc[r] # "done" => reply[r] = None
    /\ pc[r] \notin {"idle", "done"} \/ reply[r] = "ok" => Checked(r)

\* What a registration inserts is the hash of its own password, and after the answer the
\* row is there.
RegistrationOK(g) ==
    /\ pc[g] = "createUser" \/ reply[g] = "ok" => local[g].hash = Hash(g, local[g].password)
    /\ reply[g] = "ok" =>
          users[local[g].email] # None /\ users[local[g].email].hash = local[g].hash

\* Every row is that of a registration that has come to its end.
RowOK(email) ==
    users[email] # None =>
        \E g \in Registrations :
            /\ pc[g] = "done"
            /\ local[g].email = email
            /\ local[g].hash = Hash(g, local[g].password)
            /\ users[email].hash = local[g].hash

\* The row that a login has read is still there, with its hash, and once confirmed it stays
\* confirmed.
LoginOK(r) ==
    /\ pc[r] \in {"verify", "createSession"} =>
          /\ local[r].user \in Users
          /\ users[local[r].email] # None
          /\ users[local[r].email].hash = local[r].user.hash
          /\ local[r].user.verified => users[local[r].email].verified
    /\ pc[r] = "createSession" => Refusal(r) = None
    /\ local[r].known \subseteq Registered

\* The session of r was opened with the password of the row, which is confirmed.
SessionOK(r) ==
    /\ pc[r] = "done"
    /\ users[local[r].email] # None
    /\ users[local[r].email].verified
    /\ Verify(r, users[local[r].email].hash, local[r].password)

NotLockedOut(r) ==
    \A g \in local[r].known :
        SameCredentials(r, g) /\ local[r].email.spelling # "named"
        => /\ reply[r] # "invalidCredentials"
           /\ reply[r] = "invalidInput" => ~ValidDevice(local[r].device)

IInv ==
    /\ TypeOK
    /\ \A r \in Requests : InputOK(r)
    /\ \A g \in Registrations : RegistrationOK(g)
    /\ \A email \in Typed : RowOK(email)
    /\ \A r \in Logins : LoginOK(r) /\ NotLockedOut(r)
    /\ \A r \in sessions : SessionOK(r)

-----------------------------------------------------------------------------
(* Inputs.                                                                 *)

LEMMA NormalizedFacts ==
    ASSUME NEW email \in Typed
    PROVE  /\ Normalized(email) \in Typed
           /\ Normalized(email).address = email.address
           /\ Normalized(email).spelling \in {"plain", "named"}
  BY DEF Normalized, Typed, Spellings

\* Two valid addresses that differ only in their spelling are one text.
LEMMA OneSpelling ==
    ASSUME NEW e \in Typed, NEW f \in Typed, e.address = f.address,
           e.spelling = "plain", f.spelling = "plain"
    PROVE  e = f
  BY DEF Typed

LEMMA SetFacts ==
    /\ \A g \in Registrations : g \in Requests /\ g \notin Logins
    /\ \A r \in Logins : r \in Requests /\ r \notin Registrations
    /\ \A r \in Requests : r \in Registrations \/ r \in Logins
    /\ None \notin Typed /\ None \notin Passwords /\ None \notin Hashes /\ None \notin Users
    /\ None \notin Answers /\ None \notin Requests
  BY AccountsAssumption DEF Requests

\* A hash tells who made it and from which password.
LEMMA HashFacts ==
    ASSUME NEW g \in Registrations, NEW p \in Passwords
    PROVE  /\ Hash(g, p) \in Hashes
           /\ Hash(g, p).salt = g
           /\ \A r, q : Verify(r, Hash(g, p), q) <=> q = p
  BY DEF Hash, Hashes, Verify

-----------------------------------------------------------------------------
(* Steps seen from the requests that do not take them.                     *)

Frame(r) ==
    \A q \in Requests : q # r =>
        pc'[q] = pc[q] /\ local'[q] = local[q] /\ reply'[q] = reply[q]

\* Rows stay, with their hashes, and what is confirmed stays confirmed.
Grows ==
    \A email \in Typed : users[email] # None =>
        /\ users'[email] # None
        /\ users'[email].hash = users[email].hash
        /\ users[email].verified => users'[email].verified

\* A registration that was answered does not change any more.
LEMMA AnsweredStays ==
    ASSUME IInv, NEW r, r \in Requests => pc[r] # "done", Frame(r)
    PROVE  \A g \in Registered : g \in Registered' /\ local'[g] = local[g]
<1>1. ASSUME NEW g \in Registrations, reply[g] = "ok" PROVE g # r /\ g \in Requests
  BY <1>1, SetFacts DEF IInv, InputOK, Answers
<1> QED BY <1>1 DEF Registered, Frame

LEMMA OtherRequestOK ==
    ASSUME IInv, NEW r, r \in Requests => pc[r] # "done", Frame(r), Grows,
           NEW q \in Requests, q # r
    PROVE  /\ InputOK(q)'
           /\ q \in Registrations => RegistrationOK(q)'
           /\ q \in Logins => LoginOK(q)' /\ NotLockedOut(q)'
<1>1. /\ pc'[q] = pc[q] /\ local'[q] = local[q] /\ reply'[q] = reply[q]
      /\ InputOK(q)
      /\ q \in Registrations => RegistrationOK(q)
      /\ q \in Logins => LoginOK(q) /\ NotLockedOut(q)
  BY DEF Frame, IInv
<1>2. InputOK(q)'
  BY <1>1 DEF InputOK, Checked
<1>3. ASSUME q \in Registrations PROVE RegistrationOK(q)'
  <2>1. reply[q] = "ok" => local[q].email \in Typed
    BY <1>1, <1>3, SetFacts DEF InputOK, Answers
  <2> QED BY <1>1, <1>3, <2>1 DEF RegistrationOK, Grows
<1>4. ASSUME q \in Logins PROVE LoginOK(q)' /\ NotLockedOut(q)'
  <2>1. local'[q].known \subseteq Registered'
    BY <1>1, <1>4, AnsweredStays DEF LoginOK
  <2>2. pc[q] \in {"verify", "createSession"} => local[q].email \in Typed
    BY <1>1 DEF InputOK
  <2>3. LoginOK(q)'
    BY <1>1, <1>4, <2>1, <2>2 DEF LoginOK, Grows, Refusal
  <2>4. \A g \in local[q].known : local'[g] = local[g]
    BY <1>1, <1>4, AnsweredStays DEF LoginOK
  <2>5. NotLockedOut(q)'
    BY <1>1, <1>4, <2>4 DEF NotLockedOut, SameCredentials
  <2> QED BY <2>3, <2>5
<1> QED BY <1>2, <1>3, <1>4

LEMMA OldSessionsOK ==
    ASSUME IInv, NEW r, r \in Requests => pc[r] # "done", Frame(r), Grows
    PROVE  \A q \in sessions : SessionOK(q)'
<1> SUFFICES ASSUME NEW q \in sessions PROVE SessionOK(q)'
  OBVIOUS
<1>1. SessionOK(q) /\ q \in Requests /\ InputOK(q)
  BY SetFacts DEF IInv, TypeOK
<1>2. q # r /\ local[q].email \in Typed
  BY <1>1 DEF SessionOK, InputOK
<1>3. pc'[q] = pc[q] /\ local'[q] = local[q]
  BY <1>1, <1>2 DEF Frame
<1> QED BY <1>1, <1>2, <1>3 DEF SessionOK, Grows, Verify

LEMMA RowStays ==
    ASSUME IInv, NEW r, r \in Requests => pc[r] # "done", Frame(r),
           NEW email \in Typed, RowOK(email),
           users'[email] # None => users[email] # None /\ users'[email].hash = users[email].hash
    PROVE  RowOK(email)'
<1> SUFFICES ASSUME users'[email] # None
             PROVE  \E g \in Registrations :
                       /\ pc'[g] = "done" /\ local'[g].email = email
                       /\ local'[g].hash = Hash(g, local'[g].password)
                       /\ users'[email].hash = local'[g].hash
  BY DEF RowOK
<1>1. PICK g \in Registrations :
         /\ pc[g] = "done" /\ local[g].email = email
         /\ local[g].hash = Hash(g, local[g].password)
         /\ users[email].hash = local[g].hash
  BY DEF RowOK
<1>2. g \in Requests /\ g # r
  BY <1>1, SetFacts
<1>3. pc'[g] = pc[g] /\ local'[g] = local[g]
  BY <1>2 DEF Frame
<1> QED BY <1>1, <1>3

\* A step of r that leaves the tables alone.
LEMMA QuietStep ==
    ASSUME IInv, NEW r \in Requests, pc[r] # "done", Frame(r), UNCHANGED <<users, sessions>>,
           TypeOK', InputOK(r)', r \in Registrations => RegistrationOK(r)',
           r \in Logins => LoginOK(r)' /\ NotLockedOut(r)'
    PROVE  IInv'
<1>1. Grows
  BY DEF Grows
<1>2. \A q \in Requests : /\ InputOK(q)'
                          /\ q \in Registrations => RegistrationOK(q)'
                          /\ q \in Logins => LoginOK(q)' /\ NotLockedOut(q)'
  BY <1>1, OtherRequestOK
<1>3. \A q \in sessions : SessionOK(q)'
  BY <1>1, OldSessionsOK
<1>4. \A email \in Typed : RowOK(email)'
  BY RowStays DEF IInv
<1> QED BY <1>2, <1>3, <1>4, SetFacts DEF IInv

-----------------------------------------------------------------------------
(* The steps.                                                              *)

LEMMA StringFacts == Answers \cap {None} = {} /\ \A answer \in Answers : answer # None
  BY SetFacts

\* The two ways a request goes on: to another label, or to its answer.
LEMMA GoesOn ==
    ASSUME TypeOK, NEW r \in Requests, NEW label \in Labels, Goto(r, label), UNCHANGED reply
    PROVE  /\ pc' \in [Requests -> Labels] /\ pc'[r] = label
           /\ \A q \in Requests : q # r => pc'[q] = pc[q]
           /\ reply' = reply
  BY DEF TypeOK, Goto

LEMMA Returns ==
    ASSUME TypeOK, NEW r \in Requests, NEW answer \in Answers, Return(r, answer)
    PROVE  /\ pc' \in [Requests -> Labels] /\ pc'[r] = "done"
           /\ reply' \in [Requests -> Answers \cup {None}] /\ reply'[r] = answer
           /\ \A q \in Requests : q # r => pc'[q] = pc[q] /\ reply'[q] = reply[q]
  BY DEF TypeOK, Goto, Return, Labels

LEMMA BeginKeeps ==
    ASSUME IInv, NEW r \in Requests, NEW email \in Typed, NEW p \in Passwords, NEW device \in Nat,
           NEW label \in {"hash", "getUser"},
           r \in Registrations <=> label = "hash",
           Begin(r, email, p, device, label)
    PROVE  IInv'
<1> DEFINE input == [Blank EXCEPT !.email = Normalized(email), !.password = p,
                                  !.device = device, !.known = Registered]
           e == Normalized(email)
<1>1. /\ pc[r] = "idle" /\ reply[r] = None
      /\ local' = [local EXCEPT ![r] = input] /\ UNCHANGED <<users, sessions>>
  BY DEF Begin, IInv, InputOK
<1>2. /\ input.email = e /\ input.password = p /\ input.device = device /\ input.known = Registered
      /\ input \in Locals
  BY NormalizedFacts DEF Blank, Locals, Registered
<1>3. e \in Typed /\ e.spelling \in {"plain", "named"}
  BY NormalizedFacts
<1>4. \/ ValidEmail(e) /\ ValidPassword(p) /\ Goto(r, label) /\ reply' = reply
      \/ ~(ValidEmail(e) /\ ValidPassword(p)) /\ Return(r, "invalidInput")
  BY <1>2 DEF Begin
<1> HIDE DEF input, e
<1>5. /\ local' \in [Requests -> Locals] /\ local'[r] = input
      /\ \A q \in Requests : q # r => local'[q] = local[q]
  BY <1>1, <1>2 DEF IInv, TypeOK
<1>6. /\ pc' \in [Requests -> Labels] /\ reply' \in [Requests -> Answers \cup {None}]
      /\ \A q \in Requests : q # r => pc'[q] = pc[q] /\ reply'[q] = reply[q]
      /\ \/ ValidEmail(e) /\ ValidPassword(p) /\ pc'[r] = label /\ reply'[r] = None
         \/ ~(ValidEmail(e) /\ ValidPassword(p)) /\ pc'[r] = "done" /\ reply'[r] = "invalidInput"
  <2>1. CASE ValidEmail(e) /\ ValidPassword(p) /\ Goto(r, label) /\ reply' = reply
    BY <1>1, <2>1, GoesOn DEF IInv, TypeOK, Labels
  <2>2. CASE ~(ValidEmail(e) /\ ValidPassword(p)) /\ Return(r, "invalidInput")
    BY <2>2, Returns DEF IInv, Answers
  <2> QED BY <1>4, <2>1, <2>2
<1>7. TypeOK' /\ Frame(r)
  BY <1>1, <1>5, <1>6 DEF IInv, TypeOK, Frame
<1>8. InputOK(r)'
  BY <1>2, <1>3, <1>5, <1>6, SetFacts DEF InputOK, Checked, Answers
<1>9. r \in Registrations => RegistrationOK(r)'
  BY <1>6, SetFacts DEF RegistrationOK, Answers
<1>10. ASSUME r \in Logins PROVE LoginOK(r)' /\ NotLockedOut(r)'
  <2>1. Registered \subseteq Registered' /\ \A g \in Registered : local'[g] = local[g]
    BY <1>1, <1>7, AnsweredStays
  <2>2. LoginOK(r)'
    BY <1>2, <1>5, <1>6, <2>1 DEF LoginOK
  <2>3. ASSUME NEW g \in Registered, local'[r].email.address = local'[g].email.address,
               local'[r].password = local'[g].password, local'[r].email.spelling # "named"
        PROVE  reply'[r] # "invalidCredentials" /\ reply'[r] # "invalidInput"
    <3>1. Checked(g)
      BY SetFacts DEF IInv, InputOK, Registered
    <3>2. ValidEmail(e) /\ ValidPassword(p)
      BY <1>2, <1>5, <2>1, <2>3, <3>1 DEF Checked, ValidEmail, ValidPassword
    <3> QED BY <1>6, <3>2, SetFacts DEF Answers
  <2>4. NotLockedOut(r)'
    BY <1>2, <1>5, <2>3 DEF NotLockedOut, SameCredentials
  <2> QED BY <2>2, <2>4
<1> QED BY <1>1, <1>7, <1>8, <1>9, <1>10, QuietStep

LEMMA HashPasswordKeeps ==
    ASSUME IInv, NEW r \in Requests, HashPassword(r)
    PROVE  IInv'
<1> DEFINE new == [local[r] EXCEPT !.hash = Hash(r, local[r].password)]
<1>1. /\ pc[r] = "hash" /\ Goto(r, "createUser") /\ UNCHANGED <<users, sessions, reply>>
      /\ local' = [local EXCEPT ![r] = new] /\ local[r] \in Locals
  BY DEF HashPassword, IInv, TypeOK
<1>2. /\ r \in Registrations /\ r \notin Logins /\ reply[r] = None
      /\ local[r].password \in Passwords /\ local[r].email \in Typed
      /\ local[r].email.spelling \in {"plain", "named"} /\ Checked(r)
  BY <1>1, SetFacts DEF IInv, InputOK
<1>3. /\ new \in Locals /\ new.hash = Hash(r, local[r].password)
      /\ new.password = local[r].password /\ new.email = local[r].email
  BY <1>1, <1>2, HashFacts DEF Locals
<1> HIDE DEF new
<1>4. /\ pc' \in [Requests -> Labels] /\ pc'[r] = "createUser" /\ reply'[r] = reply[r]
      /\ \A q \in Requests : q # r => pc'[q] = pc[q]
  BY <1>1, GoesOn DEF IInv, Labels
<1>5. TypeOK' /\ Frame(r) /\ local'[r] = new
  BY <1>1, <1>3, <1>4 DEF IInv, TypeOK, Frame
<1>6. InputOK(r)'
  BY <1>2, <1>3, <1>4, <1>5 DEF InputOK, Checked
<1>7. RegistrationOK(r)'
  BY <1>2, <1>3, <1>4, <1>5, SetFacts DEF RegistrationOK, Answers
<1> QED BY <1>1, <1>2, <1>5, <1>6, <1>7, QuietStep

\* A step that only ends a request: with an answer that promises nothing, or that the
\* refusals allow.
LEMMA QuietReturn ==
    ASSUME IInv, NEW r \in Requests, pc[r] \notin {"idle", "done"},
           NEW answer \in Answers \ {"ok"}, Return(r, answer),
           UNCHANGED <<users, sessions, local>>,
           r \in Logins => \A g \in local[r].known :
               SameCredentials(r, g) /\ local[r].email.spelling # "named"
               => /\ answer # "invalidCredentials"
                  /\ answer = "invalidInput" => ~ValidDevice(local[r].device)
    PROVE  IInv'
<1>1. /\ pc' \in [Requests -> Labels] /\ pc'[r] = "done"
      /\ reply' \in [Requests -> Answers \cup {None}] /\ reply'[r] = answer
      /\ \A q \in Requests : q # r => pc'[q] = pc[q] /\ reply'[q] = reply[q]
  BY Returns DEF IInv
<1>2. TypeOK' /\ Frame(r)
  BY <1>1 DEF IInv, TypeOK, Frame
<1>3. InputOK(r)'
  BY <1>1 DEF IInv, InputOK
<1>4. RegistrationOK(r)'
  BY <1>1 DEF RegistrationOK
<1>5. ASSUME r \in Logins PROVE LoginOK(r)' /\ NotLockedOut(r)'
  <2>1. Registered \subseteq Registered'
    BY <1>2, AnsweredStays
  <2>2. LoginOK(r)'
    BY <1>1, <1>5, <2>1 DEF IInv, LoginOK
  <2>3. NotLockedOut(r)'
    BY <1>1, <1>5 DEF NotLockedOut, SameCredentials
  <2> QED BY <2>2, <2>3
<1> QED BY <1>2, <1>3, <1>4, <1>5, QuietStep

LEMMA AbortKeeps ==
    ASSUME IInv, NEW r \in Requests, Abort(r)
    PROVE  IInv'
<1>1. "failed" \in Answers \ {"ok"}
  BY DEF Answers
<1> QED BY <1>1, QuietReturn DEF Abort

\* What a login can rely on when it has the credentials of an answered registration.
LEMMA KnownRow ==
    ASSUME IInv, NEW r \in Logins, pc[r] \in {"getUser", "verify", "createSession"},
           NEW g \in local[r].known, SameCredentials(r, g)
    PROVE  /\ users[local[r].email] # None
           /\ users[local[r].email].hash = Hash(g, local[r].password)
           /\ local[r].password \in Passwords /\ g \in Registrations
<1>1. g \in Registrations /\ reply[g] = "ok" /\ g \in Requests /\ r \in Requests
  BY SetFacts DEF IInv, LoginOK, Registered
<1>2. RegistrationOK(g) /\ InputOK(g) /\ InputOK(r)
  BY <1>1 DEF IInv
<1>3. local[g].email \in Typed /\ local[g].email.spelling = "plain"
  BY <1>1, <1>2, SetFacts DEF InputOK, Checked, ValidEmail, Answers
<1>4. local[r].email \in Typed /\ local[r].email.spelling = "plain" /\ local[r].password \in Passwords
  BY <1>2 DEF InputOK, Checked, ValidEmail
<1>5. local[g].email = local[r].email
  BY <1>3, <1>4, OneSpelling DEF SameCredentials
<1> QED BY <1>1, <1>2, <1>4, <1>5 DEF RegistrationOK, SameCredentials

LEMMA GetUserForLoginKeeps ==
    ASSUME IInv, NEW r \in Requests, GetUserForLogin(r)
    PROVE  IInv'
<1> DEFINE user == users[local[r].email]
           new == [local[r] EXCEPT !.user = user]
<1>1. pc[r] = "getUser" /\ UNCHANGED <<users, sessions>>
  BY DEF GetUserForLogin
<1>2. /\ r \in Logins /\ r \notin Registrations /\ reply[r] = None /\ InputOK(r)
      /\ local[r].email \in Typed /\ local[r] \in Locals
  BY <1>1, SetFacts DEF IInv, InputOK, TypeOK
<1>3. CASE user = None /\ Return(r, "invalidCredentials") /\ UNCHANGED local
  <2>1. "invalidCredentials" \in Answers \ {"ok"}
    BY DEF Answers
  <2>2. \A g \in local[r].known : ~SameCredentials(r, g)
    BY <1>1, <1>2, <1>3, KnownRow
  <2> QED BY <1>1, <1>3, <2>1, <2>2, QuietReturn
<1>4. CASE /\ user # None /\ local' = [local EXCEPT ![r].user = user]
           /\ Goto(r, "verify") /\ UNCHANGED reply
  <2>1. user \in Users
    BY <1>2, <1>4 DEF IInv, TypeOK
  <2>2. /\ new \in Locals /\ new.user = user /\ new.email = local[r].email
        /\ new.password = local[r].password /\ new.known = local[r].known
        /\ new.device = local[r].device
    BY <1>2, <2>1 DEF Locals
  <2>3. local' = [local EXCEPT ![r] = new]
    BY <1>2, <1>4 DEF IInv, TypeOK
  <2>4. /\ pc' \in [Requests -> Labels] /\ pc'[r] = "verify" /\ reply'[r] = reply[r]
        /\ \A q \in Requests : q # r => pc'[q] = pc[q]
    BY <1>4, GoesOn DEF IInv, Labels
  <2> HIDE DEF new
  <2>5. TypeOK' /\ Frame(r) /\ local'[r] = new
    BY <1>1, <1>4, <2>2, <2>3, <2>4 DEF IInv, TypeOK, Frame
  <2>6. InputOK(r)'
    BY <1>1, <1>2, <2>2, <2>4, <2>5, SetFacts DEF InputOK, Checked
  <2>7. Registered \subseteq Registered'
    BY <1>1, <2>5, AnsweredStays
  <2>8. LoginOK(r)'
    BY <1>1, <1>2, <1>4, <2>1, <2>2, <2>4, <2>5, <2>7 DEF IInv, LoginOK
  <2>9. NotLockedOut(r)'
    BY <1>2, <2>4, SetFacts DEF NotLockedOut, Answers
  <2> QED BY <1>1, <1>2, <2>5, <2>6, <2>8, <2>9, QuietStep
<1> QED BY <1>3, <1>4 DEF GetUserForLogin

LEMMA VerifyPasswordKeeps ==
    ASSUME IInv, NEW r \in Requests, VerifyPassword(r)
    PROVE  IInv'
<1>1. pc[r] = "verify" /\ UNCHANGED <<users, sessions, local>>
  BY DEF VerifyPassword
<1>2. r \in Logins /\ r \notin Registrations /\ reply[r] = None /\ InputOK(r) /\ LoginOK(r)
  BY <1>1, SetFacts DEF IInv, InputOK
<1>3. CASE Refusal(r) # None /\ Return(r, Refusal(r))
  <2>1. Refusal(r) \in Answers \ {"ok"}
    BY <1>3 DEF Refusal, Answers
  <2>2. ASSUME NEW g \in local[r].known, SameCredentials(r, g)
        PROVE  /\ Refusal(r) # "invalidCredentials"
               /\ Refusal(r) = "invalidInput" => ~ValidDevice(local[r].device)
    <3>1. local[r].user.hash = Hash(g, local[r].password) /\ g \in Registrations
             /\ local[r].password \in Passwords
      BY <1>1, <1>2, <2>2, KnownRow DEF LoginOK
    <3>2. Verify(r, local[r].user.hash, local[r].password)
      BY <3>1, HashFacts
    <3> QED BY <3>2, SetFacts DEF Refusal, Answers
  <2> QED BY <1>1, <1>3, <2>1, <2>2, QuietReturn
<1>4. CASE Refusal(r) = None /\ Goto(r, "createSession") /\ UNCHANGED reply
  <2>1. /\ pc' \in [Requests -> Labels] /\ pc'[r] = "createSession" /\ reply'[r] = None
        /\ \A q \in Requests : q # r => pc'[q] = pc[q]
    BY <1>2, <1>4, GoesOn DEF IInv, Labels
  <2>2. TypeOK' /\ Frame(r)
    BY <1>1, <1>4, <2>1 DEF IInv, TypeOK, Frame
  <2>3. InputOK(r)'
    BY <1>1, <1>2, <2>1, SetFacts DEF InputOK, Checked
  <2>4. Registered' = Registered
    BY <1>4 DEF Registered
  <2>5. LoginOK(r)'
    BY <1>1, <1>2, <1>4, <2>1, <2>4 DEF LoginOK, Refusal, Verify
  <2>6. NotLockedOut(r)'
    BY <2>1, SetFacts DEF NotLockedOut, Answers
  <2> QED BY <1>1, <1>2, <2>2, <2>3, <2>5, <2>6, QuietStep
<1> QED BY <1>3, <1>4 DEF VerifyPassword

LEMMA CreateUserKeeps ==
    ASSUME IInv, NEW r \in Requests, CreateUser(r)
    PROVE  IInv'
<1> DEFINE e == local[r].email
           row == [hash |-> local[r].hash, verified |-> FALSE]
<1>1. pc[r] = "createUser" /\ UNCHANGED <<sessions, local>>
  BY DEF CreateUser
<1>2. /\ r \in Registrations /\ r \notin Logins /\ InputOK(r) /\ RegistrationOK(r)
      /\ e \in Typed /\ local[r].password \in Passwords
  BY <1>1, SetFacts DEF IInv, InputOK
<1>3. CASE Return(r, "exists") /\ UNCHANGED users
  <2>1. "exists" \in Answers \ {"ok"}
    BY DEF Answers
  <2> QED BY <1>1, <1>2, <1>3, <2>1, QuietReturn
<1>4. CASE /\ ~Taken(e)
           /\ users' = [users EXCEPT ![e] = row]
           /\ \E answer \in {"ok", "failed"} : Return(r, answer)
  <2>1. users[e] = None
    BY <1>2, <1>4 DEF Taken
  <2>2. local[r].hash = Hash(r, local[r].password)
    BY <1>1, <1>2 DEF RegistrationOK
  <2>3. row \in Users /\ row.hash = local[r].hash
    BY <1>2, <2>2, HashFacts DEF Users
  <2>4. row # None
    BY <2>3, SetFacts
  <2> HIDE DEF row
  <2>5. /\ users' \in [Typed -> Users \cup {None}] /\ users'[e] = row
        /\ \A email \in Typed : email # e => users'[email] = users[email]
    BY <1>2, <1>4, <2>3 DEF IInv, TypeOK
  <2>6. PICK answer \in {"ok", "failed"} : Return(r, answer)
    BY <1>4
  <2>7. /\ pc' \in [Requests -> Labels] /\ pc'[r] = "done"
        /\ reply' \in [Requests -> Answers \cup {None}] /\ reply'[r] = answer
        /\ \A q \in Requests : q # r => pc'[q] = pc[q] /\ reply'[q] = reply[q]
    <3>1. answer \in Answers
      BY DEF Answers
    <3> QED BY <2>6, <3>1, Returns DEF IInv
  <2>8. TypeOK' /\ Frame(r) /\ Grows
    BY <1>1, <2>1, <2>5, <2>7 DEF IInv, TypeOK, Frame, Grows
  <2>9. InputOK(r)'
    BY <1>1, <1>2, <2>7 DEF InputOK, Checked
  <2>10. RegistrationOK(r)'
    BY <1>1, <2>2, <2>3, <2>4, <2>5 DEF RegistrationOK
  <2>11. \A q \in Requests : /\ InputOK(q)'
                             /\ q \in Registrations => RegistrationOK(q)'
                             /\ q \in Logins => LoginOK(q)' /\ NotLockedOut(q)'
    BY <1>1, <1>2, <2>8, <2>9, <2>10, OtherRequestOK
  <2>12. \A q \in sessions : SessionOK(q)'
    BY <1>1, <2>8, OldSessionsOK
  <2>13. ASSUME NEW email \in Typed PROVE RowOK(email)'
    <3>1. CASE email = e
      BY <1>1, <1>2, <2>2, <2>3, <2>5, <2>7, <3>1 DEF RowOK
    <3>2. CASE email # e
      BY <1>1, <2>5, <2>8, <3>2, RowStays DEF IInv
    <3> QED BY <3>1, <3>2
  <2> QED BY <1>1, <2>8, <2>11, <2>12, <2>13, SetFacts DEF IInv
<1> QED BY <1>3, <1>4 DEF CreateUser

LEMMA ConfirmEmailKeeps ==
    ASSUME IInv, NEW e \in Typed, ConfirmEmail(e)
    PROVE  IInv'
<1> DEFINE row == [users[e] EXCEPT !.verified = TRUE]
<1>1. users[e] \in Users /\ UNCHANGED <<sessions, pc, local, reply>>
  BY DEF ConfirmEmail, IInv, TypeOK
<1>2. row \in Users /\ row.hash = users[e].hash /\ row.verified = TRUE
  BY <1>1 DEF Users
<1>3. users' = [users EXCEPT ![e] = row]
  BY DEF ConfirmEmail, IInv, TypeOK
<1>4. row # None
  BY <1>2, SetFacts
<1> HIDE DEF row
<1>5. /\ users' \in [Typed -> Users \cup {None}] /\ users'[e] = row /\ users[e] # None
      /\ \A email \in Typed : email # e => users'[email] = users[email]
  BY <1>2, <1>3 DEF IInv, TypeOK, ConfirmEmail
<1>6. TypeOK'
  BY <1>1, <1>5 DEF IInv, TypeOK
<1>7. Grows
  BY <1>2, <1>4, <1>5 DEF Grows
<1>8. None \notin Requests /\ Frame(None)
  BY <1>1, SetFacts DEF Frame
<1>9. \A q \in Requests : /\ InputOK(q)'
                          /\ q \in Registrations => RegistrationOK(q)'
                          /\ q \in Logins => LoginOK(q)' /\ NotLockedOut(q)'
  BY <1>7, <1>8, OtherRequestOK
<1>10. \A q \in sessions : SessionOK(q)'
  BY <1>7, <1>8, OldSessionsOK
<1>11. \A email \in Typed : RowOK(email)'
  <2>1. ASSUME NEW email \in Typed, users'[email] # None
        PROVE  users[email] # None /\ users'[email].hash = users[email].hash
    BY <1>2, <1>5, <2>1
  <2> QED BY <1>8, <2>1, RowStays DEF IInv
<1> QED BY <1>1, <1>6, <1>9, <1>10, <1>11, SetFacts DEF IInv

LEMMA CreateSessionKeeps ==
    ASSUME IInv, NEW r \in Requests, CreateSession(r)
    PROVE  IInv'
<1>1. /\ pc[r] = "createSession" /\ sessions' = sessions \cup {r}
      /\ Return(r, "ok") /\ UNCHANGED <<users, local>>
  BY DEF CreateSession
<1>2. /\ r \in Logins /\ r \notin Registrations /\ InputOK(r) /\ LoginOK(r)
      /\ Checked(r) /\ local[r].user \in Users
  BY <1>1, SetFacts DEF IInv, InputOK, LoginOK
<1>3. /\ pc' \in [Requests -> Labels] /\ pc'[r] = "done"
      /\ reply' \in [Requests -> Answers \cup {None}] /\ reply'[r] = "ok"
      /\ \A q \in Requests : q # r => pc'[q] = pc[q] /\ reply'[q] = reply[q]
  <2>1. "ok" \in Answers
    BY DEF Answers
  <2> QED BY <1>1, <2>1, Returns DEF IInv
<1>4. TypeOK' /\ Frame(r) /\ Grows
  BY <1>1, <1>2, <1>3 DEF IInv, TypeOK, Frame, Grows
<1>5. InputOK(r)'
  BY <1>1, <1>2, <1>3 DEF InputOK, Checked
<1>6. LoginOK(r)' /\ NotLockedOut(r)'
  <2>1. Registered \subseteq Registered'
    BY <1>1, <1>4, AnsweredStays
  <2>2. LoginOK(r)'
    BY <1>1, <1>2, <1>3, <2>1 DEF LoginOK
  <2>3. NotLockedOut(r)'
    BY <1>3 DEF NotLockedOut
  <2> QED BY <2>2, <2>3
<1>7. \A q \in Requests : /\ InputOK(q)'
                          /\ q \in Registrations => RegistrationOK(q)'
                          /\ q \in Logins => LoginOK(q)' /\ NotLockedOut(q)'
  BY <1>1, <1>2, <1>4, <1>5, <1>6, OtherRequestOK
<1>8. SessionOK(r)'
  <2>1. Verify(r, local[r].user.hash, local[r].password) /\ local[r].user.verified
    <3>1. Refusal(r) = None
      BY <1>1, <1>2 DEF LoginOK
    <3>2. local[r].user.verified \in BOOLEAN
      BY <1>2 DEF Users
    <3> QED BY <3>1, <3>2, SetFacts DEF Refusal, Answers
  <2> QED BY <1>1, <1>2, <1>3, <2>1 DEF LoginOK, SessionOK, Verify
<1>9. \A q \in sessions' : SessionOK(q)'
  BY <1>1, <1>4, <1>8, OldSessionsOK
<1>10. \A email \in Typed : RowOK(email)'
  BY <1>1, <1>4, RowStays DEF IInv
<1> QED BY <1>4, <1>7, <1>9, <1>10, SetFacts DEF IInv

-----------------------------------------------------------------------------
(* The theorems.                                                           *)

LEMMA InitIInv == Init => IInv
<1> SUFFICES ASSUME Init PROVE IInv
  OBVIOUS
<1>1. Blank \in Locals /\ Blank.known = {}
  BY DEF Blank, Locals
<1>2. TypeOK
  BY <1>1 DEF Init, TypeOK, Labels
<1>3. ASSUME NEW r \in Requests PROVE InputOK(r)
  BY SetFacts DEF Init, InputOK, Answers
<1>4. ASSUME NEW g \in Registrations PROVE RegistrationOK(g)
  BY SetFacts DEF Init, RegistrationOK, Answers
<1>5. ASSUME NEW r \in Logins PROVE LoginOK(r) /\ NotLockedOut(r)
  BY <1>1, SetFacts DEF Init, LoginOK, NotLockedOut
<1>6. \A email \in Typed : RowOK(email)
  BY DEF Init, RowOK
<1> QED BY <1>2, <1>3, <1>4, <1>5, <1>6 DEF IInv, Init

LEMMA NextIInv == IInv /\ [Next]_vars => IInv'
<1> SUFFICES ASSUME IInv, [Next]_vars PROVE IInv'
  OBVIOUS
<1>1. CASE UNCHANGED vars
  BY <1>1 DEF vars, IInv, TypeOK, InputOK, Checked, RegistrationOK, RowOK, LoginOK, Refusal,
     Verify, Registered, NotLockedOut, SameCredentials, SessionOK
<1>2. ASSUME NEW email \in Typed, NEW p \in Passwords, NEW r \in Registrations,
             StartRegister(r, email, p)
      PROVE  IInv'
  <2>1. Begin(r, email, p, 0, "hash") /\ r \in Requests
    BY <1>2, SetFacts DEF StartRegister
  <2> QED BY <2>1, BeginKeeps
<1>3. ASSUME NEW email \in Typed, NEW p \in Passwords, NEW r \in Logins, NEW n \in DeviceLengths,
             StartLogin(r, email, p, n)
      PROVE  IInv'
  <2>1. Begin(r, email, p, n, "getUser") /\ r \in Requests /\ r \notin Registrations /\ n \in Nat
    BY <1>3, SetFacts, AccountsAssumption DEF StartLogin
  <2> QED BY <2>1, BeginKeeps
<1>4. ASSUME NEW email \in Typed, ConfirmEmail(email) PROVE IInv'
  BY <1>4, ConfirmEmailKeeps
<1>5. ASSUME NEW r \in Requests,
             \/ HashPassword(r) \/ CreateUser(r) \/ GetUserForLogin(r) \/ VerifyPassword(r)
             \/ CreateSession(r) \/ Abort(r)
      PROVE  IInv'
  BY <1>5, HashPasswordKeeps, CreateUserKeeps, GetUserForLoginKeeps, VerifyPasswordKeeps,
     CreateSessionKeeps, AbortKeeps
<1> QED BY <1>1, <1>2, <1>3, <1>4, <1>5 DEF Next

\* Every reachable state satisfies the inductive invariant: what Register and Login know of
\* the credentials of a request agrees with the table users.
THEOREM Invariance == Spec => []IInv
<1> QED BY InitIInv, NextIInv, PTL DEF Spec

\* Two answered registrations of one address, however it was typed, are one: the second is
\* refused by the unique index, because both come to it with the same text.
LEMMA AddressesAreOwned == IInv => OneAccountPerAddress
<1> SUFFICES ASSUME IInv, NEW g \in Registered, NEW h \in Registered,
                    local[g].email.address = local[h].email.address
             PROVE  g = h
  BY DEF OneAccountPerAddress
<1>1. ASSUME NEW k \in Registered
      PROVE  /\ k \in Registrations /\ local[k].email \in Typed
             /\ local[k].email.spelling = "plain"
             /\ users[local[k].email].hash.salt = k
  <2>1. k \in Registrations /\ reply[k] = "ok" /\ InputOK(k) /\ RegistrationOK(k)
    BY SetFacts DEF IInv, Registered
  <2>2. local[k].email \in Typed /\ local[k].email.spelling = "plain" /\ local[k].password \in Passwords
    BY <2>1, SetFacts DEF InputOK, Checked, ValidEmail, Answers
  <2> QED BY <2>1, <2>2, HashFacts DEF RegistrationOK
<1>2. local[g].email = local[h].email
  BY <1>1, OneSpelling
<1> QED BY <1>1, <1>2

\* The row that let a login in is the work of a registration with the same address and
\* password.
LEMMA SessionsAreEarned == IInv => SessionIsEarned
<1> SUFFICES ASSUME IInv, NEW r \in sessions
             PROVE  \E g \in Registrations :
                       /\ local[g].hash # None
                       /\ SameCredentials(r, g)
                       /\ users[local[g].email] # None
                       /\ users[local[g].email].hash = local[g].hash
                       /\ users[local[g].email].verified
  BY DEF SessionIsEarned
<1>1. r \in Requests /\ SessionOK(r) /\ InputOK(r) /\ local[r].email \in Typed
         /\ local[r].password \in Passwords
  BY SetFacts DEF IInv, TypeOK, SessionOK, InputOK
<1>2. PICK g \in Registrations :
         /\ pc[g] = "done" /\ local[g].email = local[r].email
         /\ local[g].hash = Hash(g, local[g].password)
         /\ users[local[r].email].hash = local[g].hash
  BY <1>1 DEF IInv, RowOK, SessionOK
<1>3. g \in Requests /\ InputOK(g) /\ local[g].password \in Passwords
  BY <1>2, SetFacts DEF IInv, InputOK
<1>4. local[r].password = local[g].password
  BY <1>1, <1>2, <1>3, HashFacts DEF SessionOK
<1>5. local[g].hash # None
  BY <1>2, <1>3, HashFacts, SetFacts
<1> QED BY <1>1, <1>2, <1>4, <1>5 DEF SameCredentials, SessionOK

\* Register and its unique index: one address, in whatever spelling, belongs to one answered
\* registration.
THEOREM OneOwner == Spec => []OneAccountPerAddress
<1> QED BY Invariance, AddressesAreOwned, PTL

\* Login: a session belongs to a registration with its address and password, confirmed.
THEOREM Earned == Spec => []SessionIsEarned
<1> QED BY Invariance, SessionsAreEarned, PTL

\* Login: who has registered is refused only for want of the confirmation or for the device
\* name, in any spelling of the address.
THEOREM LetIn == Spec => []NobodyLockedOut
<1>1. IInv => NobodyLockedOut
  BY DEF IInv, NotLockedOut, NobodyLockedOut
<1> QED BY Invariance, <1>1, PTL
=============================================================================
