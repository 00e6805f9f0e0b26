------------------------------ MODULE Accounts ------------------------------
(* Signing in (auth.service.ts, users.service.ts): which row of users each *)
(* way of signing in finds, makes or links, with other requests between    *)
(* the lookup, the insert, the link and the answer.  Whether a token is    *)
(* good is a choice; the sessions that follow are left out.                *)
EXTENDS Naturals, FiniteSets

CONSTANTS AccountIds, \* rows that may be made, in no order
          Addresses,  \* e-mail addresses people have
          Apples,    \* subjects of Apple ids: one person each
          Told,      \* Apple's subject -> the addresses Apple tells of it
          Requests,
          MaxFails,  \* failures that lock a sign-in by password or code, 10
          Overlap,   \* one person signs in with Apple twice at once
          Nobody

VARIABLES users,  \* id -> its row, or Nobody
          otp,    \* otp:<email> in Redis is set
          fails,  \* auth:lockout:<email> and auth:lockout:otp:<email>
          req,    \* what each request is doing
          home    \* history: the account each Apple id was signed in to, while it exists
vars == <<users, otp, fails, req, home>>

\* Addresses made up of an Apple subject's hash have no mailbox.
Placeholder(s) == <<"apple", s>>
Emails == Addresses \cup {Placeholder(s) : s \in Apples}

\* subject: providerId; hash: providerSubHash of an Apple subject; link: the
\* magic link that is out for the row.
Row == [email : Emails, provider : {"local", "google", "apple"},
        subject : {"none", "google"} \cup Apples, hash : Apples \cup {Nobody},
        link : {"none", "sent", "expired"}, password : BOOLEAN]
Ways == {"password", "otp"}

\* What the constants are: Apple tells an address of one subject only.
AccountsConstants ==
    /\ Told \in [Apples -> SUBSET Addresses]
    /\ \A s, t \in Apples : s # t => Told[s] \cap Told[t] = {}
    /\ \A s \in Apples : Placeholder(s) \notin Addresses
    /\ Nobody \notin AccountIds \cup Apples \cup Row

NewRow(email, provider, subject, hash) ==
    [email |-> email, provider |-> provider, subject |-> subject, hash |-> hash,
     link |-> "none", password |-> FALSE]

Idle == [step |-> "idle"]

TypeOK ==
    /\ users \in [AccountIds -> Row \cup {Nobody}]
    /\ otp \in [Addresses -> BOOLEAN] /\ fails \in [Ways \X Addresses -> 0 .. MaxFails]
    /\ home \in [Apples -> AccountIds \cup {Nobody}]
    /\ \A r \in Requests :
          \/ req[r] = Idle
          \/ /\ req[r].step \in {"by email", "code", "create", "create to send"}
             /\ req[r].new \in Row /\ req[r].apple \in Apples \cup {Nobody}
          \/ /\ req[r].step \in {"link", "send", "answer"}
             /\ req[r].user \in AccountIds /\ req[r].apple \in Apples \cup {Nobody}

\* Nobody has signed in, or an Apple row is left from before providerSubHash.
Init ==
    /\ \/ users = [i \in AccountIds |-> Nobody]
       \/ \E i \in AccountIds, s \in Apples : \E a \in Told[s] :
             users = [j \in AccountIds |-> IF j = i THEN NewRow(a, "apple", s, Nobody) ELSE Nobody]
    /\ otp = [a \in Addresses |-> FALSE] /\ fails = [k \in Ways \X Addresses |-> 0]
    /\ req = [r \in Requests |-> Idle] /\ home = [s \in Apples |-> Nobody]

Present == {i \in AccountIds : users[i] # Nobody}
\* Email is unique; the hash is not (its index is plain).
ByEmail(email) == {i \in Present : users[i].email = email}
ByHash(s) == {i \in Present : users[i].hash = s}

\* A request goes on with a row in hand, or with the row it would make.
Found(r, then, i, s) == req' = [req EXCEPT ![r] = [step |-> then, user |-> i, apple |-> s]]
Seek(r, then, new, s) == req' = [req EXCEPT ![r] = [step |-> then, new |-> new, apple |-> s]]
Stop(r) == req' = [req EXCEPT ![r] = Idle]
Same == UNCHANGED <<users, otp, fails, home>>

FindOrCreate(r, new) ==
    IF ByEmail(new.email) = {} THEN Seek(r, "create", new, Nobody)
    ELSE \E i \in ByEmail(new.email) : Found(r, "answer", i, Nobody)

----------------------------------------------------------------------------
(* Password, Google, magic link, one-time code.                            *)

Local(a) == NewRow(a, "local", "none", Nobody)

\* An address that is taken is refused.
Register(r, a) ==
    /\ req[r] = Idle /\ ByEmail(a) = {}
    /\ Seek(r, "create", [Local(a) EXCEPT !.password = TRUE], Nobody) /\ Same

\* The right password of an account that has one.
Login(r, a) ==
    /\ req[r] = Idle /\ fails["password", a] < MaxFails
    /\ \E i \in ByEmail(a) : users[i].password /\ Found(r, "answer", i, Nobody)
    /\ fails' = [fails EXCEPT ![<<"password", a>>] = 0] /\ UNCHANGED <<users, otp, home>>

\* googleLogin and googleTokenLogin find by address, and link nothing.
GoogleLogin(r, a) ==
    /\ req[r] = Idle
    /\ FindOrCreate(r, NewRow(a, "google", "google", Nobody)) /\ Same

SendMagicLink(r, a) ==
    /\ req[r] = Idle
    /\ IF ByEmail(a) = {} THEN Seek(r, "create to send", Local(a), Nobody)
       ELSE \E i \in ByEmail(a) : Found(r, "send", i, Nobody)
    /\ Same

\* The link is stored in the row, if that is still there, then mailed.
StoreLink(r) ==
    /\ req[r].step = "send"
    /\ users' = IF req[r].user \in Present THEN [users EXCEPT ![req[r].user].link = "sent"] ELSE users
    /\ Stop(r) /\ UNCHANGED <<otp, fails, home>>

\* The row keeps the link: an update to undefined leaves the column alone.
VerifyMagicLink(r, i) ==
    /\ req[r] = Idle /\ i \in Present /\ users[i].link = "sent"
    /\ Found(r, "answer", i, Nobody) /\ Same

LinkExpires(i) ==
    /\ i \in Present /\ users[i].link = "sent"
    /\ users' = [users EXCEPT ![i].link = "expired"] /\ UNCHANGED <<otp, fails, req, home>>

SendOtp(a) == otp' = [otp EXCEPT ![a] = TRUE] /\ UNCHANGED <<users, fails, req, home>>
OtpExpires(a) == otp[a] /\ otp' = [otp EXCEPT ![a] = FALSE] /\ UNCHANGED <<users, fails, req, home>>
LockExpires(k) == fails[k] > 0 /\ fails' = [fails EXCEPT ![k] = 0] /\ UNCHANGED <<users, otp, req, home>>

\* A wrong password or code, or one of nobody's, counts until the address is locked.
Wrong(r, k) ==
    /\ req[r] = Idle /\ fails[k] < MaxFails
    /\ fails' = [fails EXCEPT ![k] = @ + 1] /\ UNCHANGED <<users, otp, req, home>>

VerifyOtp(r, a) ==
    /\ req[r] = Idle /\ fails["otp", a] < MaxFails /\ otp[a]
    /\ Seek(r, "code", Local(a), Nobody) /\ Same

\* The code is used up, then the address is looked for.
TakeOtp(r) ==
    LET a == req[r].new.email
    IN  /\ req[r].step = "code"
        /\ otp' = [otp EXCEPT ![a] = FALSE] /\ fails' = [fails EXCEPT ![<<"otp", a>>] = 0]
        /\ FindOrCreate(r, req[r].new) /\ UNCHANGED <<users, home>>

----------------------------------------------------------------------------
(* appleLogin                                                              *)

Signing(s) == \E r \in Requests : req[r] # Idle /\ req[r].apple = s

\* By the hash first.  Apple may tell the address, or Nobody's.
AppleLogin(r, s, a) ==
    LET new == NewRow(IF a = Nobody THEN Placeholder(s) ELSE a, "apple", s, s)
    IN  /\ req[r] = Idle
        /\ Overlap \/ ~Signing(s)
        /\ IF ByHash(s) = {} THEN Seek(r, IF a = Nobody THEN "create" ELSE "by email", new, s)
           ELSE \E i \in ByHash(s) : Found(r, "answer", i, s)
        /\ Same

\* Then by the address; the row is linked if it is Apple's or of no provider.
AppleByEmail(r) ==
    LET new == req[r].new
    IN  /\ req[r].step = "by email"
        /\ IF ByEmail(new.email) = {} THEN Seek(r, "create", new, req[r].apple)
           ELSE \E i \in ByEmail(new.email) :
                   Found(r, IF /\ users[i].provider = "apple" \/ users[i].subject = "none"
                               /\ users[i].hash = Nobody
                            THEN "link" ELSE "answer", i, req[r].apple)
        /\ Same

\* Mutation: the update leaves the hash out, as UsersService.update would.
LinkProviderSubOnly(r) ==
    /\ req[r].step = "link"
    /\ users' = IF req[r].user \in Present
                THEN [users EXCEPT ![req[r].user].subject = req[r].apple] ELSE users
    /\ req' = [req EXCEPT ![r].step = "answer"] /\ UNCHANGED <<otp, fails, home>>

LinkProviderSub(r) ==
    /\ req[r].step = "link"
    /\ users' = IF req[r].user \in Present
                THEN [users EXCEPT ![req[r].user].subject = req[r].apple,
                                   ![req[r].user].hash = req[r].apple] ELSE users
    /\ req' = [req EXCEPT ![r].step = "answer"] /\ UNCHANGED <<otp, fails, home>>

----------------------------------------------------------------------------
(* UsersService.create, the answer, deleteAccount.                         *)

\* AccountIds are not used again: one that nothing knows of stands for a new one.
Fresh(i) ==
    /\ i \notin Present
    /\ \A r \in Requests : req[r].step \in {"link", "send", "answer"} => req[r].user # i

\* An address somebody took meanwhile fails the insert, and the request.
CreateUser(r, i) ==
    /\ req[r].step \in {"create", "create to send"} /\ Fresh(i)
    /\ IF ByEmail(req[r].new.email) # {} THEN Stop(r) /\ UNCHANGED users
       ELSE /\ users' = [users EXCEPT ![i] = req[r].new]
            /\ Found(r, IF req[r].step = "create" THEN "answer" ELSE "send", i, req[r].apple)
    /\ UNCHANGED <<otp, fails, home>>

Answer(r) ==
    /\ req[r].step = "answer"
    /\ home' = IF req[r].apple # Nobody /\ req[r].user \in Present
               THEN [home EXCEPT ![req[r].apple] = req[r].user] ELSE home
    /\ Stop(r) /\ UNCHANGED <<users, otp, fails>>

\* The pod or the database fails it.
RequestFails(r) == req[r] # Idle /\ Stop(r) /\ Same

\* The user's other rows go first, each in a statement of its own.
DeleteAccount(i) ==
    /\ i \in Present
    /\ users' = [users EXCEPT ![i] = Nobody]
    /\ home' = [s \in Apples |-> IF home[s] = i THEN Nobody ELSE home[s]]
    /\ UNCHANGED <<otp, fails, req>>

Next ==
    \/ \E r \in Requests :
          \/ \E a \in Addresses :
                \/ Register(r, a) \/ Login(r, a) \/ GoogleLogin(r, a) \/ SendMagicLink(r, a)
                \/ VerifyOtp(r, a) \/ \E way \in Ways : Wrong(r, <<way, a>>)
          \/ StoreLink(r) \/ TakeOtp(r) \/ AppleByEmail(r) \/ LinkProviderSub(r)
          \/ Answer(r) \/ RequestFails(r)
          \/ \E i \in AccountIds : VerifyMagicLink(r, i) \/ CreateUser(r, i)
          \/ \E s \in Apples : \E a \in Told[s] \cup {Nobody} : AppleLogin(r, s, a)
    \/ \E a \in Addresses : SendOtp(a) \/ OtpExpires(a)
    \/ \E k \in Ways \X Addresses : LockExpires(k)
    \/ \E i \in AccountIds : LinkExpires(i) \/ DeleteAccount(i)

Spec == Init /\ [][Next]_vars

----------------------------------------------------------------------------
\* Somebody who signs in with Apple comes back to the same account for as long
\* as it exists, whether or not Apple tells the address, and whatever else goes
\* on: the subject's hash is linked before the answer ("backfill the hash so the
\* user's NEXT (emailless) login resolves by sub", appleLogin).  Accounts made
\* with Google are not linked, see below; and no two sign-ins of one person run
\* at once (Overlap).
AppleUserKeepsAccount ==
    [][\A s \in Apples :
          home[s] \in Present /\ users[home[s]].provider # "google"
             => home'[s] \in {home[s], Nobody}]_vars

\* The same of every account, those made with Google as well.
AppleUserHasOneAccount ==
    [][\A s \in Apples : home[s] \in Present => home'[s] \in {home[s], Nobody}]_vars
=============================================================================
