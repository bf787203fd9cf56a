------------------------------- MODULE Account -------------------------------
(***************************************************************************)
(* Accounts and sessions: auth.service.ts, user.service.ts, the address    *)
(* controller and referral-code.ts.                                        *)
(*                                                                         *)
(* A call reads what it needs in its first step; what is left is a list of *)
(* queries, run one per step.  A query that breaks a constraint of the     *)
(* schema ends the call; a restart, or an answer that never arrives, ends  *)
(* it with what it has done.  Calls that are refused do nothing and are    *)
(* left out, except the refusal of a refresh, which signs the app out.     *)
(* Left out too: names and emails, the expiry of refresh tokens (90 days), *)
(* and the text of codes and passwords: an input is the right one or not.  *)
(***************************************************************************)
EXTENDS Integers, Sequences, FiniteSets, FiniteSetsExt, TLC

CONSTANTS
    Slots,          \* calls that may be in progress at once
    Apps,           \* the apps people use
    Phones, Roles,
    Codes,          \* the referral codes that can be drawn
    FirstDb, FirstKey,   \* the tables at the start, and a bound of their ids
    FirstDevices,
    HasOrders,      \* the users that orders refer to
    Offered,        \* bound: the calls that are made
    MaxAttempts,    \* OTP_MAX_ATTEMPTS
    Draws,          \* how often a referral code is drawn
    Grace,          \* how long after a rotation a token is still answered
    MaxClock, MaxCalls, MaxCuts   \* bounds

None == 0
Never == -1
SignedOut == [token |-> None, user |-> None, since |-> Never]

RoleNames == Roles \cup {"customer", "delivery_partner", "vendor", "admin"}
UserRows == [phone : Phones \cup {None}, role : RoleNames, active : BOOLEAN, password : BOOLEAN,
             code : Codes \cup {None}, referrer : Nat]
OtpRows == [phone : Phones, role : RoleNames, purpose : {"login", "reset"}, tries : Nat, unused : BOOLEAN]

(* users_phone_role_idx, users_referral_code_idx and the foreign keys.     *)
Valid(d) ==
    /\ \A u \in DOMAIN d.user :
         /\ d.user[u].referrer \in DOMAIN d.user \cup {None}
         /\ d.user[u].phone # None => \A w \in DOMAIN d.user \ {u} :
              <<d.user[u].phone, d.user[u].role>> # <<d.user[w].phone, d.user[w].role>>
         /\ d.user[u].code # None => \A w \in DOMAIN d.user \ {u} : d.user[u].code # d.user[w].code
    /\ DOMAIN d.profile \cup d.documents \cup {d.token[t].user : t \in DOMAIN d.token}
         \cup {d.address[a].user : a \in DOMAIN d.address} \subseteq DOMAIN d.user

(* Each app was given its own token, which is live, and none has been      *)
(* tried.                                                                  *)
ASSUME AccountAssumption ==
    /\ {MaxAttempts, Draws, Grace} \subseteq Nat \ {0}
    /\ {MaxClock, MaxCalls, MaxCuts, FirstKey} \subseteq Nat
    /\ FirstDb = [user |-> FirstDb.user, profile |-> FirstDb.profile, documents |-> FirstDb.documents,
                  token |-> FirstDb.token, otp |-> FirstDb.otp, address |-> FirstDb.address]
    /\ Valid(FirstDb)
    /\ DOMAIN FirstDb.user \cup DOMAIN FirstDb.token \cup DOMAIN FirstDb.otp \cup DOMAIN FirstDb.address \subseteq 1 .. FirstKey
    /\ FirstDb.user \in [DOMAIN FirstDb.user -> UserRows]
    /\ FirstDb.token \in [DOMAIN FirstDb.token -> [user : Nat, revoked : {Never, 0}]]
    /\ FirstDb.otp \in [DOMAIN FirstDb.otp -> OtpRows]
    /\ FirstDevices \in [Apps -> [token : Nat, user : Nat, since : {Never}]]
    /\ \A d \in Apps : FirstDevices[d] # SignedOut =>
         /\ FirstDevices[d].token \in DOMAIN FirstDb.token
         /\ FirstDb.token[FirstDevices[d].token] = [user |-> FirstDevices[d].user, revoked |-> Never]
         /\ \A e \in Apps \ {d} : FirstDevices[e].token # FirstDevices[d].token

VARIABLES
    db,        \* the tables
    request,   \* the calls in progress, and what is left of them to do
    device,    \* the refresh token an app holds, of whom, since when it is tried
    now, lastKey, calls, cuts

accountVars == <<db, request, device, now, lastKey, calls, cuts>>

NoRequest == [what |-> "idle", at |-> None, user |-> None, token |-> None, code |-> None, todo |-> <<>>]

user == db.user          \* [phone, role, active, password, code, referrer]
profile == db.profile    \* whether the user's store is open, the rider online
documents == db.documents
token == db.token        \* [user, revoked]
otp == db.otp            \* [phone, role, purpose, tries, unused]
address == db.address    \* [user, main]

AccountInit ==
    /\ db = FirstDb
    /\ request = [h \in Slots |-> NoRequest]
    /\ device = FirstDevices
    /\ now = 0
    /\ lastKey = FirstKey
    /\ calls = 0 /\ cuts = 0

-----------------------------------------------------------------------------
(* What the calls look up.                                                 *)

NewestOf(S) == IF S = {} THEN None ELSE Max(S)
Holding(p, r) == {u \in DOMAIN user : user[u].phone = p /\ user[u].role = r}
AccountOf(p, r) == NewestOf(Holding(p, r))
ActiveAccount(p, r) == NewestOf({u \in Holding(p, r) : user[u].active})
Otp(p, r, purpose) ==
    NewestOf({c \in DOMAIN otp : otp[c].phone = p /\ otp[c].role = r /\ otp[c].purpose = purpose /\ otp[c].unused})
Referrers(c) ==
    {u \in DOMAIN user : user[u].code = c /\ user[u].role = "customer" /\ user[u].active}

UserRow(p, r, on, pw, from) ==
    [phone |-> p, role |-> r, active |-> on, password |-> pw, code |-> None, referrer |-> from]

(* The queries.                                                            *)
NewUser(row) == <<[do |-> "newUser", row |-> row]>>
SetUser(fields) == <<[do |-> "setUser", fields |-> fields]>>
Todo(name) == <<[do |-> name]>>
Draw(n) == <<[do |-> "draw", left |-> n]>>
OnRow(name, id, value) == <<[do |-> name, id |-> id, value |-> value]>>

Scrubbed == [active |-> FALSE, phone |-> None]

WithRow(table, id, row) == [i \in DOMAIN table \cup {id} |-> IF i = id THEN row ELSE table[i]]
Rows(table, S) == [i \in S |-> table[i]]

Written(row, fields) ==
    LET set(name, old) == IF name \in DOMAIN fields THEN fields[name] ELSE old IN
    [phone |-> set("phone", row.phone), role |-> set("role", row.role), active |-> set("active", row.active),
     password |-> set("password", row.password), code |-> row.code, referrer |-> row.referrer]

(* What query q of a call about user u does to each table; id is new.      *)
UsersAfter(q, u, id) ==
    CASE q.do = "newUser" -> WithRow(user, id, q.row)
      [] q.do = "setUser" -> [w \in DOMAIN user |-> IF w = u THEN Written(user[w], q.fields) ELSE user[w]]
      [] q.do = "deleteUser" -> [w \in DOMAIN user \ {u} |->
                                   IF user[w].referrer = u THEN [user[w] EXCEPT !.referrer = None] ELSE user[w]]
      [] OTHER -> user

ProfilesAfter(q, u) ==
    CASE q.do = "addProfile" -> WithRow(profile, u, user[u].role = "vendor")
      [] q.do = "close" -> [w \in DOMAIN profile |-> profile[w] /\ w # u]
      [] q.do = "deleteUser" -> Rows(profile, DOMAIN profile \ {u})
      [] OTHER -> profile

Revoked(t) == [token[t] EXCEPT !.revoked = now]

TokensAfter(q, u, id) ==
    CASE q.do = "issue" -> WithRow(token, id, [user |-> u, revoked |-> Never])
      [] q.do = "revoke" -> [t \in DOMAIN token |-> IF t = q.id THEN Revoked(t) ELSE token[t]]
      [] q.do = "revokeAll" -> [t \in DOMAIN token |-> IF token[t].user = u THEN Revoked(t) ELSE token[t]]
      [] q.do = "deleteUser" -> Rows(token, {t \in DOMAIN token : token[t].user # u})
      [] OTHER -> token

OtpsAfter(q, id) ==
    CASE q.do = "send" -> WithRow(otp, id, q.value)
      [] q.do = "miss" -> [c \in DOMAIN otp |-> IF c = q.id THEN [otp[c] EXCEPT !.tries = q.value] ELSE otp[c]]
      [] q.do = "spend" -> [c \in DOMAIN otp |-> IF c = q.id THEN [otp[c] EXCEPT !.unused = FALSE] ELSE otp[c]]
      [] OTHER -> otp

AddressesAfter(q, u, id) ==
    CASE q.do = "clearDefault" -> [a \in DOMAIN address |->
                                     IF address[a].user = u THEN [address[a] EXCEPT !.main = FALSE] ELSE address[a]]
      [] q.do = "addAddress" -> WithRow(address, id, [user |-> u, main |-> q.value])
      [] q.do = "setAddress" -> [a \in DOMAIN address |->
                                   IF a = q.id THEN [address[a] EXCEPT !.main = q.value] ELSE address[a]]
      [] q.do = "dropAddress" -> Rows(address, DOMAIN address \ {q.id})
      [] q.do = "deleteUser" -> Rows(address, {a \in DOMAIN address : address[a].user # u})
      [] OTHER -> address

After(q, u, id) ==
    [user |-> UsersAfter(q, u, id),
     profile |-> ProfilesAfter(q, u),
     documents |-> IF q.do \in {"dropDocuments", "deleteUser"} THEN documents \ {u} ELSE documents,
     token |-> TokensAfter(q, u, id),
     otp |-> OtpsAfter(q, id),
     address |-> AddressesAfter(q, u, id)]

-----------------------------------------------------------------------------
(* Running a call.                                                         *)

Free(h) == request[h] = NoRequest /\ calls < MaxCalls

Begin(h, d, what, u, todo) ==
    /\ request' = [request EXCEPT ![h] = [NoRequest EXCEPT !.what = what, !.at = d, !.user = u, !.todo = todo]]
    /\ calls' = calls + 1
    /\ UNCHANGED <<db, device, now, lastKey, cuts>>

Busy(h) == request[h].todo # <<>>
Doing(h) == Head(request[h].todo)
Rest(h) == Tail(request[h].todo)
GoesAs(h, c) == request' = [request EXCEPT ![h] = c]
Left(h) == [request[h] EXCEPT !.todo = Rest(h)]
MovesOn(h) == GoesAs(h, Left(h))
GoesTo(h, todo) == GoesAs(h, [request[h] EXCEPT !.todo = todo])
Ends(h) == request' = [request EXCEPT ![h] = NoRequest]

(* Queries that only write.                                                *)
Plain == {"newUser", "setUser", "addProfile", "close", "dropDocuments", "issue", "revoke", "revokeAll",
          "send", "miss", "spend", "clearDefault", "addAddress", "setAddress", "dropAddress", "deleteUser"}
Numbered == {"newUser", "issue", "send", "addAddress"}

Refers(h) ==
    /\ Doing(h).do = "deleteUser" => request[h].user \notin HasOrders
    /\ Doing(h).do \in {"addProfile", "issue"} => request[h].user \in DOMAIN user
    /\ Doing(h).do = "addProfile" => request[h].user \notin DOMAIN profile

Query(h) ==
    /\ Busy(h) /\ Doing(h).do \in Plain /\ Refers(h)
    /\ LET id == lastKey + 1 IN
       /\ db' = After(Doing(h), request[h].user, id)
       /\ Valid(db')
       /\ lastKey' = IF Doing(h).do \in Numbered THEN id ELSE lastKey
       /\ GoesAs(h, CASE Doing(h).do = "newUser" -> [Left(h) EXCEPT !.user = id]
                      [] Doing(h).do = "issue" -> [Left(h) EXCEPT !.token = id]
                      [] OTHER -> Left(h))
    /\ UNCHANGED <<device, now, calls, cuts>>

(* The deletions scrub the row when it cannot be deleted, those of a rider *)
(* or a vendor close it first; any other query that the schema refuses     *)
(* ends its call.                                                          *)
ScrubInstead(what) ==
    (IF what = "deleteMember" THEN Todo("close") ELSE <<>>) \o SetUser(Scrubbed)

QueryFails(h) ==
    /\ Busy(h) /\ Doing(h).do \in Plain
    /\ Refers(h) => ~Valid(After(Doing(h), request[h].user, lastKey + 1))
    /\ IF Doing(h).do = "deleteUser" THEN GoesTo(h, ScrubInstead(request[h].what)) ELSE Ends(h)
    /\ UNCHANGED <<db, device, now, lastKey, calls, cuts>>

(* findOrCreateByPhone, and the reads that come after a first write.       *)
FindOrCreate(h) ==
    /\ Busy(h) /\ Doing(h).do = "findOrCreate"
    /\ LET u == ActiveAccount(Doing(h).id, Doing(h).value) IN
       IF u # None THEN GoesAs(h, [Left(h) EXCEPT !.user = u])
       ELSE GoesTo(h, NewUser(UserRow(Doing(h).id, Doing(h).value, TRUE, FALSE, None)) \o Rest(h))
    /\ UNCHANGED <<db, device, now, lastKey, calls, cuts>>

FindUser(h) ==
    /\ Busy(h) /\ Doing(h).do = "findUser"
    /\ LET u == AccountOf(Doing(h).id, Doing(h).value) IN
       IF u = None THEN Ends(h) ELSE GoesAs(h, [Left(h) EXCEPT !.user = u])
    /\ UNCHANGED <<db, device, now, lastKey, calls, cuts>>

FindProfile(h) ==
    /\ Busy(h) /\ Doing(h).do = "findProfile"
    /\ IF request[h].user \in DOMAIN profile THEN MovesOn(h) ELSE GoesTo(h, Todo("addProfile") \o Rest(h))
    /\ UNCHANGED <<db, device, now, lastKey, calls, cuts>>

(* ensureReferralCode.  customerRegister goes on when it gives up.         *)
ReadCode(h) ==
    /\ Busy(h) /\ Doing(h).do = "readCode"
    /\ LET u == request[h].user IN
       IF u \in DOMAIN user /\ user[u].code # None
       THEN GoesAs(h, [Left(h) EXCEPT !.code = user[u].code])
       ELSE GoesTo(h, Draw(Doing(h).value) \o Rest(h))
    /\ UNCHANGED <<db, device, now, lastKey, calls, cuts>>

GivesUp(h) == IF request[h].what = "customerRegister" THEN MovesOn(h) ELSE Ends(h)

(* Mutant: the code is written without asking whether there is one.        *)
AnyRow(u) == u \in DOMAIN user

NoCodeYet(u) == u \in DOMAIN user /\ user[u].code = None

DrawCode(h) ==
    /\ Busy(h) /\ Doing(h).do = "draw"
    /\ LET u == request[h].user
           n == Doing(h).left
       IN IF n = 0 THEN GivesUp(h) /\ UNCHANGED db
          ELSE IF ~NoCodeYet(u)
          THEN GoesTo(h, OnRow("readCode", None, n - 1) \o Rest(h)) /\ UNCHANGED db
          ELSE \E c \in Codes :
                 IF \E w \in DOMAIN user \ {u} : user[w].code = c
                 THEN GoesTo(h, Draw(n - 1) \o Rest(h)) /\ UNCHANGED db
                 ELSE /\ db' = [db EXCEPT !.user[u].code = c]
                      /\ GoesAs(h, [Left(h) EXCEPT !.code = c])
    /\ UNCHANGED <<device, now, lastKey, calls, cuts>>

(* The answer: an app takes the token it is given.                         *)
Answer(h) ==
    /\ request[h] # NoRequest /\ ~Busy(h)
    /\ device' = IF request[h].what = "deleteAccount"
                 THEN [device EXCEPT ![request[h].at] = IF @.user = request[h].user THEN SignedOut ELSE @]
                 ELSE IF request[h].token = None THEN device
                 ELSE [device EXCEPT ![request[h].at] =
                         [token |-> request[h].token, user |-> request[h].user, since |-> Never]]
    /\ Ends(h)
    /\ UNCHANGED <<db, now, lastKey, calls, cuts>>

Cut(h) ==
    /\ request[h] # NoRequest /\ cuts < MaxCuts
    /\ Ends(h) /\ cuts' = cuts + 1
    /\ UNCHANGED <<db, device, now, lastKey, calls>>

Tick == now < MaxClock /\ now' = now + 1 /\ UNCHANGED <<db, request, device, lastKey, calls, cuts>>

(* A code that nobody used in time; a read of otpCodes skips it.           *)
Expire(c) ==
    /\ otp[c].unused
    /\ db' = [db EXCEPT !.otp[c].unused = FALSE]
    /\ UNCHANGED <<request, device, now, lastKey, calls, cuts>>

-----------------------------------------------------------------------------
(* Signing in, which the apps offer to whoever is signed out.              *)

SendOtp(h, d, p, r, purpose) ==
    Begin(h, d, "otp", None,
          OnRow("send", None, [phone |-> p, role |-> r, purpose |-> purpose, tries |-> 0, unused |-> TRUE]))

RequestOtp(h, d, p, r) == SendOtp(h, d, p, r, "login")

RequestForgotPassword(h, d, p, r) == AccountOf(p, r) # None /\ SendOtp(h, d, p, r, "reset")

(* Mutant: a code stays usable after it was used.                          *)
StillThere(c) == <<>>

Spend(c) == OnRow("spend", c, TRUE)

MayTry(c) == otp[c].tries < MaxAttempts

WithOtp(h, d, c, right, what, todo) ==
    /\ c # None /\ MayTry(c)
    /\ IF right THEN Begin(h, d, what, None, Spend(c) \o todo)
       ELSE Begin(h, d, "wrongOtp", None, OnRow("miss", c, otp[c].tries + 1))

VerifyOtp(h, d, p, r, right) ==
    WithOtp(h, d, Otp(p, r, "login"), right, "verifyOtp", OnRow("findOrCreate", p, r) \o Todo("issue"))

ResetPasswordWithOtp(h, d, p, r, right) ==
    WithOtp(h, d, Otp(p, r, "reset"), right, "resetPassword",
            OnRow("findUser", p, r) \o SetUser([password |-> TRUE]) \o Todo("issue"))

Login(h, d, p, r, what, more) ==
    LET u == AccountOf(p, r) IN
    /\ u # None /\ user[u].password /\ user[u].active
    /\ Begin(h, d, what, u, Todo("issue") \o more)

AdminLogin(h, d, p) == Login(h, d, p, "admin", "login", <<>>)
CustomerLogin(h, d, p) == Login(h, d, p, "customer", "login", <<>>)
VendorLogin(h, d, p) == Login(h, d, p, "vendor", "login", <<>>)

(* Mutant: a rider who signs in is not given the row he lacks.             *)
PartnerLoginOnly(h, d, p) == Login(h, d, p, "delivery_partner", "partnerLogin", <<>>)

PartnerLogin(h, d, p) == Login(h, d, p, "delivery_partner", "partnerLogin", Todo("findProfile"))

CustomerRegister(h, d, p, c) ==
    LET u == ActiveAccount(p, "customer") IN
    \/ /\ u # None /\ ~user[u].password
       /\ Begin(h, d, "customerRegister", u, SetUser([password |-> TRUE]) \o Todo("issue"))
    \/ /\ u = None /\ (c # None => Referrers(c) # {})
       /\ LET from == IF c = None THEN None ELSE Max(Referrers(c)) IN
          Begin(h, d, "customerRegister", None,
                NewUser(UserRow(p, "customer", TRUE, TRUE, from))
                  \o OnRow("readCode", None, Draws) \o Todo("issue"))

(* Registering as one who has a row of his own; taken are the users whom   *)
(* it refuses.                                                             *)
Register(h, d, p, r, taken) ==
    LET u == ActiveAccount(p, r)
        enrol == Todo("findProfile") \o Todo("issue")
    IN
    \/ /\ u # None /\ ~user[u].password /\ u \notin taken
       /\ Begin(h, d, "register", u, SetUser([password |-> TRUE]) \o enrol)
    \/ /\ u = None
       /\ Begin(h, d, "register", None, NewUser(UserRow(p, r, TRUE, TRUE, None)) \o enrol)

PartnerRegister(h, d, p) == Register(h, d, p, "delivery_partner", {})
VendorRegister(h, d, p) == Register(h, d, p, "vendor", DOMAIN profile)

(* A revoked token is answered for a while: the first answer may have been *)
(* lost on the way.                                                        *)
RotatedRecently(t) == now - token[t].revoked < Grace

(* Mutant: a token is answered once.                                       *)
LiveOnly(t) == t \in DOMAIN token /\ token[t].revoked = Never

Accepted(t) == t \in DOMAIN token /\ (token[t].revoked = Never \/ RotatedRecently(t))

Tried(d) ==
    [device EXCEPT ![d].since = IF @ = Never THEN now ELSE @]

Refresh(h, d) ==
    LET t == device[d].token IN
    /\ t # None /\ Accepted(t)
    /\ device' = Tried(d)
    /\ request' = [request EXCEPT ![h] = [NoRequest EXCEPT !.what = "refresh", !.at = d, !.user = token[t].user,
                  !.todo = (IF token[t].revoked = Never THEN OnRow("revoke", t, TRUE) ELSE <<>>) \o Todo("issue")]]
    /\ calls' = calls + 1
    /\ UNCHANGED <<db, now, lastKey, cuts>>

RefreshRefused(d) ==
    /\ device[d].token # None /\ ~Accepted(device[d].token)
    /\ device' = [device EXCEPT ![d] = SignedOut]
    /\ calls' = calls + 1
    /\ UNCHANGED <<db, request, now, lastKey, cuts>>

-----------------------------------------------------------------------------
(* What a signed-in user does.                                             *)

Me(d) == device[d].user
SignedIn(d) == device[d].token # None /\ Me(d) \in DOMAIN user

CreatePassword(h, d) == SignedIn(d) /\ Begin(h, d, "createPassword", Me(d), SetUser([password |-> TRUE]))

(* getReferralSummary of the wallet service, the part about the code.             *)
MyCode(h, d) ==
    /\ SignedIn(d) /\ user[Me(d)].role = "customer"
    /\ Begin(h, d, "myCode", Me(d), OnRow("readCode", None, Draws))

(* The last two queries of whoever leaves.                                 *)
Departure == SetUser(Scrubbed) \o Todo("revokeAll")

(* A vendor's call is refused while the store has active orders.           *)
DeleteAccount(h, d) ==
    LET u == Me(d) IN
    /\ SignedIn(d)
    /\ Begin(h, d, "deleteAccount", u,
             (IF user[u].role \in {"delivery_partner", "vendor"} THEN Todo("close") ELSE <<>>)
               \o Todo("dropDocuments") \o Departure)

DeleteVendorAccount(h, d) ==
    /\ SignedIn(d) /\ user[Me(d)].role = "vendor" /\ Me(d) \in DOMAIN profile
    /\ Begin(h, d, "deleteAccount", Me(d), Todo("dropDocuments") \o Todo("close") \o Departure)

ClearDefault(main) == IF main THEN Todo("clearDefault") ELSE <<>>

CreateAddress(h, d, main) ==
    SignedIn(d) /\ Begin(h, d, "address", Me(d), ClearDefault(main) \o OnRow("addAddress", None, main))

UpdateAddress(h, d, a, main) ==
    /\ SignedIn(d) /\ address[a].user = Me(d)
    /\ Begin(h, d, "address", Me(d), ClearDefault(main) \o OnRow("setAddress", a, main))

RemoveAddress(h, d, a) ==
    SignedIn(d) /\ address[a].user = Me(d) /\ Begin(h, d, "address", Me(d), OnRow("dropAddress", a, TRUE))

-----------------------------------------------------------------------------
(* What an admin does.                                                     *)

CreateUser(h, p, r, on, withAddress) ==
    /\ AccountOf(p, r) = None
    /\ Begin(h, None, "createUser", None,
             NewUser(UserRow(p, r, on, FALSE, None))
               \o (IF withAddress THEN OnRow("addAddress", None, TRUE) ELSE <<>>))

(* Every field is written, with what was read where the admin changed      *)
(* nothing.                                                                *)
UpdateUser(h, u, fields) ==
    LET row == Written(user[u], fields) IN
    /\ row.phone = None \/ Holding(row.phone, row.role) \subseteq {u}
    /\ Begin(h, None, "updateUser", u,
             SetUser([phone |-> row.phone, role |-> row.role, active |-> row.active]))

(* The admin's pages of users, of riders and of vendors each have one.     *)
Deletion == Todo("dropDocuments") \o Todo("revokeAll") \o Todo("deleteUser")

DeleteUser(h, u) == Begin(h, None, "deleteUser", u, Deletion)

DeleteAdminMember(h, u) == u \in DOMAIN profile /\ Begin(h, None, "deleteMember", u, Deletion)

(* Tokens that were revoked long ago are revoked once more.                *)
ResetAdminVendorPassword(h, u) ==
    /\ user[u].role = "vendor" /\ u \in DOMAIN profile
    /\ Begin(h, None, "resetVendor", u, SetUser([password |-> TRUE]) \o Todo("revokeAll"))

Changes == {[phone |-> p] : p \in Phones} \cup {[role |-> r] : r \in Roles} \cup {[active |-> on] : on \in BOOLEAN}

-----------------------------------------------------------------------------

Offers(name) == name \in Offered

AccountNext ==
    \/ \E h \in Slots : Query(h) \/ QueryFails(h) \/ FindOrCreate(h) \/ FindUser(h) \/ FindProfile(h)
                          \/ ReadCode(h) \/ DrawCode(h) \/ Answer(h) \/ Cut(h)
    \/ Tick
    \/ \E c \in DOMAIN otp : Offers("otp") /\ Expire(c)
    \/ \E d \in Apps : calls < MaxCalls /\ Offers("refresh") /\ RefreshRefused(d)
    \/ \E h \in Slots : Free(h) /\ \E d \in Apps :
         \/ Offers("refresh") /\ Refresh(h, d)
         \/ Offers("code") /\ MyCode(h, d)
         \/ Offers("password") /\ CreatePassword(h, d)
         \/ Offers("delete") /\ (DeleteAccount(h, d) \/ DeleteVendorAccount(h, d))
         \/ Offers("address") /\ \E main \in BOOLEAN :
              CreateAddress(h, d, main) \/ \E a \in DOMAIN address : UpdateAddress(h, d, a, main)
         \/ Offers("address") /\ \E a \in DOMAIN address : RemoveAddress(h, d, a)
         \/ device[d] = SignedOut /\ \E p \in Phones, r \in Roles :
              \/ Offers("otp") /\ (RequestOtp(h, d, p, r) \/ \E right \in BOOLEAN : VerifyOtp(h, d, p, r, right))
              \/ Offers("reset") /\ (RequestForgotPassword(h, d, p, r)
                                      \/ \E right \in BOOLEAN : ResetPasswordWithOtp(h, d, p, r, right))
         \/ device[d] = SignedOut /\ \E p \in Phones :
              \/ Offers("login") /\ (CustomerLogin(h, d, p) \/ PartnerLogin(h, d, p)
                                      \/ VendorLogin(h, d, p) \/ AdminLogin(h, d, p))
              \/ Offers("register") /\ \E c \in Codes \cup {None} : CustomerRegister(h, d, p, c)
              \/ Offers("register") /\ (PartnerRegister(h, d, p) \/ VendorRegister(h, d, p))
    \/ \E h \in Slots : Free(h) /\ Offers("createUser") /\ \E p \in Phones, r \in Roles, on, withAddress \in BOOLEAN :
         CreateUser(h, p, r, on, withAddress)
    \/ \E h \in Slots : Free(h) /\ Offers("updateUser") /\ \E u \in DOMAIN user, fields \in Changes :
         UpdateUser(h, u, fields)
    \/ \E h \in Slots : Free(h) /\ \E u \in DOMAIN user :
         \/ Offers("deleteUser") /\ (DeleteUser(h, u) \/ DeleteAdminMember(h, u))
         \/ Offers("resetVendor") /\ ResetAdminVendorPassword(h, u)

AccountSpec == AccountInit /\ [][AccountNext]_accountVars
=============================================================================
