--------------------------------- MODULE Kyc ---------------------------------
(***************************************************************************)
(* The documents vendors and riders send in, their review, and the status  *)
(* that is rolled up from them (uploads.service.ts), with the admin's work *)
(* on riders (delivery.service.ts) and on a vendor's status, and with the  *)
(* deletions of an account, by its user or the admin, which take the       *)
(* documents.                                                              *)
(*                                                                         *)
(* Withdrawals are refused to whoever is not verified.  A call is a list   *)
(* of queries, one per step; refused calls are left out.  So are the       *)
(* sessions (module Account), vehicles, phones and mail addresses.         *)
(***************************************************************************)
EXTENDS Integers, Sequences, FiniteSets, FiniteSetsExt, TLC

CONSTANTS
    Slots,             \* calls that may be in progress at once
    Merchants, Riders,
    Types,             \* the kinds of documents
    Mandatory,         \* aadhaar_front and aadhaar_back
    HasOrders,         \* the users that orders refer to
    FirstAccounts, FirstProfiles, FirstDocs,
    MaxCalls, MaxCuts  \* bounds

Users == Merchants \cup Riders
Statuses == {"pending", "verified", "rejected"}

ASSUME KycAssumption ==
    /\ Slots # {}
    /\ Mandatory \subseteq Types /\ Mandatory # {}
    /\ Merchants \cap Riders = {}
    /\ FirstAccounts \in [Users -> {"active", "suspended", "none"}]
    /\ DOMAIN FirstProfiles \subseteq Users
    /\ FirstProfiles \in [DOMAIN FirstProfiles -> [kyc : Statuses, online : BOOLEAN]]
    /\ FirstDocs \in Seq([user : Users, type : Types, upload : Nat, status : Statuses])
    /\ {MaxCalls, MaxCuts} \subseteq Nat

VARIABLES
    account,   \* users.status, "none" without a row
    profile,   \* the rows of vendors and deliveryPartners: kycStatus, isOnline
    docs,      \* kycDocuments by id: whose, of what kind, which upload, status
    screen,    \* the uploads on the admin's screen
    mailed,    \* what the last mail to a user said
    call, lastId, calls, cuts

kycVars == <<account, profile, docs, screen, mailed, call, lastId, calls, cuts>>

NoCall == [what |-> "idle", user |-> "none", found |-> TRUE, rolled |-> "pending", todo |-> <<>>]

(* At first whoever has a rejected document has been told so.              *)
KycInit ==
    /\ account = FirstAccounts /\ profile = FirstProfiles /\ docs = FirstDocs
    /\ screen = [i \in {} |-> 0]
    /\ mailed = [u \in Users |->
                   IF \E i \in DOMAIN docs : docs[i].user = u /\ docs[i].status = "rejected"
                   THEN "rejected" ELSE "none"]
    /\ call = [h \in Slots |-> NoCall]
    /\ lastId = Len(FirstDocs)
    /\ calls = 0 /\ cuts = 0

-----------------------------------------------------------------------------

DocsOf(u) == {docs[i] : i \in {i \in DOMAIN docs : docs[i].user = u}}
SameKind(u, t) == {i \in DOMAIN docs : docs[i].user = u /\ docs[i].type = t}

Complete(D) == \A t \in Mandatory : \E d \in D : d.type = t /\ d.status = "verified"

(* Mutant: the documents a user need not send in are not looked at.        *)
RolledUpMandatory(D) ==
    IF \E d \in D : d.status = "rejected" THEN "rejected"
    ELSE IF Complete(D) THEN "verified" ELSE "pending"

RolledUp(D) ==
    IF \E d \in D : d.status = "rejected" THEN "rejected"
    ELSE IF Complete(D) /\ \A d \in D : d.status = "verified" THEN "verified"
    ELSE "pending"

-----------------------------------------------------------------------------
(* Running a call.                                                         *)

Free(h) == call[h] = NoCall /\ calls < MaxCalls
Todo(name) == <<[do |-> name]>>
OnDoc(name, i, value) == <<[do |-> name, id |-> i, value |-> value]>>
With(name, value) == <<[do |-> name, value |-> value]>>

Begin(h, what, u, todo) ==
    /\ call' = [call EXCEPT ![h] = [NoCall EXCEPT !.what = what, !.user = u, !.todo = todo]]
    /\ calls' = calls + 1
    /\ UNCHANGED <<account, profile, docs, screen, mailed, lastId, cuts>>

Doing(h, name) == call[h].todo # <<>> /\ Head(call[h].todo).do = name
Now(h) == Head(call[h].todo)
Rest(h) == Tail(call[h].todo)
GoesWith(h, found, rolled) ==
    call' = [call EXCEPT ![h] = IF Rest(h) = <<>> THEN NoCall
                                ELSE [@ EXCEPT !.found = found, !.rolled = rolled, !.todo = Rest(h)]]
Goes(h) == GoesWith(h, call[h].found, call[h].rolled)
Ends(h) == call' = [call EXCEPT ![h] = NoCall]

NewDoc(h) ==
    /\ Doing(h, "newDoc")
    /\ IF account[call[h].user] = "none" THEN Ends(h) /\ UNCHANGED <<docs, lastId>>
       ELSE /\ lastId' = lastId + 1
            /\ docs' = [i \in DOMAIN docs \cup {lastId'} |->
                          IF i = lastId'
                          THEN [user |-> call[h].user, type |-> Now(h).value, upload |-> lastId', status |-> "pending"]
                          ELSE docs[i]]
            /\ Goes(h)
    /\ UNCHANGED <<account, profile, screen, mailed, calls, cuts>>

(* By id, whatever has become of the row since it was read.                *)
Replace(h) ==
    /\ Doing(h, "replace")
    /\ lastId' = lastId + 1
    /\ docs' = IF Now(h).id \in DOMAIN docs
               THEN [docs EXCEPT ![Now(h).id].upload = lastId', ![Now(h).id].status = "pending"]
               ELSE docs
    /\ Goes(h)
    /\ UNCHANGED <<account, profile, screen, mailed, calls, cuts>>

Judge(h) ==
    /\ Doing(h, "judge")
    /\ docs' = IF Now(h).id \in DOMAIN docs THEN [docs EXCEPT ![Now(h).id].status = Now(h).value] ELSE docs
    /\ GoesWith(h, Now(h).id \in DOMAIN docs, call[h].rolled)
    /\ UNCHANGED <<account, profile, screen, mailed, lastId, calls, cuts>>

DropDocs(h) ==
    /\ Doing(h, "drop")
    /\ docs' = [i \in DOMAIN docs \ Now(h).value |-> docs[i]]
    /\ Goes(h)
    /\ UNCHANGED <<account, profile, screen, mailed, lastId, calls, cuts>>

DropAllDocs(h) ==
    /\ Doing(h, "dropAll")
    /\ docs' = [i \in {i \in DOMAIN docs : docs[i].user # call[h].user} |-> docs[i]]
    /\ Goes(h)
    /\ UNCHANGED <<account, profile, screen, mailed, lastId, calls, cuts>>

(* rollUpKycStatus reads the documents, then writes the status.            *)
ReadDocs(h) ==
    /\ Doing(h, "read")
    /\ GoesWith(h, call[h].found, RolledUp(DocsOf(call[h].user)))
    /\ UNCHANGED <<account, profile, docs, screen, mailed, lastId, calls, cuts>>

WriteStatus(h) ==
    /\ Doing(h, "write")
    /\ profile' = [u \in DOMAIN profile |->
                     IF u = call[h].user THEN [profile[u] EXCEPT !.kyc = call[h].rolled] ELSE profile[u]]
    /\ Goes(h)
    /\ UNCHANGED <<account, docs, screen, mailed, lastId, calls, cuts>>

(* The mail of a rejection quotes the updated row, and fails without it.   *)
Mail(h) ==
    /\ Doing(h, "mail")
    /\ mailed' = IF call[h].rolled = "verified" \/ (call[h].rolled = "rejected" /\ call[h].found)
                 THEN [mailed EXCEPT ![call[h].user] = call[h].rolled] ELSE mailed
    /\ Goes(h)
    /\ UNCHANGED <<account, profile, docs, screen, lastId, calls, cuts>>

Edited(row, fields) ==
    [kyc |-> IF "kyc" \in DOMAIN fields THEN fields.kyc ELSE row.kyc,
     online |-> IF "online" \in DOMAIN fields THEN fields.online ELSE row.online]

SetProfile(h) ==
    /\ Doing(h, "profile")
    /\ profile' = [u \in DOMAIN profile |->
                     IF u = call[h].user THEN Edited(profile[u], Now(h).value) ELSE profile[u]]
    /\ Goes(h)
    /\ UNCHANGED <<account, docs, screen, mailed, lastId, calls, cuts>>

SetAccount(h) ==
    /\ Doing(h, "account")
    /\ account' = [account EXCEPT ![call[h].user] =
                     IF @ = "none" /\ call[h].what # "createPartner" THEN @ ELSE Now(h).value]
    /\ Goes(h)
    /\ UNCHANGED <<profile, docs, screen, mailed, lastId, calls, cuts>>

NewProfile(h) ==
    /\ Doing(h, "newProfile")
    /\ IF call[h].user \in DOMAIN profile \/ account[call[h].user] = "none"
       THEN Ends(h) /\ UNCHANGED profile
       ELSE /\ Goes(h)
            /\ profile' = [u \in DOMAIN profile \cup {call[h].user} |->
                             IF u = call[h].user THEN Now(h).value ELSE profile[u]]
    /\ UNCHANGED <<account, docs, screen, mailed, lastId, calls, cuts>>

(* A user row that orders refer to is scrubbed instead, and a rider's row  *)
(* set offline.                                                            *)
Scrub(what) ==
    (IF what = "deletePartner" THEN With("profile", [online |-> FALSE]) ELSE <<>>) \o With("account", "suspended")

HardDelete(h) ==
    LET u == call[h].user IN
    /\ Doing(h, "delete")
    /\ IF u \in HasOrders
       THEN /\ call' = [call EXCEPT ![h].todo = Scrub(call[h].what)]
            /\ UNCHANGED <<account, profile, docs>>
       ELSE /\ account' = [account EXCEPT ![u] = "none"]
            /\ profile' = [w \in DOMAIN profile \ {u} |-> profile[w]]
            /\ docs' = [i \in {i \in DOMAIN docs : docs[i].user # u} |-> docs[i]]
            /\ Goes(h)
    /\ UNCHANGED <<screen, mailed, lastId, calls, cuts>>

Cut(h) ==
    /\ call[h] # NoCall /\ cuts < MaxCuts
    /\ Ends(h) /\ cuts' = cuts + 1
    /\ UNCHANGED <<account, profile, docs, screen, mailed, lastId, calls>>

Step(h) ==
    \/ NewDoc(h) \/ Replace(h) \/ Judge(h) \/ DropDocs(h) \/ DropAllDocs(h) \/ ReadDocs(h) \/ WriteStatus(h)
    \/ Mail(h) \/ SetProfile(h) \/ SetAccount(h) \/ NewProfile(h) \/ HardDelete(h) \/ Cut(h)

-----------------------------------------------------------------------------
(* The calls.                                                              *)

RollUp == Todo("read") \o Todo("write")

Existing(u, t) == SameKind(u, t)

SaveKycDocument(h, u, t) ==
    /\ account[u] = "active"
    /\ IF Existing(u, t) = {} THEN Begin(h, "save", u, With("newDoc", t) \o RollUp)
       ELSE \E i \in Existing(u, t) : Begin(h, "save", u, OnDoc("replace", i, t) \o RollUp)

Removal(u, i) == With("drop", {i}) \o RollUp

DeleteKycDocument(h, i) ==
    LET u == docs[i].user IN account[u] = "active" /\ Begin(h, "delete", u, Removal(u, i))

(* listAllKycDocuments: what the admin then looks at.                      *)
ListAllKycDocuments ==
    /\ screen' = [i \in {i \in DOMAIN docs : account[docs[i].user] = "active"} |-> docs[i].upload]
    /\ screen' # screen
    /\ UNCHANGED <<account, profile, docs, mailed, call, lastId, calls, cuts>>

(* Mutant: the mail goes out before the documents are counted.             *)
MailFirst == Todo("mail") \o RollUp

ThenMail == RollUp \o Todo("mail")

ReviewKycDocument(h, i, status) ==
    /\ i \in DOMAIN docs
    /\ Begin(h, "review", docs[i].user, OnDoc("judge", i, status) \o ThenMail)

UpdateAdminVendor(h, v, status) ==
    v \in DOMAIN profile /\ Begin(h, "updateVendor", v, With("profile", [kyc |-> status]))

CreateAdminPartner(h, r, status) ==
    /\ account[r] \in {"none", "active"} /\ r \notin DOMAIN profile
    /\ Begin(h, "createPartner", r,
             (IF account[r] = "none" THEN With("account", "active") ELSE <<>>)
               \o With("newProfile", [kyc |-> status, online |-> TRUE]))

UpdateAdminPartner(h, r, fields, status) ==
    /\ r \in DOMAIN profile
    /\ Begin(h, "updatePartner", r, With("profile", fields) \o With("account", status))

(* Deletions of an account that no open order holds up.                    *)
Erase == Todo("dropAll") \o Todo("delete")
Leave == Todo("dropAll") \o With("account", "suspended")

DeleteAdminPartner(h, r) ==
    r \in DOMAIN profile /\ Begin(h, "deletePartner", r, Erase)

DeleteAdminVendor(h, v) ==
    v \in DOMAIN profile /\ Begin(h, "deleteVendor", v, Erase)

DeleteUser(h, u) ==
    account[u] # "none" /\ Begin(h, "deleteUser", u, Erase)

(* By the user himself; the shop's own page has deleteVendorAccount.       *)
DeleteAccount(h, u) ==
    /\ account[u] = "active"
    /\ Begin(h, "deleteAccount", u,
             IF u \in Riders THEN With("profile", [online |-> FALSE]) \o Leave ELSE Leave)

DeleteVendorAccount(h, v) ==
    /\ account[v] = "active" /\ v \in DOMAIN profile
    /\ Begin(h, "deleteAccount", v, Leave)

PartnerFields == {[kyc |-> s] : s \in Statuses} \cup {[online |-> b] : b \in BOOLEAN}

KycNext ==
    \/ \E h \in Slots : Step(h)
    \/ calls < MaxCalls /\ ListAllKycDocuments
    \/ \E h \in Slots : Free(h) /\ \E u \in Users, t \in Types : SaveKycDocument(h, u, t)
    \/ \E h \in Slots : Free(h) /\ \E i \in DOMAIN docs : DeleteKycDocument(h, i)
    \/ \E h \in Slots : Free(h) /\ \E i \in DOMAIN screen, s \in {"verified", "rejected"} : ReviewKycDocument(h, i, s)
    \/ \E h \in Slots : Free(h) /\ \E v \in Merchants, s \in Statuses : UpdateAdminVendor(h, v, s)
    \/ \E h \in Slots : Free(h) /\ \E r \in Riders, s \in Statuses : CreateAdminPartner(h, r, s)
    \/ \E h \in Slots : Free(h) /\ \E r \in Riders, fields \in PartnerFields, s \in {"active", "suspended"} :
         UpdateAdminPartner(h, r, fields, s)
    \/ \E h \in Slots : Free(h) /\ \E r \in Riders : DeleteAdminPartner(h, r)
    \/ \E h \in Slots : Free(h) /\ \E v \in Merchants : DeleteAdminVendor(h, v) \/ DeleteVendorAccount(h, v)
    \/ \E h \in Slots : Free(h) /\ \E u \in Users : DeleteUser(h, u) \/ DeleteAccount(h, u)

KycSpec == KycInit /\ [][KycNext]_kycVars
=============================================================================
