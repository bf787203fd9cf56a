------------------------------ MODULE MCAccount ------------------------------
(***************************************************************************)
(* Instances of Account for TLC, with a history of the behaviour.          *)
(***************************************************************************)
EXTENDS Account, TLC

CONSTANTS h1, h2, d1, d2, d3, d4, p1, p2, c1, c2

(* A customer with an address, signed in on one app, who was sent a code   *)
(* and mistyped it once; a rider who has no row of his own yet; a vendor   *)
(* signed in on a second app; and an admin.                                *)
Customer == UserRow(p1, "customer", TRUE, TRUE, None)
Vendor == UserRow(p2, "vendor", TRUE, TRUE, None)
Admin == UserRow(p2, "admin", TRUE, TRUE, None)
Rider == UserRow(p2, "delivery_partner", TRUE, TRUE, None)
FourUsers ==
    [user |-> 1 :> Customer @@ 2 :> Rider @@ 6 :> Vendor @@ 7 :> Admin,
     profile |-> 6 :> TRUE, documents |-> {2},
     token |-> 3 :> [user |-> 1, revoked |-> Never] @@ 8 :> [user |-> 6, revoked |-> Never],
     otp |-> 4 :> [phone |-> p1, role |-> "customer", purpose |-> "login", tries |-> 1, unused |-> TRUE],
     address |-> 5 :> [user |-> 1, main |-> TRUE]]
TwoSignedIn == d1 :> [token |-> 3, user |-> 1, since |-> Never] @@ d2 :> [token |-> 8, user |-> 6, since |-> Never]
                 @@ d3 :> SignedOut @@ d4 :> SignedOut

Symmetry == Permutations({h1, h2}) \cup Permutations({d3, d4})

VARIABLES
    alone,      \* calls did not overlap and none was cut short
    told,       \* the codes users were told are theirs
    enrolled,   \* the riders and vendors whose sign-in as one was answered
    accepted,   \* how many calls a code from a phone let in
    ended       \* the users whose sessions a deletion, or an admin's reset, began to end

accountHistory == <<accountVars, alone, told, enrolled, accepted, ended>>

MCAccountInit == AccountInit /\ alone = TRUE /\ told = {} /\ enrolled = {} /\ accepted = 0 /\ ended = {}

Answered(h) == request[h] # NoRequest /\ ~Busy(h) /\ request'[h] = NoRequest /\ cuts' = cuts

Told == {h \in Slots : Answered(h) /\ request[h].code # None}
Enrolling == {h \in Slots : Answered(h) /\ request[h].what \in {"register", "partnerLogin"}}
Ending == {h \in Slots : request'[h].what \in {"deleteAccount", "deleteUser", "deleteMember", "resetVendor"}}
LetIn == {h \in Slots : request[h] = NoRequest /\ request'[h].what \in {"verifyOtp", "resetPassword"}}

MCAccountNext ==
    /\ AccountNext
    /\ alone' = (alone /\ cuts' = cuts /\ \A h, k \in Slots : h # k => request'[h] = NoRequest \/ request'[k] = NoRequest)
    /\ told' = told \cup {<<request[h].user, request[h].code>> : h \in Told}
    /\ enrolled' = enrolled \cup {request[h].user : h \in Enrolling}
    /\ accepted' = accepted + (IF LetIn # {} THEN 1 ELSE 0)
    /\ ended' = ended \cup {request'[h].user : h \in Ending}

MCAccountSpec == MCAccountInit /\ [][MCAccountNext]_accountHistory

-----------------------------------------------------------------------------

(* A user who was told a referral code keeps it: referral-code.ts, "Safe   *)
(* to call repeatedly and concurrently".                                   *)
ToldCodesStay == \A t \in told : t[1] \in DOMAIN user => user[t[1]].code = t[2]

(* Whoever signed in as a rider, or registered as a rider or a vendor, has *)
(* the row that orders and deliveries are about, whatever was cut short    *)
(* before.                                                                 *)
EnrolledHasProfile == \A u \in enrolled \cap DOMAIN user : u \in DOMAIN profile

(* A code sent to a phone lets one call in, unless two use it at once.     *)
CodeUsedOnce == alone => accepted <= Cardinality(DOMAIN otp)

(* An app is signed out only when it retried the same token for as long as *)
(* a rotated token is answered, or when its account was deleted, or an     *)
(* admin had set the vendor's password: refresh, "re-issue tokens so the   *)
(* client doesn't get logged out".                                         *)
NotLoggedOut ==
    [][\A d \in Apps :
         device[d].token # None /\ device'[d].token = None =>
           \/ device[d].since # Never /\ now - device[d].since >= Grace
           \/ device[d].user \in ended]_accountHistory
=============================================================================
