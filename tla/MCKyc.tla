-------------------------------- MODULE MCKyc --------------------------------
(***************************************************************************)
(* Instances of Kyc for TLC, with a history of the behaviour.              *)
(***************************************************************************)
EXTENDS Kyc

CONSTANTS h1, h2, m1, r1, r2

(* A vendor who has sent in one document, a rider with a past who is       *)
(* verified, a rider who is not there yet.                                 *)
TwoAccounts == m1 :> "active" @@ r1 :> "active" @@ r2 :> "none"
TwoProfiles == m1 :> [kyc |-> "pending", online |-> FALSE] @@ r1 :> [kyc |-> "verified", online |-> FALSE]
VerifiedDoc(u, t, id) == [user |-> u, type |-> t, upload |-> id, status |-> "verified"]
ThreeDocs == <<VerifiedDoc(m1, "front", 1), VerifiedDoc(r1, "front", 2), VerifiedDoc(r1, "back", 3)>>

VARIABLES
    oneCall,    \* calls did not overlap and none was cut short
    byHand,     \* the users whose status an admin has set since it was rolled up
    emptied     \* those whose documents the deletion of their account took since: the
                \* status of a row that orders keep stays as it was

kycHistory == <<kycVars, oneCall, byHand, emptied>>

MCKycInit ==
    /\ KycInit
    /\ oneCall = TRUE
    /\ byHand = {u \in DOMAIN FirstProfiles : FirstProfiles[u].kyc # RolledUp(DocsOf(u))}
    /\ emptied = {}

Writes(u, names) == \E h \in Slots : call[h].user = u /\ call'[h] # call[h] /\ \E n \in names : Doing(h, n)
Sets(u) ==
    \/ Writes(u, {"newProfile"})
    \/ \E h \in Slots : call[h].user = u /\ call'[h] # call[h] /\ Doing(h, "profile") /\ "kyc" \in DOMAIN Now(h).value

MCKycNext ==
    /\ KycNext
    /\ oneCall' = (oneCall /\ cuts' = cuts /\ \A h, k \in Slots : h # k => call'[h] = NoCall \/ call'[k] = NoCall)
    /\ byHand' = {u \in Users : ~Writes(u, {"write"}) /\ (u \in byHand \/ Sets(u))}
    /\ emptied' = {u \in Users : ~Writes(u, {"write"}) /\ (u \in emptied \/ Writes(u, {"dropAll"}))}

MCKycSpec == MCKycInit /\ [][MCKycNext]_kycHistory

-----------------------------------------------------------------------------

Quiet == \A h \in Slots : call[h] = NoCall

(* Between calls that do not overlap, whoever counts as verified, without  *)
(* an admin having said so or the account having been deleted since the    *)
(* status was rolled up, has sent in every mandatory document, and all     *)
(* that he has sent in is verified.                                        *)
Verified ==
    oneCall /\ Quiet =>
      \A u \in DOMAIN profile \ (byHand \cup emptied) :
        profile[u].kyc = "verified" =>
          /\ \A t \in Mandatory : SameKind(u, t) # {}
          /\ \A i \in DOMAIN docs : docs[i].user = u => docs[i].status = "verified"

(* Whoever is left with a rejected document was told so, and nothing else  *)
(* since.                                                                  *)
RejectionTold ==
    oneCall /\ Quiet =>
      \A u \in DOMAIN profile \ (byHand \cup emptied) : profile[u].kyc = "rejected" => mailed[u] = "rejected"

(* What Verified says of documents, of every account in use: also of one   *)
(* that was deleted and that an admin has taken up again.                  *)
ActiveHasDocuments ==
    oneCall /\ Quiet =>
      \A u \in DOMAIN profile \ byHand :
        profile[u].kyc = "verified" /\ account[u] = "active" => \A t \in Mandatory : SameKind(u, t) # {}

(* Verified with calls that overlap: two reviews, a review and an upload.  *)
VerifiedAtOnce ==
    cuts = 0 /\ Quiet =>
      \A u \in DOMAIN profile \ (byHand \cup emptied) :
        profile[u].kyc = "verified" => \A i \in DOMAIN docs : docs[i].user = u => docs[i].status = "verified"

(* An admin judges the upload he has looked at.                            *)
JudgedAsSeen ==
    [][\A i \in DOMAIN docs \cap DOMAIN docs' :
         docs'[i].status \notin {docs[i].status, "pending"} => i \in DOMAIN screen /\ screen[i] = docs[i].upload]_kycHistory
=============================================================================
