---------------------------- MODULE MCNotification ----------------------------
(***************************************************************************)
(* Notification with one history variable: `mixed` has the tokens that two *)
(* accounts were registering at once, until a registration takes the token *)
(* while no other account registers it.  The instance: one phone is signed *)
(* in and registered, the other is new.                                    *)
(***************************************************************************)
EXTENDS Notification, TLC

CONSTANTS u1, u2, phone1, phone2, call1, call2

TwoPhones == phone1 :> [user |-> u1, token |-> 1] @@ phone2 :> [user |-> Nobody, token |-> 2]
OneRow == 3 :> [user |-> u1, token |-> 1]
OneReachable == u1 :> {"email"} @@ u2 :> {"sms"}

HandlerSymmetry == Permutations(Handlers)

VARIABLE mixed

mcVars == <<vars, mixed>>

(* The registration h takes another account's token from under it.         *)
Disputed(h) ==
    \E k \in Handlers : call[k] # Idle /\ call[k].token = call[h].token /\ call[k].user # call[h].user

Starts(h) == call[h] = Idle /\ call'[h] # Idle
Takes(h) == call[h].step = "take" /\ call'[h].step = "read"

Mixed ==
    mixed' = (mixed \ {call[h].token : h \in {k \in Handlers : Takes(k) /\ ~Disputed(k)}})
                \cup {call'[h].token : h \in {k \in Handlers : Starts(k) /\ Disputed(k)'}}

MCInit == Init /\ mixed = {}
MCNext == Next /\ Mixed
MCSpec == MCInit /\ [][MCNext]_mcVars

-----------------------------------------------------------------------------

(* All the rows with one device's token are of one user, registerDevice-   *)
(* Token's "so previous accounts on this device don't receive pushes",     *)
(* whatever else registers, signs out, is installed again or is cut short, *)
(* unless two accounts registered that token at once and none has          *)
(* registered it by itself since.                                          *)
OneAccountPerDevice ==
    \A i, k \in DOMAIN row :
        row[i].token = row[k].token /\ row[i].token \notin mixed => row[i].user = row[k].user

(* The same without the exception, and not kept: A has read its row, B     *)
(* takes the token on the same phone and writes its own, A writes by id.   *)
OneAccountAlways ==
    \A i, k \in DOMAIN row : row[i].token = row[k].token => row[i].user = row[k].user
=============================================================================
