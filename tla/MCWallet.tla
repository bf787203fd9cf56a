------------------------------ MODULE MCWallet ------------------------------
(***************************************************************************)
(* Instances of Wallet for TLC, with a history of the behaviour.           *)
(***************************************************************************)
EXTENDS Wallet, TLC

CONSTANTS h1, h2

SlotSymmetry == Permutations({h1, h2})

VARIABLES
    alone,    \* no two calls overlapped and no date turned during a call
    dated,    \* nothing was paid in full, past the dated credits
    revived   \* the admin made a used or expired card scratchable again

MCInit == Init /\ alone = TRUE /\ dated = TRUE /\ revived = FALSE

MCNext ==
    /\ Next
    /\ alone' = (alone /\ (<<made, day>>' = <<made, day>> \/ Quiet))
    /\ dated' = (dated /\ \A h \in Slots : run'[h].call # "payFull")
    /\ revived' = (revived \/ /\ card.status \in {"expired", "scratched"}
                              /\ card'.status = "unscratched")

MCSpec == MCInit /\ [][MCNext]_<<vars, alone, dated, revived>>

(* One call at a time, and as long as every payment uses up the credits,   *)
(* whatever may still be spent is in the wallet, also once everything      *)
(* overdue is taken.                                                       *)
CreditsCoveredAlone == alone /\ dated /\ Quiet => CreditsCovered

(* A card the admin does not revive pays out once, however often it is     *)
(* scratched at the same time.                                             *)
CardPaysOnceLeft == revived \/ CardPaysOnce
=============================================================================
