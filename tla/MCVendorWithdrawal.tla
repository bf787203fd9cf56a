------------------------- MODULE MCVendorWithdrawal -------------------------
(***************************************************************************)
(* Instances of VendorWithdrawal for TLC, with a history of the behaviour. *)
(***************************************************************************)
EXTENDS VendorWithdrawal, TLC

CONSTANTS v1, s1, s2, w1, w2

TwoTaps == s1 :> v1 @@ s2 :> v1

Symmetry == Permutations(Ids) \cup Permutations(Sessions)

VARIABLE alone    \* no vendor has had two calls of request() at once

MCInit == Init /\ alone = TRUE
MCNext == Next /\ alone' = (alone /\ Serial')
MCSpec == MCInit /\ [][MCNext]_<<vars, alone>>

(* As long as a vendor taps once at a time, no request asks for money that *)
(* is not there, whatever the admin decides and sets in between.           *)
NeverOverdrawnAlone == alone => NeverOverdrawn

(* As long as a vendor taps once at a time, no order is paid by two        *)
(* approved requests.                                                      *)
PeriodsDisjointAlone == alone => PeriodsDisjoint

(* As long as a vendor taps once at a time, the service implements the     *)
(* ledger of the payout screen: money is held only when free, and a held   *)
(* amount is paid out or released whole.                                   *)
LedgerSpecAlone == Ledger!Init /\ [][alone' => Ledger!Next]_<<Ledger!ledgerVars>>
=============================================================================
