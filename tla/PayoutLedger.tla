---------------------------- MODULE PayoutLedger ----------------------------
(***************************************************************************)
(* What the vendor payout screen promises, with nothing of how it is done: *)
(* per vendor, money is earned, part of the free balance is held back by a *)
(* request, and a held amount is either paid out or released as a whole.   *)
(* VendorWithdrawal implements this specification.                         *)
(***************************************************************************)
EXTENDS Integers

CONSTANT Vendors

VARIABLES earned,   \* [vendor -> everything the vendor's orders earned]
          held,     \* [vendor -> amount waiting for the admin's decision]
          paidOut   \* [vendor -> amount sent so far]

ledgerVars == <<earned, held, paidOut>>

(* The class comment of VendorWithdrawalService: available = earned -      *)
(* approved - pending.                                                     *)
Free(v) == earned[v] - paidOut[v] - held[v]

Init ==
    /\ earned = [v \in Vendors |-> 0]
    /\ held = [v \in Vendors |-> 0]
    /\ paidOut = [v \in Vendors |-> 0]

Earn(v) ==
    /\ earned' = [earned EXCEPT ![v] = earned'[v]]
    /\ earned'[v] - earned[v] \in Nat
    /\ UNCHANGED <<held, paidOut>>

(* One request at a time, and never for more than is free. *)
Hold(v) ==
    /\ held[v] = 0
    /\ \E amount \in 1 .. Free(v) : held' = [held EXCEPT ![v] = amount]
    /\ UNCHANGED <<earned, paidOut>>

PayOut(v) ==
    /\ held[v] > 0
    /\ paidOut' = [paidOut EXCEPT ![v] = @ + held[v]]
    /\ held' = [held EXCEPT ![v] = 0]
    /\ UNCHANGED earned

Release(v) ==
    /\ held[v] > 0
    /\ held' = [held EXCEPT ![v] = 0]
    /\ UNCHANGED <<earned, paidOut>>

Next == \E v \in Vendors : Earn(v) \/ Hold(v) \/ PayOut(v) \/ Release(v)

Spec == Init /\ [][Next]_ledgerVars
=============================================================================
