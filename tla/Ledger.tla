------------------------------- MODULE Ledger -------------------------------
(***************************************************************************)
(* What the monitor promises about bytes, whichever collector does the     *)
(* work: an account (a traffic class in one direction) is only ever booked *)
(* bytes that were carried on the network, what is booked is never taken   *)
(* back, and a byte may be forfeited but not booked twice.                 *)
(*                                                                         *)
(* The promise lasts as long as the counting point was installed cleanly;  *)
(* a Taint step ends it.  NftCollector and ConntrackCollector implement    *)
(* this module.                                                            *)
(***************************************************************************)
EXTENDS Integers

CONSTANT Accounts

VARIABLES
  carried,  \* bytes the network carried for each account
  booked,   \* bytes the database holds for each account
  trusted   \* no byte can have been counted twice so far

ledgerVars == <<carried, booked, trusted>>

LedgerInit ==
  /\ carried = [a \in Accounts |-> 0]
  /\ booked = [a \in Accounts |-> 0]
  /\ trusted = TRUE

(* The network carries traffic that is accounted for. *)
Carry ==
  /\ \A a \in Accounts : carried'[a] >= carried[a]
  /\ UNCHANGED <<booked, trusted>>

(* One transaction books bytes, never more than were carried. *)
Book ==
  /\ \A a \in Accounts :
       /\ booked'[a] >= booked[a]
       /\ trusted => booked'[a] <= carried[a]
  /\ UNCHANGED <<carried, trusted>>

Taint ==
  /\ trusted' = FALSE
  /\ UNCHANGED <<carried, booked>>

LedgerNext == Carry \/ Book \/ Taint

LedgerSpec == LedgerInit /\ [][LedgerNext]_ledgerVars
=============================================================================
