---------------------------- MODULE ServiceCommands ----------------------------
(* Records through which the agents of a workspace and the processes of a user *)
(* keep out of each other's way: claims on issues, leases on workspaces, and   *)
(* the permits of the spend ledger.  They are in files of their own, and what  *)
(* one holds decides nothing in another, so a behaviour takes the steps of one *)
(* of them: interleaving them would show nothing more.                         *)
EXTENDS ClaimService, WorkspaceLease, SpendLedger

VARIABLE record  \* the record that takes steps

serviceVars == <<record, issueVars, leaseVars, spendVars>>

ServiceTypeOK ==
  /\ record \in {"claims", "leases", "spend"}
  /\ IssueTypeOK
  /\ LeaseTypeOK
  /\ SpendTypeOK

ServiceInit ==
  /\ record \in {"claims", "leases", "spend"}
  /\ IssueInit
  /\ LeaseInit
  /\ SpendInit

ServiceNext ==
  /\ UNCHANGED record
  /\ \/ record = "claims" /\ IssueNext /\ UNCHANGED <<leaseVars, spendVars>>
     \/ record = "leases" /\ SerialNext /\ UNCHANGED <<issueVars, spendVars>>
     \/ record = "spend" /\ SpendNext /\ UNCHANGED <<issueVars, leaseVars>>

ServiceSpec == ServiceInit /\ [][ServiceNext]_serviceVars
================================================================================
