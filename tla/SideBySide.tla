------------------------------ MODULE SideBySide ------------------------------
(***************************************************************************)
(* Six components that share no state with one another.  What one of them  *)
(* does changes nothing that another reads, so that each is explored while *)
(* the others rest: `part` says which one moves.                           *)
(***************************************************************************)
EXTENDS AuthSession, InvoiceMoney, Notifications, BoardMonitor, WorkerStatus, KsefClient

VARIABLE part   \* the component that moves

sideVars == <<part, authVars, moneyVars, notifyVars, boardVars, statusVars, clientVars>>

Parts == {"auth", "money", "notifications", "board", "status", "client"}

\* A component that rests needs only one of its initial states.
SideInit ==
  /\ part \in Parts
  /\ AuthInit /\ (part = "auth" \/ ~account.totp)
  /\ MoneyInit
  /\ NotifyInit
  /\ BoardInit /\ (part = "board" \/ \A i \in Issues : board[i] = Off)
  /\ StatusInit
  /\ ClientInit /\ (part = "client" \/ users = Requests)

AuthMoves ==
  /\ part = "auth" /\ AuthNext
  /\ UNCHANGED <<part, moneyVars, notifyVars, boardVars, statusVars, clientVars>>

MoneyMoves ==
  /\ part = "money" /\ MoneyNext
  /\ UNCHANGED <<part, authVars, notifyVars, boardVars, statusVars, clientVars>>

NotifyMoves ==
  /\ part = "notifications" /\ NotifyNext
  /\ UNCHANGED <<part, authVars, moneyVars, boardVars, statusVars, clientVars>>

BoardMoves ==
  /\ part = "board" /\ BoardNext
  /\ UNCHANGED <<part, authVars, moneyVars, notifyVars, statusVars, clientVars>>

StatusMoves ==
  /\ part = "status" /\ StatusNext
  /\ UNCHANGED <<part, authVars, moneyVars, notifyVars, boardVars, clientVars>>

ClientMoves ==
  /\ part = "client" /\ ClientNext
  /\ UNCHANGED <<part, authVars, moneyVars, notifyVars, boardVars, statusVars>>

SideNext ==
  \/ AuthMoves
  \/ MoneyMoves
  \/ NotifyMoves
  \/ BoardMoves
  \/ StatusMoves
  \/ ClientMoves

SideSpec == SideInit /\ [][SideNext]_sideVars

-----------------------------------------------------------------------------
\* Every component keeps its types.
TypesOK ==
  /\ part \in Parts
  /\ AuthTypeOK
  /\ MoneyTypeOK
  /\ NotifyTypeOK
  /\ BoardTypeOK
  /\ StatusTypeOK
  /\ ClientTypeOK

=============================================================================
