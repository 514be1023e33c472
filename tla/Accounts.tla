----------------------------- MODULE Accounts -----------------------------
(***************************************************************************)
(* The owners of an organization: the first is invited by an operator's    *)
(* command and accepts over the API, the others come and go by requests of *)
(* owners, and a trigger keeps the last one.                               *)
(*                                                                         *)
(* Transactions are modelled by the row locks they wait for.  A command    *)
(* locks the organization, then the invitation it finds; an acceptance     *)
(* locks the invitation, then (by the foreign key of the member it         *)
(* inserts) the organization.  So two of them may wait for each other, and *)
(* the database fails one: TransactionFails stands for that, and for lost  *)
(* connections and crashes.  An organization is inserted with its first    *)
(* invitation.  An acceptance after the expiry is refused, which is the    *)
(* same as none, so time is left out.  A token is named for its command.   *)
(***************************************************************************)
EXTENDS Naturals, Sequences

CONSTANTS
  Orgs,
  Addresses,     \* normalized email addresses, each of one person
  Callers        \* bound: one command, acceptance or request each

VARIABLES
  invitations,   \* of each organization, its rows in the order of insertion
  users,         \* addresses with an account
  owners,        \* of each organization
  mails,         \* tokens that reached the invited
  calls          \* what each caller is doing, with the locks it holds

accounts == <<invitations, users, owners, mails, calls>>

-----------------------------------------------------------------------------
NotCalled == [step |-> "new"]
Ended == [step |-> "done"]

AccountsInit ==
  /\ invitations = [o \in Orgs |-> <<>>]
  /\ users = {}
  /\ owners = [o \in Orgs |-> {}]
  /\ mails = {}
  /\ calls = [c \in Callers |-> NotCalled]

Ends(c) == calls' = [calls EXCEPT ![c] = Ended]

OrganizationLocked(o) ==
  \E c \in Callers :
    calls[c].step \in {"inviting", "demoting"} /\ calls[c].org = o
InvitationLocked(o, i) ==
  \E c \in Callers :
    calls[c].step = "accepting" /\ calls[c].org = o /\ calls[c].row = i

Unconsumed(o) ==
  {i \in DOMAIN invitations[o] : ~invitations[o][i].consumed}

Rows == UNION {{o} \X DOMAIN invitations[o] : o \in Orgs}

(* The command locks the organization and refuses one that has an owner.    *)
StartInvitation(c, o, a) ==
  /\ calls[c] = NotCalled
  /\ ~OrganizationLocked(o)
  /\ owners[o] = {}
  /\ calls' = [calls EXCEPT ![c] = [step |-> "inviting", org |-> o, to |-> a]]
  /\ UNCHANGED <<invitations, users, owners, mails>>

(* It waits for an acceptance that holds the pending invitation, and reads  *)
(* it when that ended.  The token of an earlier mail is replaced.           *)
CommitInvitation(c) ==
  /\ calls[c].step = "inviting"
  /\ LET o == calls[c].org
         a == calls[c].to
     IN  IF Unconsumed(o) = {}
         THEN /\ invitations' = [invitations EXCEPT ![o] = Append(@,
                    [to |-> a, token |-> c, consumed |-> FALSE])]
              /\ calls' = [calls EXCEPT ![c] = [step |-> "mailing"]]
         ELSE \E i \in Unconsumed(o) :
                /\ ~InvitationLocked(o, i)
                /\ IF invitations[o][i].to = a
                   THEN /\ invitations' =
                             [invitations EXCEPT ![o][i].token = c]
                        /\ calls' = [calls EXCEPT ![c] = [step |-> "mailing"]]
                   ELSE Ends(c) /\ UNCHANGED invitations
  /\ UNCHANGED <<users, owners, mails>>

(* After the commit, so a mail may be lost, and mails may arrive in another *)
(* order than that of their commands.                                       *)
SendInvitation(c) ==
  /\ calls[c].step = "mailing"
  /\ Ends(c)
  /\ mails' \in {mails, mails \union {c}}
  /\ UNCHANGED <<invitations, users, owners>>

-----------------------------------------------------------------------------
(* The invited sends a token and a password, which is hashed first.         *)
AskAcceptance(c, t) ==
  /\ calls[c] = NotCalled
  /\ t \in mails
  /\ calls' = [calls EXCEPT ![c] = [step |-> "hashing", token |-> t]]
  /\ UNCHANGED <<invitations, users, owners, mails>>

(* The row that still has the token is locked, if it is not consumed and    *)
(* its address has no account.                                              *)
StartAcceptance(c) ==
  /\ calls[c].step = "hashing"
  /\ LET Open == {row \in Rows :
                   LET invitation == invitations[row[1]][row[2]]
                   IN  /\ ~invitation.consumed
                       /\ invitation.token = calls[c].token
                       /\ invitation.to \notin users}
     IN  IF Open = {}
         THEN Ends(c)
         ELSE \E row \in Open :
                /\ ~InvitationLocked(row[1], row[2])
                /\ calls' = [calls EXCEPT ![c] =
                     [step |-> "accepting", org |-> row[1], row |-> row[2]]]
  /\ UNCHANGED <<invitations, users, owners, mails>>

(* The member's foreign key waits for whoever has locked the organization.  *)
(* An address that got an account meanwhile breaks a unique index.          *)
(*                                                                          *)
(* Mutant: members have no foreign key to their organization.               *)
CommitAcceptance_Unlinked(c) ==
  /\ calls[c].step = "accepting"
  /\ LET o == calls[c].org
         i == calls[c].row
         a == invitations[o][i].to
     IN  /\ a \notin users
         /\ users' = users \union {a}
         /\ owners' = [owners EXCEPT ![o] = @ \union {a}]
         /\ invitations' = [invitations EXCEPT ![o][i].consumed = TRUE]
  /\ Ends(c)
  /\ UNCHANGED mails
CommitAcceptance(c) ==
  /\ calls[c].step = "accepting"
  /\ LET o == calls[c].org
         i == calls[c].row
         a == invitations[o][i].to
     IN  /\ ~OrganizationLocked(o)
         /\ a \notin users
         /\ users' = users \union {a}
         /\ owners' = [owners EXCEPT ![o] = @ \union {a}]
         /\ invitations' = [invitations EXCEPT ![o][i].consumed = TRUE]
  /\ Ends(c)
  /\ UNCHANGED mails

-----------------------------------------------------------------------------
(* An owner makes a member an owner, through the library's routes.          *)
MakeOwner(o, a) ==
  /\ owners[o] # {}
  /\ a \notin owners[o]
  /\ owners' = [owners EXCEPT ![o] = @ \union {a}]
  /\ users' = users \union {a}
  /\ UNCHANGED <<invitations, mails, calls>>

(* An owner with a fresh session asks that an owner be demoted or removed.  *)
(* The trigger locks the organization and looks for another owner.          *)
AskDemotion(c, o, a) ==
  /\ calls[c] = NotCalled
  /\ a \in owners[o]
  /\ calls' = [calls EXCEPT ![c] = [step |-> "asking", org |-> o, whom |-> a]]
  /\ UNCHANGED <<invitations, users, owners, mails>>

ProtectLastOwner(c) ==
  /\ calls[c].step = "asking"
  /\ ~OrganizationLocked(calls[c].org)
  /\ IF owners[calls[c].org] \ {calls[c].whom} = {}
     THEN Ends(c)
     ELSE calls' = [calls EXCEPT ![c].step = "demoting"]
  /\ UNCHANGED <<invitations, users, owners, mails>>

CommitDemotion(c) ==
  /\ calls[c].step = "demoting"
  /\ owners' = [owners EXCEPT ![calls[c].org] = @ \ {calls[c].whom}]
  /\ Ends(c)
  /\ UNCHANGED <<invitations, users, mails>>

TransactionFails(c) ==
  /\ calls[c].step \in {"inviting", "accepting", "asking", "demoting"}
  /\ Ends(c)
  /\ UNCHANGED <<invitations, users, owners, mails>>

-----------------------------------------------------------------------------
AccountsNext ==
  \/ \E c \in Callers, o \in Orgs, a \in Addresses :
       StartInvitation(c, o, a) \/ AskDemotion(c, o, a)
  \/ \E c \in Callers, t \in mails : AskAcceptance(c, t)
  \/ \E o \in Orgs, a \in Addresses : MakeOwner(o, a)
  \/ \E c \in Callers :
       \/ CommitInvitation(c)
       \/ SendInvitation(c)
       \/ StartAcceptance(c)
       \/ CommitAcceptance(c)
       \/ ProtectLastOwner(c)
       \/ CommitDemotion(c)
       \/ TransactionFails(c)

AccountsSpec == AccountsInit /\ [][AccountsNext]_accounts

-----------------------------------------------------------------------------
(* Once an invitation was accepted, its organization always has an owner,   *)
(* and it has no other invitation: owners that demote each other leave one, *)
(* and a command that met an acceptance invites nobody beside the owner.    *)
InvitedOnce ==
  \A o \in Orgs : \A i \in DOMAIN invitations[o] :
    invitations[o][i].consumed =>
      owners[o] # {} /\ Len(invitations[o]) = 1
=============================================================================
