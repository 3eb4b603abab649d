-------------------------- MODULE ApprovalRegister --------------------------
(***************************************************************************)
(* What the persisted approval store promises to whoever reads it:         *)
(* a request is registered at most once, its fields never change, and it   *)
(* receives at most one decision, which is never taken back.  A request    *)
(* is approved or denied strictly before its deadline and expired only     *)
(* once the deadline has been reached.                                     *)
(*                                                                         *)
(* One write of the store may show several requests moving at once: the    *)
(* broker always writes its whole map (ApprovalBroker._save).              *)
(***************************************************************************)
EXTENDS Naturals

CONSTANTS Requests,  \* identifiers of approval requests
          Types,     \* kinds of request (APPROVAL_TYPES)
          Tools,     \* names of tools
          NoTool     \* toolName = null, the request is not about a tool

VARIABLE reg         \* reg[r]: what the store says about request r

Decisions == {"approved", "denied"}
Closed    == Decisions \cup {"expired"}
Statuses  == {"absent", "pending"} \cup Closed

\* One slot of the store.  `type', `tool' and the deadline are fixed by the
\* submission, `decidedAt' by the decision.
Entry == [status : Statuses, type : Types \cup {"none"}, tool : Tools \cup {NoTool},
          expiresAt : Nat, decidedAt : Nat]

Absent == [status |-> "absent", type |-> "none", tool |-> NoTool,
           expiresAt |-> 0, decidedAt |-> 0]

\* A decision is taken in time, an expiry is not.
Timely(e) ==
  /\ e.status \in Decisions  => e.decidedAt < e.expiresAt
  /\ e.status = "expired"    => e.decidedAt >= e.expiresAt

SameRequest(e, f) == e.type = f.type /\ e.tool = f.tool /\ e.expiresAt = f.expiresAt

\* How one slot may move in one write of the store.
Moves(e, f) ==
  \/ f = e
  \/ e.status = "absent"  /\ f.status # "absent" /\ Timely(f)
  \/ e.status = "pending" /\ f.status \in Closed /\ SameRequest(e, f) /\ Timely(f)

Init == reg = [r \in Requests |-> Absent]

Write == /\ reg' \in [Requests -> Entry]
         /\ \A r \in Requests : Moves(reg[r], reg'[r])

Spec == Init /\ [][Write]_reg
=============================================================================
