--------------------------- MODULE MemoryProposals ---------------------------
(***************************************************************************)
(* MemoryProposalStore (myclaw/src/memory/proposals.js): facts proposed    *)
(* for the long-term memory L3, reviewed, and written to it.  The store    *)
(* lives beside the approval broker of its process: a new proposal first   *)
(* submits an approval request.                                            *)
(*                                                                         *)
(* The handlers are synchronous, but each writes several files.  A handler *)
(* is a chain of steps, one for each file, during which its process does   *)
(* nothing else and may die; a step may also throw.                        *)
(***************************************************************************)
EXTENDS ApprovalBroker

CONSTANTS Ids,       \* identifiers of proposals
          Texts,     \* contents up to case, each with its type, namespace and summary
          Facts,     \* contents of the candidates
          Redact,    \* Redact[f]: safeText of f
          Reviewers, \* sets of permissions that callers present
          Deciding,  \* permissions that may approve, reject and write
          NoRequest, \* no approvalId
          NoFact,    \* no proposal under this identifier
          Throwing   \* TRUE: saves, audits and L3 writes may throw

ASSUME ProposalAssumption ==
  /\ Reviewers \subseteq SUBSET Permissions
  /\ Deciding \subseteq Permissions
  /\ Throwing \in BOOLEAN
  /\ Facts \subseteq Texts /\ Redact \in [Texts -> Texts]
  /\ NoFact \notin Texts /\ NoRequest \notin Requests
  /\ <<"memory_write", NoTool>> \in Types \X {NoTool}

VARIABLES known,    \* known[p]: the Map `proposals' of p's store
          stored,   \* proposals.json
          semantic, \* proposals whose record is in L3
          trail,    \* <<x, e>>: event memory.proposal.e of x is in the audit log
          task,     \* task[p]: the handler that p is in the middle of
          reviewed, \* history: proposals that a caller with permission approved
          said      \* history: what the candidate of a proposal said

proposalVars == <<known, stored, semantic, trail, task, reviewed, said>>
vars         == <<brokerVars, proposalVars>>

NoProposal  == [status |-> "none", fact |-> NoFact, approval |-> NoRequest]
NoProposals == [x \in Ids |-> NoProposal]
Proposal    == [status : {"none", "pending", "approved", "rejected", "written"},
                fact : Texts \cup {NoFact}, approval : Requests \cup {NoRequest}]

\* What is left to do: nothing, store a new proposal, record a write, audit.
Idle  == [op |-> "idle"]
Tasks == {Idle}
           \cup [op : {"store"}, id : Ids, fact : Facts, approval : Requests]
           \cup [op : {"record"}, id : Ids]
           \cup [op : {"audit"}, id : Ids,
                 event : {"created", "approved", "rejected", "written", "write_denied"}]

ProposalTypeOK ==
  /\ known \in [Procs -> [Ids -> Proposal]]
  /\ stored \in [Ids -> Proposal]
  /\ semantic \subseteq Ids /\ reviewed \subseteq Ids
  /\ said \in [Ids -> Facts \cup {NoFact}]
  /\ \A t \in trail : t[1] \in Ids
  /\ task \in [Procs -> Tasks]

Ready(p) == up[p] /\ task[p] = Idle

\* _requireDecisionPermission
Allowed(granted) == granted \cap Deciding # {}

\* MemoryPolicyGate.enforceWrite of a semantic record: the same permissions, as
\* long as the tool policy has no entry of that name.
EnforceWrite(granted) == granted \cap Deciding # {}

-----------------------------------------------------------------------------

\* A variant with a bug: the file is written before the map changes.
SaveOld(p, map, then, else) ==
  /\ known' = [known EXCEPT ![p] = map]
  /\ stored' = known[p]
  /\ task' = [task EXCEPT ![p] = then]

\* The end of most handlers: the changed map, then _save, which may throw.
Save(p, map, then, else) ==
  /\ known' = [known EXCEPT ![p] = map]
  /\ \/ /\ stored' = map
        /\ task' = [task EXCEPT ![p] = then]
     \/ /\ Throwing
        /\ task' = [task EXCEPT ![p] = else]
        /\ UNCHANGED stored

SetStatus(p, x, status) == [known[p] EXCEPT ![x] = [@ EXCEPT !.status = status]]

ToAudit(x, event) == [op |-> "audit", id |-> x, event |-> event]

ProposalInit ==
  /\ Init
  /\ known = [p \in Procs |-> NoProposals]
  /\ stored = NoProposals
  /\ semantic = {} /\ trail = {} /\ reviewed = {}
  /\ said = [x \in Ids |-> NoFact]
  /\ task = [p \in Procs |-> Idle]

\* The constructor of MemoryProposal sanitizes what was sanitized before it was
\* saved.  That changes a redacted secret: the pattern stops at the bracket of
\* `[redacted]' and leaves one more behind.
Sanitized(map) == [x \in Ids |-> IF map[x].fact = NoFact THEN map[x]
                                 ELSE [map[x] EXCEPT !.fact = Redact[@]]]

\* The constructors of a process load both files; it may end at any step.
Boot(p) ==
  /\ Start(p)
  /\ known' = [known EXCEPT ![p] = Sanitized(stored)]
  /\ UNCHANGED <<stored, semantic, trail, task, reviewed, said>>

Quit(p) ==
  /\ Stop(p)
  /\ known' = [known EXCEPT ![p] = NoProposals]
  /\ task' = [task EXCEPT ![p] = Idle]
  /\ UNCHANGED <<stored, semantic, trail, reviewed, said>>

\* A variant with a bug looks at the open proposals only.
OpenDuplicate(p, fact) ==
  \E y \in Ids : known[p][y].status = "pending" /\ Redact[known[p][y].fact] = Redact[fact]

\* _findDuplicate finds a proposal of the same signature, whatever became of it;
\* the signature sanitizes the candidate, and what is already sanitized too.
Duplicate(p, fact) ==
  \E y \in Ids : known[p][y] # NoProposal /\ Redact[known[p][y].fact] = Redact[fact]

\* A new proposal has a new identifier.
Fresh(x) ==
  /\ stored[x] = NoProposal /\ \A q \in Procs : known[q][x] = NoProposal
  /\ x \notin reviewed /\ \A t \in trail : t[1] # x

\* createProposal goes on when submit returned.  A variant with a bug goes on
\* after an error.
Tolerated(fault) == fault \notin CrashFaults
Submitted(fault) == fault = "none"

\* createProposal submits the approval request ...
Propose(p, x, fact, r, fault) ==
  /\ Ready(p) /\ Fresh(x) /\ ~Duplicate(p, fact)
  /\ Submit(p, r, <<"memory_write", NoTool>>, fault)
  /\ IF fault \in CrashFaults
     THEN known' = [known EXCEPT ![p] = NoProposals]
     ELSE UNCHANGED known
  /\ task' = IF Submitted(fault)
             THEN [task EXCEPT ![p] = [op |-> "store", id |-> x, fact |-> fact, approval |-> r]]
             ELSE task
  /\ UNCHANGED <<stored, semantic, trail, reviewed, said>>

\* ... and then saves the proposal that names it.
Store(p) ==
  LET t == task[p] IN
  /\ up[p] /\ t.op = "store"
  /\ Save(p, [known[p] EXCEPT ![t.id] = [status |-> "pending", fact |-> Redact[t.fact], approval |-> t.approval]],
          ToAudit(t.id, "created"), Idle)
  /\ said' = [said EXCEPT ![t.id] = t.fact]
  /\ UNCHANGED <<brokerVars, semantic, trail, reviewed>>

Approve(p, x, granted) ==
  /\ Ready(p) /\ Allowed(granted)
  /\ known[p][x].status \in {"pending", "approved"}
  /\ reviewed' = reviewed \cup {x}
  /\ Save(p, SetStatus(p, x, "approved"), ToAudit(x, "approved"), Idle)
  /\ UNCHANGED <<brokerVars, semantic, trail, said>>

\* A variant with a bug: a written proposal can be rejected.
RejectAny(p, x, granted) ==
  /\ Ready(p) /\ Allowed(granted)
  /\ known[p][x].status # "none"
  /\ Save(p, SetStatus(p, x, "rejected"), ToAudit(x, "rejected"), Idle)
  /\ UNCHANGED <<brokerVars, semantic, trail, reviewed, said>>

\* An approved proposal can still be rejected, a written one cannot.
Reject(p, x, granted) ==
  /\ Ready(p) /\ Allowed(granted)
  /\ known[p][x].status \in {"pending", "approved", "rejected"}
  /\ Save(p, SetStatus(p, x, "rejected"), ToAudit(x, "rejected"), Idle)
  /\ UNCHANGED <<brokerVars, semantic, trail, reviewed, said>>

\* MarkdownStore.put: the block of the record, whose identifier is derived from
\* the proposal's, is replaced or added.
Put(x) == semantic' = semantic \cup {x}

\* A variant with a bug: the status is not looked at.
WriteAny(p, x, granted) ==
  /\ Ready(p) /\ EnforceWrite(granted)
  /\ known[p][x].status # "none"
  /\ Put(x)
  /\ task' = [task EXCEPT ![p] = [op |-> "record", id |-> x]]
  /\ UNCHANGED <<brokerVars, known, stored, trail, reviewed, said>>

\* MemoryRouter.write passes the gate and the put; one of them may throw.
RouterDenies(granted) == Throwing \/ ~EnforceWrite(granted)

\* writeApprovedProposal up to the L3 write.  What is not approved is denied; a
\* written proposal is returned as it is.
Write(p, x, granted) ==
  /\ Ready(p)
  /\ \/ /\ known[p][x].status = "approved" /\ EnforceWrite(granted)
        /\ Put(x)
        /\ task' = [task EXCEPT ![p] = [op |-> "record", id |-> x]]
     \/ /\ \/ known[p][x].status \in {"pending", "rejected"}
           \/ known[p][x].status = "approved" /\ RouterDenies(granted)
        /\ task' = [task EXCEPT ![p] = ToAudit(x, "write_denied")]
        /\ UNCHANGED semantic
  /\ UNCHANGED <<brokerVars, known, stored, trail, reviewed, said>>

\* MemoryRouter.write audits the write, which may throw; then the proposal is
\* written too.  Any error is audited as a denial.
Record(p) ==
  LET x == task[p].id IN
  /\ up[p] /\ task[p].op = "record"
  /\ \/ Save(p, SetStatus(p, x, "written"), ToAudit(x, "written"), ToAudit(x, "write_denied"))
     \/ /\ Throwing
        /\ task' = [task EXCEPT ![p] = ToAudit(x, "write_denied")]
        /\ UNCHANGED <<known, stored>>
  /\ UNCHANGED <<brokerVars, semantic, trail, reviewed, said>>

\* _audit; when the audit of a write throws, the denial is audited instead.
Report(p) ==
  LET t == task[p] IN
  /\ up[p] /\ t.op = "audit"
  /\ \/ /\ trail' = trail \cup {<<t.id, t.event>>}
        /\ task' = [task EXCEPT ![p] = Idle]
     \/ /\ Throwing
        /\ task' = [task EXCEPT ![p] = IF t.event = "written" THEN ToAudit(t.id, "write_denied") ELSE Idle]
        /\ UNCHANGED trail
  /\ UNCHANGED <<brokerVars, known, stored, semantic, reviewed, said>>

\* The gateway's _handleMemoryProposalApi and the commands `myclaw memory': a
\* proposal that the store knows, and what the route or the command does to it.
Review(p) ==
  \E x \in {y \in Ids : known[p][y] # NoProposal}, granted \in Reviewers :
    Approve(p, x, granted) \/ Reject(p, x, granted) \/ Write(p, x, granted)

ProposalNext ==
  \E p \in Procs :
    \/ Boot(p) \/ Quit(p)
    \/ \E x \in Ids, fact \in Facts, r \in Requests, fault \in Faults : Propose(p, x, fact, r, fault)
    \/ Review(p)
    \/ Store(p) \/ Record(p) \/ Report(p)

ProposalSpec == ProposalInit /\ [][ProposalNext]_vars

-----------------------------------------------------------------------------

\* L3 holds what a reviewer with permission approved and nothing else, and it
\* holds every proposal that the file calls written: writeApprovedProposal
\* checks the status first and records it last.
MemoryFollowsReview ==
  /\ semantic \subseteq reviewed
  /\ \A x \in Ids : stored[x].status = "written" => x \in semantic

\* Sanitizing twice is sanitizing once: the fact names no secret.
Stable(fact) == Redact[Redact[fact]] = Redact[fact]

\* One proposal for each fact without a secret, however often a compaction
\* proposes it, wherever createProposal fails and whatever was reviewed since:
\* two stored proposals come from candidates of two signatures (_findDuplicate).
OneProposalPerFact ==
  \A x, y \in Ids :
    (x # y /\ stored[x] # NoProposal /\ stored[y] # NoProposal /\ Stable(said[x]) /\ Stable(said[y]))
      => Redact[said[x]] # Redact[said[y]]

\* A stored proposal names an approval request of its own, which the file of
\* the approval broker holds: createProposal writes that file first.
LinkedApproval ==
  \A x \in Ids : stored[x] # NoProposal =>
    /\ disk[stored[x].approval].type = "memory_write"
    /\ \A y \in Ids \ {x} : stored[y].approval # stored[x].approval

\* What the audit log says of a proposal is what the file says.
TrailTruthful ==
  \A x \in Ids :
    /\ \A e \in {"rejected", "written"} : <<x, e>> \in trail => stored[x].status = e
    /\ <<x, "approved">> \in trail => stored[x].status \in {"approved", "rejected", "written"}
    /\ <<x, "created">> \in trail => stored[x] # NoProposal

\* The life of a proposal in the file: rejected and written are final, an
\* approval is not withdrawn in silence, the linked request never changes, and
\* the fact only where sanitizing it once more changes it.
StoredLifecycle ==
  [][\A x \in Ids : LET old == stored[x] new == stored'[x] IN
       old # NoProposal =>
         /\ new.approval = old.approval
         /\ Redact[old.fact] = old.fact => new.fact = old.fact
         /\ old.status \in {"rejected", "written"} => new.status = old.status
         /\ old.status = "approved" => new.status \in {"approved", "rejected", "written"}]_vars

\* Why these hold for one process.  Its map is the file or some changes ahead
\* of it; both link each proposal to a request of its own, and what the
\* handler in progress is about to save or audit is already true.
Later(e, f) ==
  \/ e.status = "none"
  \/ /\ f.status # "none" /\ f.approval = e.approval
     /\ Redact[e.fact] = e.fact => f.fact = e.fact
     /\ e.status \in {"rejected", "written"} => f.status = e.status
     /\ e.status = "approved" => f.status \in {"approved", "rejected", "written"}

Requested(r) == r \in issued /\ disk[r].status # "absent" /\ disk[r].type = "memory_write"

Linked(map) ==
  \A x \in Ids :
    IF map[x].status = "none" THEN map[x] = NoProposal
    ELSE /\ Requested(map[x].approval)
         /\ \A y \in Ids \ {x} : map[y].approval # map[x].approval
         /\ map[x].status \in {"approved", "written"} => x \in reviewed
         /\ map[x].status = "written" => x \in semantic

Sound(p, t) ==
  /\ t.op = "store" =>
       /\ stored[t.id] = NoProposal /\ known[p][t.id] = NoProposal
       /\ Requested(t.approval)
       /\ \A x \in Ids : known[p][x].approval # t.approval
  /\ t.op = "record" => known[p][t.id].status = "approved" /\ t.id \in semantic
  /\ t.op = "audit" =>
       /\ t.event = "created" => stored[t.id].status # "none"
       /\ t.event \in {"rejected", "written"} => stored[t.id].status = t.event
       /\ t.event = "approved" => stored[t.id].status = "approved"

ReviewInv ==
  /\ semantic \subseteq reviewed
  /\ Linked(stored) /\ TrailTruthful
  /\ \A p \in Procs :
       IF up[p] THEN /\ Linked(known[p]) /\ Sound(p, task[p])
                     /\ \A x \in Ids : Later(stored[x], known[p][x])
                ELSE task[p] = Idle

\* And a fact without a secret is in both as its candidate said it, which is
\* what _findDuplicate compares the next candidate with.
Faithful(map) ==
  \A x \in Ids : map[x].status # "none" =>
    /\ said[x] \in Facts
    /\ Stable(said[x]) => map[x].fact = Redact[said[x]]
    /\ \A y \in Ids \ {x} :
         map[y].status # "none" /\ Stable(said[x]) /\ Stable(said[y]) => Redact[said[x]] # Redact[said[y]]

FactInv ==
  /\ Faithful(stored)
  /\ \A p \in Procs : up[p] =>
       /\ Faithful(known[p])
       /\ task[p].op = "store" => ~Duplicate(p, task[p].fact)

\* docs/memory_architecture.md: rejected and pending proposals are not in L3.
OnlyApprovedInMemory == \A x \in semantic : stored[x].status \in {"approved", "written"}
=============================================================================
