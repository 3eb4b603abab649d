------------------------ MODULE MemoryProposalsProofs ------------------------
(***************************************************************************)
(* Theorems about MemoryProposals, for every set of proposals, facts,      *)
(* requests and reviewers and every fault.  The invariant is that of one   *)
(* process: several may work on copies of the file that are out of date.   *)
(***************************************************************************)
EXTENDS MemoryProposals, ApprovalBrokerProofs

\* A store asks nothing of the broker but a request, a move of it.
LEMMA ProposalMoves == [ProposalNext]_vars => BrokerMoves
<1> SUFFICES ASSUME [ProposalNext]_vars PROVE BrokerMoves
  OBVIOUS
<1>1. CASE UNCHANGED brokerVars
  BY <1>1 DEF BrokerMoves
<1>2. CASE \E p \in Procs : Start(p) \/ Stop(p)
  BY <1>2 DEF BrokerMoves, Next, Step
<1>3. CASE \E p \in Procs, r \in Requests, fault \in Faults : Submit(p, r, <<"memory_write", NoTool>>, fault)
  <2>1. <<"memory_write", NoTool>> \in Types \X (Tools \cup {NoTool})
    BY ProposalAssumption
  <2>2. QED
    BY <1>3, <2>1 DEF BrokerMoves
<1>4. ASSUME NEW p \in Procs,
             Review(p) \/ Store(p) \/ Record(p) \/ Report(p)
      PROVE  UNCHANGED brokerVars
  BY <1>4 DEF Review, Approve, Reject, Write, Store, Record, Report
<1>5. CASE \E p \in Procs : Boot(p) \/ Quit(p)
  BY <1>2, <1>5 DEF Boot, Quit
<1>6. CASE \E p \in Procs, x \in Ids, fact \in Facts, r \in Requests, fault \in Faults : Propose(p, x, fact, r, fault)
  BY <1>3, <1>6 DEF Propose
<1>7. CASE UNCHANGED vars
  BY <1>1, <1>7 DEF vars
<1>8. QED
  BY <1>1, <1>4, <1>5, <1>6, <1>7 DEF ProposalNext

\* The tasks that the handlers leave behind.
LEMMA TaskTypes ==
  /\ Idle \in Tasks
  /\ \A x \in Ids, fact \in Facts, r \in Requests :
       [op |-> "store", id |-> x, fact |-> fact, approval |-> r] \in Tasks
  /\ \A x \in Ids : [op |-> "record", id |-> x] \in Tasks
  /\ \A x \in Ids, e \in {"created", "approved", "rejected", "written", "write_denied"} :
       ToAudit(x, e) \in Tasks
BY DEF Tasks, Idle, ToAudit

\* What a task is, by its operation.
LEMMA TaskFields ==
  ASSUME NEW t \in Tasks
  PROVE  /\ t.op \in {"idle", "store", "record", "audit"}
         /\ t.op = "store"  => t.id \in Ids /\ t.fact \in Facts /\ t.approval \in Requests
         /\ t.op = "record" => t.id \in Ids
         /\ t.op = "audit"  => t.id \in Ids /\ t.event \in {"created", "approved", "rejected", "written", "write_denied"}
BY DEF Tasks, Idle

LEMMA ProposalTypes ==
  /\ NoProposal \in Proposal /\ NoProposals \in [Ids -> Proposal]
  /\ NoProposal.status = "none" /\ NoProposal.fact = NoFact /\ NoProposal.approval = NoRequest
BY DEF NoProposal, NoProposals, Proposal

\* Loading sanitizes the contents and changes nothing else.
LEMMA SanitizedType ==
  ASSUME NEW map \in [Ids -> Proposal]
  PROVE  /\ Sanitized(map) \in [Ids -> Proposal]
         /\ \A x \in Ids :
              /\ Sanitized(map)[x].status = map[x].status /\ Sanitized(map)[x].approval = map[x].approval
              /\ map[x].fact = NoFact => Sanitized(map)[x] = map[x]
              /\ map[x].fact # NoFact => Sanitized(map)[x].fact = Redact[map[x].fact]
<1> DEFINE e(x) == [map[x] EXCEPT !.fact = Redact[@]]
<1>1. \A x \in Ids : map[x].fact # NoFact =>
        /\ e(x) \in Proposal /\ e(x).fact = Redact[map[x].fact]
        /\ e(x).status = map[x].status /\ e(x).approval = map[x].approval
  BY ProposalAssumption DEF Proposal
<1>2. QED
  BY <1>1, ProposalTypes DEF Sanitized

LEMMA StatusType ==
  ASSUME ProposalTypeOK, NEW p \in Procs, NEW x \in Ids,
         NEW status \in {"pending", "approved", "rejected", "written"}
  PROVE  LET map == SetStatus(p, x, status) IN
         /\ map \in [Ids -> Proposal]
         /\ map[x].status = status /\ map[x].fact = known[p][x].fact /\ map[x].approval = known[p][x].approval
         /\ \A y \in Ids \ {x} : map[y] = known[p][y]
<1> DEFINE e == [known[p][x] EXCEPT !.status = status]
<1>1. known[p] \in [Ids -> Proposal] /\ known[p][x] \in Proposal
  BY DEF ProposalTypeOK
<1>2. e \in Proposal /\ e.status = status /\ e.fact = known[p][x].fact /\ e.approval = known[p][x].approval
  BY <1>1 DEF Proposal
<1>3. SetStatus(p, x, status) = [known[p] EXCEPT ![x] = e]
  BY <1>1 DEF SetStatus
<1> HIDE DEF e
<1>4. QED
  BY <1>1, <1>2, <1>3

\* The end of a handler keeps the types.
LEMMA SaveType ==
  ASSUME ProposalTypeOK, NEW p \in Procs, NEW map \in [Ids -> Proposal],
         NEW then \in Tasks, NEW else \in Tasks, Save(p, map, then, else)
  PROVE  /\ known' \in [Procs -> [Ids -> Proposal]]
         /\ stored' \in [Ids -> Proposal]
         /\ task' \in [Procs -> Tasks]
BY DEF ProposalTypeOK, Save

LEMMA ProposalTypeStep ==
  ASSUME ProposalTypeOK, [ProposalNext]_vars
  PROVE  ProposalTypeOK'
<1>1. CASE UNCHANGED vars
  BY <1>1 DEF vars, proposalVars, ProposalTypeOK
<1>2. ASSUME NEW p \in Procs, Boot(p) \/ Quit(p)
      PROVE  ProposalTypeOK'
  BY <1>2, TaskTypes, ProposalTypes, SanitizedType DEF Boot, Quit, ProposalTypeOK
<1>3. ASSUME NEW p \in Procs, NEW x \in Ids, NEW fact \in Facts, NEW r \in Requests, NEW fault \in Faults,
             Propose(p, x, fact, r, fault)
      PROVE  ProposalTypeOK'
  <2>1. /\ known' \in [Procs -> [Ids -> Proposal]]
        /\ UNCHANGED <<stored, semantic, trail, reviewed, said>>
    BY <1>3, ProposalTypes DEF Propose, ProposalTypeOK
  <2>2. task' \in [Procs -> Tasks]
    BY <1>3, TaskTypes DEF Propose, ProposalTypeOK
  <2>3. QED
    BY <2>1, <2>2 DEF ProposalTypeOK
<1>4. ASSUME NEW p \in Procs, Store(p)
      PROVE  ProposalTypeOK'
  <2> DEFINE t == task[p]
             map == [known[p] EXCEPT ![t.id] = [status |-> "pending", fact |-> Redact[t.fact], approval |-> t.approval]]
  <2>1. t \in Tasks /\ t.op = "store"
    BY <1>4 DEF Store, ProposalTypeOK
  <2>2. t.id \in Ids /\ t.fact \in Facts /\ t.approval \in Requests
    BY <2>1, TaskFields
  <2>3. map \in [Ids -> Proposal]
    BY <2>2, ProposalAssumption DEF ProposalTypeOK, Proposal
  <2>4. /\ Save(p, map, ToAudit(t.id, "created"), Idle) /\ UNCHANGED <<semantic, trail, reviewed>>
        /\ said' = [said EXCEPT ![t.id] = t.fact]
    BY <1>4 DEF Store
  <2>5. ToAudit(t.id, "created") \in Tasks /\ Idle \in Tasks
    BY <2>2, TaskTypes
  <2> HIDE DEF t, map
  <2>6. said' \in [Ids -> Facts \cup {NoFact}]
    BY <2>2, <2>4 DEF ProposalTypeOK
  <2>7. QED
    BY <2>3, <2>4, <2>5, <2>6, SaveType DEF ProposalTypeOK
<1>5. ASSUME NEW p \in Procs, NEW x \in Ids, NEW granted, Approve(p, x, granted) \/ Reject(p, x, granted)
      PROVE  ProposalTypeOK'
  <2>1. PICK status \in {"approved", "rejected"} :
          /\ Save(p, SetStatus(p, x, status), ToAudit(x, status), Idle)
          /\ UNCHANGED <<semantic, trail, said>> /\ reviewed' \in {reviewed, reviewed \cup {x}}
    BY <1>5 DEF Approve, Reject
  <2>2. ToAudit(x, status) \in Tasks /\ Idle \in Tasks /\ SetStatus(p, x, status) \in [Ids -> Proposal]
    BY TaskTypes, StatusType
  <2>3. QED
    BY <2>1, <2>2, SaveType DEF ProposalTypeOK
<1>6. ASSUME NEW p \in Procs, NEW x \in Ids, NEW granted, Write(p, x, granted)
      PROVE  ProposalTypeOK'
  <2>1. /\ UNCHANGED <<known, stored, trail, reviewed, said>>
        /\ semantic' \in {semantic, semantic \cup {x}}
        /\ \/ task' = [task EXCEPT ![p] = [op |-> "record", id |-> x]]
           \/ task' = [task EXCEPT ![p] = ToAudit(x, "write_denied")]
    BY <1>6 DEF Write, Put
  <2>2. [op |-> "record", id |-> x] \in Tasks /\ ToAudit(x, "write_denied") \in Tasks
    BY TaskTypes
  <2>3. QED
    BY <2>1, <2>2 DEF ProposalTypeOK
<1>7. ASSUME NEW p \in Procs, Record(p)
      PROVE  ProposalTypeOK'
  <2> DEFINE x == task[p].id
  <2>1. task[p] \in Tasks /\ task[p].op = "record"
    BY <1>7 DEF Record, ProposalTypeOK
  <2>2. x \in Ids
    BY <2>1, TaskFields
  <2>3. /\ ToAudit(x, "written") \in Tasks /\ ToAudit(x, "write_denied") \in Tasks
        /\ SetStatus(p, x, "written") \in [Ids -> Proposal]
    BY <2>2, TaskTypes, StatusType
  <2>4. /\ UNCHANGED <<semantic, trail, reviewed, said>>
        /\ \/ Save(p, SetStatus(p, x, "written"), ToAudit(x, "written"), ToAudit(x, "write_denied"))
           \/ task' = [task EXCEPT ![p] = ToAudit(x, "write_denied")] /\ UNCHANGED <<known, stored>>
    BY <1>7 DEF Record
  <2> HIDE DEF x
  <2>5. QED
    BY <2>3, <2>4, SaveType DEF ProposalTypeOK
<1>8. ASSUME NEW p \in Procs, Report(p)
      PROVE  ProposalTypeOK'
  <2> DEFINE t == task[p]
  <2>1. t \in Tasks /\ t.op = "audit"
    BY <1>8 DEF Report, ProposalTypeOK
  <2>2. t.id \in Ids
    BY <2>1, TaskFields
  <2>3. /\ UNCHANGED <<known, stored, semantic, reviewed, said>>
        /\ trail' \in {trail, trail \cup {<<t.id, t.event>>}}
        /\ \/ task' = [task EXCEPT ![p] = Idle]
           \/ task' = [task EXCEPT ![p] = ToAudit(t.id, "write_denied")]
    BY <1>8 DEF Report
  <2>4. Idle \in Tasks /\ ToAudit(t.id, "write_denied") \in Tasks
    BY <2>2, TaskTypes
  <2> HIDE DEF t
  <2>5. QED
    BY <2>2, <2>3, <2>4 DEF ProposalTypeOK
<1>9. QED
  BY <1>1, <1>2, <1>3, <1>4, <1>5, <1>6, <1>7, <1>8 DEF ProposalNext, Review

-----------------------------------------------------------------------------

\* Requested, of the next state.
RequestedAfter(r) == r \in issued' /\ disk'[r].status # "absent" /\ disk'[r].type = "memory_write"

\* What no step takes away: requests, reviews and records of L3.
Grows ==
  /\ \A r \in Requests : Requested(r) => RequestedAfter(r)
  /\ reviewed \subseteq reviewed' /\ semantic \subseteq semantic'

\* Linked, of a map of this state and the requests and reviews of the next.
LinkedAfter(map) ==
  \A x \in Ids :
    IF map[x].status = "none" THEN map[x] = NoProposal
    ELSE /\ RequestedAfter(map[x].approval)
         /\ \A y \in Ids \ {x} : map[y].approval # map[x].approval
         /\ map[x].status \in {"approved", "written"} => x \in reviewed'
         /\ map[x].status = "written" => x \in semantic'

LEMMA LinkedGrows ==
  ASSUME TypeOK, Grows, NEW map \in [Ids -> Proposal], Linked(map)
  PROVE  LinkedAfter(map)
<1>1. \A x \in Ids : map[x].status # "none" => map[x].approval \in Requests
  BY DEF Linked, Requested, TypeOK
<1>2. QED
  BY <1>1 DEF Linked, LinkedAfter, Grows

\* A slot moves no further than its life allows.
LEMMA LaterFacts ==
  ASSUME NEW e \in Proposal
  PROVE  /\ Later(e, e)
         /\ e.status # "none" => e # NoProposal
BY ProposalTypes DEF Later

\* What the invariant says of the one process that runs.
LEMMA Running ==
  ASSUME NEW p, Procs = {p}, ProposalTypeOK, ReviewInv, up[p]
  PROVE  /\ Linked(known[p]) /\ Linked(stored) /\ Sound(p, task[p])
         /\ \A x \in Ids : Later(stored[x], known[p][x])
         /\ known[p] \in [Ids -> Proposal] /\ stored \in [Ids -> Proposal] /\ task[p] \in Tasks
BY DEF ReviewInv, ProposalTypeOK

\* The audit log stays true when every slot of the file stays or moves on.
LEMMA TrailKeeps ==
  ASSUME ProposalTypeOK, ProposalTypeOK', ReviewInv, trail' = trail,
         \A x \in Ids : Later(stored[x], stored'[x])
  PROVE  TrailTruthful'
<1> SUFFICES ASSUME NEW x \in Ids
             PROVE  /\ \A e \in {"rejected", "written"} : <<x, e>> \in trail => stored'[x].status = e
                    /\ <<x, "approved">> \in trail => stored'[x].status \in {"approved", "rejected", "written"}
                    /\ <<x, "created">> \in trail => stored'[x] # NoProposal
  BY DEF TrailTruthful
<1>1. stored[x] \in Proposal /\ stored'[x] \in Proposal /\ Later(stored[x], stored'[x])
  BY DEF ProposalTypeOK
<1>2. /\ \A e \in {"rejected", "written"} : <<x, e>> \in trail => stored[x].status = e
      /\ <<x, "approved">> \in trail => stored[x].status \in {"approved", "rejected", "written"}
      /\ <<x, "created">> \in trail => stored[x].status # "none"
  BY DEF ReviewInv, TrailTruthful, Linked
<1>3. QED
  BY <1>1, <1>2, LaterFacts DEF Later

\* The end of a handler: a map that links its proposals and lies ahead of the
\* file, and a task that audits what the map says.
LEMMA SaveKeeps ==
  ASSUME NEW p, Procs = {p}, TypeOK, ProposalTypeOK, ProposalTypeOK', ReviewInv, up[p],
         UNCHANGED brokerVars, trail' = trail, Grows, semantic' \subseteq reviewed',
         NEW map \in [Ids -> Proposal], LinkedAfter(map), \A x \in Ids : Later(stored[x], map[x]),
         NEW x \in Ids, NEW event \in {"created", "approved", "rejected", "written"},
         map[x].status = IF event = "created" THEN "pending" ELSE event,
         NEW else \in {Idle, ToAudit(x, "write_denied")},
         Save(p, map, ToAudit(x, event), else)
  PROVE  ReviewInv' /\ \A y \in Ids : Later(stored[y], stored'[y])
<1>1. /\ known'[p] = map
      /\ \/ stored' = map /\ task'[p] = ToAudit(x, event)
         \/ stored' = stored /\ task'[p] = else
  BY DEF Save, ProposalTypeOK
<1>2. LinkedAfter(stored) /\ \A y \in Ids : Later(stored[y], stored[y]) /\ Later(map[y], map[y])
  BY LinkedGrows, LaterFacts DEF ReviewInv, ProposalTypeOK
<1>3. Linked(known[p])' /\ Linked(stored)'
  BY <1>1, <1>2 DEF Linked, LinkedAfter, Requested, RequestedAfter
<1>4. \A y \in Ids : Later(stored[y], stored'[y]) /\ Later(stored'[y], known'[p][y])
  BY <1>1, <1>2
<1>5. Sound(p, task[p])'
  <2>1. CASE stored' = map /\ task'[p] = ToAudit(x, event)
    <3>1. task'[p].op = "audit" /\ task'[p].id = x /\ task'[p].event = event
      BY <2>1 DEF ToAudit
    <3>2. /\ event = "created" => stored'[x].status # "none"
          /\ event \in {"rejected", "written"} => stored'[x].status = event
          /\ event = "approved" => stored'[x].status = "approved"
      BY <2>1
    <3>3. QED
      BY <3>1, <3>2 DEF Sound
  <2>2. CASE task'[p] = else
    <3>1. task'[p].op = "idle" \/ (task'[p].op = "audit" /\ task'[p].event = "write_denied")
      BY <2>2 DEF ToAudit, Idle
    <3>2. QED
      BY <3>1 DEF Sound
  <2>3. QED
    BY <1>1, <2>1, <2>2
<1>6. TrailTruthful'
  BY <1>4, TrailKeeps
<1>7. up'[p]
  BY DEF brokerVars
<1>8. QED
  BY <1>3, <1>4, <1>5, <1>6, <1>7 DEF ReviewInv, Later

\* A step of the running process that leaves the map and the file alone.
LEMMA QuietKeeps ==
  ASSUME NEW p, Procs = {p}, TypeOK, ProposalTypeOK, ProposalTypeOK', ReviewInv, up[p],
         UNCHANGED <<brokerVars, known, stored>>, Grows, semantic' \subseteq reviewed',
         TrailTruthful', Sound(p, task[p])'
  PROVE  ReviewInv'
<1>1. up'[p]
  BY DEF brokerVars
<1>2. Linked(known[p])' /\ Linked(stored)'
  BY Running, LinkedGrows DEF Linked, LinkedAfter, Requested, RequestedAfter
<1>3. \A x \in Ids : Later(stored[x], known[p][x])'
  BY Running DEF Later
<1>4. QED
  BY <1>1, <1>2, <1>3 DEF ReviewInv

-----------------------------------------------------------------------------

\* One lemma for each handler of a store.
LEMMA StoreKeeps ==
  ASSUME NEW p, Procs = {p}, TypeOK, ProposalTypeOK, ProposalTypeOK', ReviewInv, Store(p)
  PROVE  ReviewInv' /\ \A y \in Ids : Later(stored[y], stored'[y])
<1> DEFINE t == task[p]
           new == [status |-> "pending", fact |-> Redact[t.fact], approval |-> t.approval]
           map == [known[p] EXCEPT ![t.id] = new]
<1>1. /\ up[p] /\ t.op = "store"
      /\ UNCHANGED <<brokerVars, semantic, trail, reviewed>>
      /\ Save(p, map, ToAudit(t.id, "created"), Idle)
  BY DEF Store
<1>2. t.id \in Ids /\ t.fact \in Facts /\ t.approval \in Requests
  BY <1>1, Running, TaskFields
<1>3. /\ stored[t.id] = NoProposal /\ known[p][t.id] = NoProposal /\ Requested(t.approval)
      /\ \A x \in Ids : known[p][x].approval # t.approval
  BY <1>1, Running DEF Sound
<1>4. map \in [Ids -> Proposal] /\ map[t.id] = new /\ \A x \in Ids \ {t.id} : map[x] = known[p][x]
  BY <1>1, <1>2, Running, ProposalAssumption DEF Proposal
<1>5. Grows /\ semantic' \subseteq reviewed'
  BY <1>1 DEF Grows, Requested, RequestedAfter, brokerVars, ReviewInv
<1>6. LinkedAfter(known[p])
  BY <1>1, <1>5, Running, LinkedGrows
<1>7. RequestedAfter(t.approval)
  BY <1>2, <1>3, <1>5 DEF Grows
<1>8. new.status = "pending" /\ new.approval = t.approval
  OBVIOUS
<1> HIDE DEF t, new, map
<1>9. LinkedAfter(map)
  BY <1>2, <1>3, <1>4, <1>6, <1>7, <1>8 DEF LinkedAfter
<1>10. \A x \in Ids : Later(stored[x], map[x])
  BY <1>1, <1>2, <1>3, <1>4, Running, ProposalTypes DEF Later
<1>11. QED
  BY <1>1, <1>2, <1>4, <1>5, <1>8, <1>9, <1>10, SaveKeeps

\* A decision on a proposal: approval, rejection, or the record of its write.
LEMMA StatusKeeps ==
  ASSUME NEW p, Procs = {p}, TypeOK, ProposalTypeOK, ProposalTypeOK', ReviewInv, up[p],
         NEW x \in Ids, UNCHANGED <<brokerVars, semantic, trail>>, reviewed' \in {reviewed, reviewed \cup {x}},
         NEW status \in {"approved", "rejected", "written"},
         known[p][x].status # "none",
         status = "approved" => known[p][x].status \in {"pending", "approved"} /\ x \in reviewed',
         status = "rejected" => known[p][x].status \in {"pending", "approved", "rejected"},
         status = "written"  => known[p][x].status = "approved" /\ x \in semantic,
         NEW else \in {Idle, ToAudit(x, "write_denied")},
         Save(p, SetStatus(p, x, status), ToAudit(x, status), else)
  PROVE  ReviewInv' /\ \A y \in Ids : Later(stored[y], stored'[y])
<1> DEFINE map == SetStatus(p, x, status)
<1>1. /\ map \in [Ids -> Proposal]
      /\ map[x].status = status /\ map[x].fact = known[p][x].fact /\ map[x].approval = known[p][x].approval
      /\ \A y \in Ids \ {x} : map[y] = known[p][y]
  BY StatusType
<1>2. Save(p, map, ToAudit(x, status), else)
  OBVIOUS
<1> HIDE DEF map
<1>3. Grows /\ semantic' \subseteq reviewed'
  BY DEF Grows, Requested, RequestedAfter, brokerVars, ReviewInv
<1>4. LinkedAfter(known[p])
  BY <1>3, Running, LinkedGrows
<1>5. LinkedAfter(map)
  <2> SUFFICES ASSUME NEW y \in Ids
               PROVE  IF map[y].status = "none" THEN map[y] = NoProposal
                      ELSE /\ RequestedAfter(map[y].approval)
                           /\ \A z \in Ids \ {y} : map[z].approval # map[y].approval
                           /\ map[y].status \in {"approved", "written"} => y \in reviewed'
                           /\ map[y].status = "written" => y \in semantic'
    BY DEF LinkedAfter
  <2>1. \A z \in Ids : map[z].fact = known[p][z].fact /\ map[z].approval = known[p][z].approval
    BY <1>1
  <2>2. CASE y = x
    BY <1>1, <1>3, <1>4, <2>1, <2>2 DEF LinkedAfter
  <2>3. CASE y # x
    <3>1. map[y] = known[p][y]
      BY <1>1, <2>3
    <3>2. QED
      BY <1>4, <2>1, <3>1 DEF LinkedAfter
  <2>4. QED
    BY <2>2, <2>3
<1>6. \A y \in Ids : Later(stored[y], map[y])
  BY <1>1, Running DEF Later
<1>7. QED
  BY <1>1, <1>2, <1>3, <1>5, <1>6, SaveKeeps

LEMMA ReviewKeeps ==
  ASSUME NEW p, Procs = {p}, TypeOK, ProposalTypeOK, ProposalTypeOK', ReviewInv, Review(p)
  PROVE  ReviewInv' /\ \A y \in Ids : Later(stored[y], stored'[y])
<1>1. PICK x \in Ids, granted \in Reviewers :
        Approve(p, x, granted) \/ Reject(p, x, granted) \/ Write(p, x, granted)
  BY DEF Review
<1>2. up[p]
  BY <1>1 DEF Approve, Reject, Write, Ready
<1>3. CASE Approve(p, x, granted)
  <2>1. Idle \in {Idle, ToAudit(x, "write_denied")}
    OBVIOUS
  <2>2. /\ known[p][x].status \in {"pending", "approved"} /\ reviewed' = reviewed \cup {x}
        /\ UNCHANGED <<brokerVars, semantic, trail>>
        /\ Save(p, SetStatus(p, x, "approved"), ToAudit(x, "approved"), Idle)
    BY <1>3 DEF Approve
  <2>3. QED
    BY <1>2, <2>1, <2>2, StatusKeeps
<1>4. CASE Reject(p, x, granted)
  <2>1. Idle \in {Idle, ToAudit(x, "write_denied")}
    OBVIOUS
  <2>2. /\ known[p][x].status \in {"pending", "approved", "rejected"} /\ reviewed' = reviewed
        /\ UNCHANGED <<brokerVars, semantic, trail>>
        /\ Save(p, SetStatus(p, x, "rejected"), ToAudit(x, "rejected"), Idle)
    BY <1>4 DEF Reject
  <2>3. QED
    BY <1>2, <2>1, <2>2, StatusKeeps
<1>5. CASE Write(p, x, granted)
  <2>1. UNCHANGED <<brokerVars, known, stored, trail, reviewed>>
    BY <1>5 DEF Write
  <2>2. /\ semantic \subseteq semantic' /\ semantic' \subseteq reviewed
        /\ Sound(p, task[p])'
    <3>1. CASE /\ known[p][x].status = "approved"
               /\ semantic' = semantic \cup {x}
               /\ task' = [task EXCEPT ![p] = [op |-> "record", id |-> x]]
      <4>1. x \in reviewed /\ semantic \subseteq reviewed
        BY <1>2, <3>1, Running DEF Linked, ReviewInv
      <4>2. task'[p].op = "record" /\ task'[p].id = x
        BY <3>1 DEF ProposalTypeOK
      <4>3. QED
        BY <2>1, <3>1, <4>1, <4>2 DEF Sound
    <3>2. CASE semantic' = semantic /\ task' = [task EXCEPT ![p] = ToAudit(x, "write_denied")]
      <4>1. task'[p].op = "audit" /\ task'[p].event = "write_denied"
        BY <3>2 DEF ProposalTypeOK, ToAudit
      <4>2. QED
        BY <3>2, <4>1 DEF Sound, ReviewInv
    <3>3. QED
      BY <1>5, <3>1, <3>2 DEF Write, Put
  <2>3. Grows /\ \A y \in Ids : Later(stored[y], stored'[y])
    BY <1>2, <2>1, <2>2, Running, LaterFacts DEF Grows, Requested, RequestedAfter, brokerVars
  <2>4. TrailTruthful'
    BY <2>1, <2>3, TrailKeeps
  <2>5. QED
    BY <1>2, <2>1, <2>2, <2>3, <2>4, QuietKeeps
<1>6. QED
  BY <1>1, <1>3, <1>4, <1>5

LEMMA RecordKeeps ==
  ASSUME NEW p, Procs = {p}, TypeOK, ProposalTypeOK, ProposalTypeOK', ReviewInv, Record(p)
  PROVE  ReviewInv' /\ \A y \in Ids : Later(stored[y], stored'[y])
<1> DEFINE x == task[p].id
           denied == ToAudit(x, "write_denied")
<1>1. up[p] /\ task[p].op = "record" /\ UNCHANGED <<brokerVars, semantic, trail, reviewed>>
  BY DEF Record
<1>2. x \in Ids /\ known[p][x].status = "approved" /\ x \in semantic
  BY <1>1, Running, TaskFields DEF Sound
<1>3. CASE Save(p, SetStatus(p, x, "written"), ToAudit(x, "written"), denied)
  <2>1. denied \in {Idle, denied}
    OBVIOUS
  <2>2. QED
    BY <1>1, <1>2, <1>3, <2>1, StatusKeeps
<1>4. CASE task' = [task EXCEPT ![p] = denied] /\ UNCHANGED <<known, stored>>
  <2>1. task'[p].op = "audit" /\ task'[p].event = "write_denied"
    BY <1>4 DEF ProposalTypeOK, ToAudit
  <2>2. Sound(p, task[p])'
    BY <2>1 DEF Sound
  <2>3. Grows /\ semantic' \subseteq reviewed' /\ \A y \in Ids : Later(stored[y], stored'[y])
    BY <1>1, <1>4, Running, LaterFacts DEF Grows, Requested, RequestedAfter, brokerVars, ReviewInv
  <2>4. TrailTruthful'
    BY <1>1, <2>3, TrailKeeps
  <2>5. QED
    BY <1>1, <1>4, <2>2, <2>3, <2>4, QuietKeeps
<1>5. QED
  BY <1>3, <1>4 DEF Record

LEMMA ReportKeeps ==
  ASSUME NEW p, Procs = {p}, TypeOK, ProposalTypeOK, ProposalTypeOK', ReviewInv, Report(p)
  PROVE  ReviewInv' /\ \A y \in Ids : Later(stored[y], stored'[y])
<1> DEFINE t == task[p]
<1>1. /\ up[p] /\ t.op = "audit"
      /\ UNCHANGED <<brokerVars, known, stored, semantic, reviewed>>
      /\ trail' \in {trail, trail \cup {<<t.id, t.event>>}}
      /\ \/ task' = [task EXCEPT ![p] = Idle]
         \/ task' = [task EXCEPT ![p] = ToAudit(t.id, "write_denied")]
  BY DEF Report
<1>2. Sound(p, t) /\ t.id \in Ids
  BY <1>1, Running, TaskFields
<1>3. Sound(p, task[p])'
  <2>1. task'[p].op = "idle" \/ (task'[p].op = "audit" /\ task'[p].event = "write_denied")
    BY <1>1 DEF ProposalTypeOK, ToAudit, Idle
  <2>2. QED
    BY <2>1 DEF Sound
<1>4. TrailTruthful'
  <2>1. /\ t.event = "created" => stored[t.id] # NoProposal
        /\ t.event \in {"rejected", "written"} => stored[t.id].status = t.event
        /\ t.event = "approved" => stored[t.id].status = "approved"
    BY <1>1, <1>2, ProposalTypes DEF Sound
  <2>2. TrailTruthful
    BY DEF ReviewInv
  <2>3. \A y, e : <<y, e>> \in trail' => <<y, e>> \in trail \/ (y = t.id /\ e = t.event)
    BY <1>1
  <2>4. stored' = stored
    BY <1>1
  <2> HIDE DEF t
  <2>5. QED
    BY <2>1, <2>2, <2>3, <2>4 DEF TrailTruthful
<1>5. Grows /\ semantic' \subseteq reviewed' /\ \A y \in Ids : Later(stored[y], stored'[y])
  BY <1>1, Running, LaterFacts DEF Grows, Requested, RequestedAfter, brokerVars, ReviewInv
<1>6. QED
  BY <1>1, <1>3, <1>4, <1>5, QuietKeeps

\* What the broker's file says of a request, other than its status, stays.
LEMMA RequestsStay ==
  ASSUME TypeOK, BrokerMoves, \A s \in Requests : Register!Moves(disk[s], disk'[s]), issued \subseteq issued'
  PROVE  \A r \in Requests : Requested(r) => RequestedAfter(r)
<1> SUFFICES ASSUME NEW r \in Requests, Requested(r) PROVE RequestedAfter(r)
  OBVIOUS
<1>1. /\ disk'[r].status # "absent" /\ disk'[r].type = disk[r].type
      /\ disk[r].type = "memory_write" /\ r \in issued
  BY SlotFacts DEF Requested, Register!Moves, Register!SameRequest, Register!Closed, Register!Decisions
<1>2. QED
  BY <1>1 DEF RequestedAfter

LEMMA ProposeKeeps ==
  ASSUME NEW p, Procs = {p}, TypeOK, BrokerInv, Unissued', ProposalTypeOK, ProposalTypeOK', ReviewInv,
         NEW x \in Ids, NEW fact \in Facts, NEW r \in Requests, NEW fault \in Faults,
         Propose(p, x, fact, r, fault)
  PROVE  ReviewInv' /\ \A y \in Ids : Later(stored[y], stored'[y])
<1> DEFINE kind == <<"memory_write", NoTool>>
           map == [mem[p] EXCEPT ![r] = NewRequest(kind)]
<1>1. /\ up[p] /\ task[p] = Idle /\ UNCHANGED <<stored, semantic, trail, reviewed>>
      /\ Submit(p, r, kind, fault)
  BY DEF Propose, Ready
<1>2. kind \in Types \X (Tools \cup {NoTool}) /\ NoRequest \notin Requests
  BY ProposalAssumption
<1>3. BrokerMoves
  BY <1>1, <1>2 DEF BrokerMoves
<1>4. r \notin issued /\ issued' = issued \cup {r} /\ up' = [up EXCEPT ![p] = fault \notin CrashFaults]
      /\ (fault = "none" => disk' = map)
  BY <1>1 DEF Submit, SaveAndAudit
<1>5. \A s \in Requests : Register!Moves(disk[s], disk'[s])
  BY <1>3, StepKeeps DEF Kept
<1>6. Grows
  BY <1>1, <1>3, <1>4, <1>5, RequestsStay DEF Grows
<1>7. /\ Linked(known[p]) /\ Linked(stored) /\ known[p] \in [Ids -> Proposal] /\ stored \in [Ids -> Proposal]
      /\ \A y \in Ids : Later(stored[y], known[p][y]) /\ Later(stored[y], stored[y])
  BY <1>1, Running, LaterFacts
<1>8. LinkedAfter(known[p]) /\ LinkedAfter(stored)
  BY <1>6, <1>7, LinkedGrows
<1>9. Linked(stored)' /\ \A y \in Ids : Later(stored[y], stored'[y])
  BY <1>1, <1>7, <1>8 DEF Linked, LinkedAfter, Requested, RequestedAfter
<1>10. TrailTruthful' /\ semantic' \subseteq reviewed'
  BY <1>1, <1>9, TrailKeeps DEF ReviewInv
<1>11. CASE fault \in CrashFaults
  <2>1. ~up'[p] /\ task'[p] = Idle
    <3>1. fault # "none"
      BY <1>11 DEF CrashFaults
    <3>2. QED
      BY <1>1, <1>4, <1>11, <3>1 DEF Propose, Submitted, TypeOK
  <2>2. QED
    BY <1>9, <1>10, <2>1 DEF ReviewInv
<1>12. CASE fault \notin CrashFaults
  <2>1. up'[p] /\ known' = known
    BY <1>4, <1>12 DEF Propose, TypeOK
  <2>2. Linked(known[p])' /\ \A y \in Ids : Later(stored[y], known[p][y])'
    BY <1>1, <1>7, <1>8, <2>1 DEF Linked, LinkedAfter, Requested, RequestedAfter, Later
  <2>3. Sound(p, task[p])'
    <3>1. CASE fault # "none"
      <4>1. task'[p].op = "idle"
        BY <1>1, <3>1 DEF Propose, Submitted, Idle
      <4>2. QED
        BY <4>1 DEF Sound
    <3>2. CASE fault = "none"
      <4>1. /\ task'[p].op = "store" /\ task'[p].id = x
            /\ task'[p].fact = fact /\ task'[p].approval = r
        BY <3>2 DEF Propose, Submitted, ProposalTypeOK
      <4>2. stored'[x] = NoProposal /\ known'[p][x] = NoProposal
        BY <1>1, <2>1 DEF Propose, Fresh
      <4>3. RequestedAfter(r)
        <5>1. disk'[r] = NewRequest(kind)
          BY <1>4, <3>2 DEF TypeOK
        <5>2. NewRequest(kind).status = "pending" /\ NewRequest(kind).type = "memory_write"
          BY DEF NewRequest
        <5>3. QED
          BY <1>4, <5>1, <5>2 DEF RequestedAfter
      <4>4. ASSUME NEW y \in Ids PROVE known'[p][y].approval # r
        <5>1. CASE known[p][y].status = "none"
          BY <1>2, <1>7, <2>1, <5>1, ProposalTypes DEF Linked
        <5>2. CASE known[p][y].status # "none"
          <6>1. known[p][y].approval \in issued
            BY <1>7, <5>2 DEF Linked, Requested
          <6>2. QED
            BY <1>4, <2>1, <6>1
        <5>3. QED
          BY <5>1, <5>2
      <4>5. QED
        BY <4>1, <4>2, <4>3, <4>4 DEF Sound, Requested, RequestedAfter
    <3>3. QED
      BY <3>1, <3>2
  <2>4. QED
    BY <1>9, <1>10, <2>1, <2>2, <2>3 DEF ReviewInv
<1>13. QED
  BY <1>9, <1>11, <1>12

LEMMA BootKeeps ==
  ASSUME NEW p, Procs = {p}, TypeOK, ProposalTypeOK, ProposalTypeOK', ReviewInv, Boot(p) \/ Quit(p)
  PROVE  ReviewInv' /\ \A y \in Ids : Later(stored[y], stored'[y])
<1>1. UNCHANGED <<disk, issued, stored, semantic, trail, reviewed>>
  BY DEF Boot, Quit, Start, Stop
<1>2. Linked(stored) /\ stored \in [Ids -> Proposal] /\ \A y \in Ids : Later(stored[y], stored[y])
  BY LaterFacts DEF ReviewInv, ProposalTypeOK
<1>3. Linked(stored)' /\ TrailTruthful' /\ semantic' \subseteq reviewed'
  BY <1>1 DEF ReviewInv, Linked, Requested, TrailTruthful
<1>4. CASE Boot(p)
  <2>1. up'[p] /\ known'[p] = Sanitized(stored) /\ task'[p].op = "idle"
    <3>1. task[p] = Idle
      BY <1>4 DEF Boot, Start, ReviewInv
    <3>2. QED
      BY <1>4, <3>1 DEF Boot, Start, TypeOK, ProposalTypeOK, Idle
  <2>2. Linked(known[p])' /\ \A y \in Ids : Later(stored[y], known[p][y])'
    <3>1. Linked(known[p])'
      <4>1. \A y \in Ids :
              /\ known'[p][y].status = stored[y].status /\ known'[p][y].approval = stored[y].approval
              /\ stored[y] = NoProposal => known'[p][y] = NoProposal
        BY <1>2, <2>1, SanitizedType, ProposalTypes
      <4>2. QED
        BY <1>1, <1>2, <4>1 DEF Linked, Requested
    <3>2. \A y \in Ids : LET f == Sanitized(stored)[y] IN
            /\ f.status = stored[y].status /\ f.approval = stored[y].approval
            /\ Redact[stored[y].fact] = stored[y].fact => f.fact = stored[y].fact
      BY <1>2, SanitizedType
    <3>3. QED
      BY <1>1, <1>2, <2>1, <3>1, <3>2 DEF Later
  <2>3. Sound(p, task[p])'
    BY <2>1 DEF Sound
  <2>4. QED
    BY <1>1, <1>2, <1>3, <2>1, <2>2, <2>3 DEF ReviewInv
<1>5. CASE Quit(p)
  <2>1. ~up'[p] /\ task'[p] = Idle
    BY <1>5 DEF Quit, Stop, TypeOK, ProposalTypeOK
  <2>2. QED
    BY <1>1, <1>2, <1>3, <2>1 DEF ReviewInv
<1>6. QED
  BY <1>4, <1>5

-----------------------------------------------------------------------------

\* A map that keeps which proposals it has, and what their facts say, is as
\* faithful as before.
LEMMA FaithfulMap ==
  ASSUME NEW old, NEW map, Faithful(old),
         \A x \in Ids : map[x].status # "none" =>
           /\ old[x].status # "none"
           /\ Stable(said[x]) => map[x].fact \in {old[x].fact, Redact[old[x].fact]}
  PROVE  Faithful(map)
BY DEF Faithful, Stable

\* A new proposal of a fact that no other has.
LEMMA FaithfulStore ==
  ASSUME NEW p, Procs = {p}, ProposalTypeOK, ReviewInv, FactInv, Store(p)
  PROVE  Faithful(known[p])' /\ Faithful(stored)'
<1> DEFINE t == task[p]
           new == [status |-> "pending", fact |-> Redact[t.fact], approval |-> t.approval]
           map == [known[p] EXCEPT ![t.id] = new]
<1>1. /\ up[p] /\ t.op = "store" /\ said' = [said EXCEPT ![t.id] = t.fact]
      /\ Save(p, map, ToAudit(t.id, "created"), Idle)
  BY DEF Store
<1>2. /\ t.id \in Ids /\ t.fact \in Facts
      /\ stored[t.id].status = "none" /\ known[p][t.id].status = "none"
  BY <1>1, Running, TaskFields, ProposalTypes DEF Sound
<1>3. Faithful(known[p]) /\ Faithful(stored) /\ ~Duplicate(p, t.fact)
  BY <1>1 DEF FactInv
<1>4. map[t.id].status = "pending" /\ map[t.id].fact = Redact[t.fact] /\ \A x \in Ids \ {t.id} : map[x] = known[p][x]
  BY <1>1, <1>2, Running
<1>5. said'[t.id] = t.fact /\ \A x \in Ids \ {t.id} : said'[x] = said[x]
  BY <1>1, <1>2 DEF ProposalTypeOK
<1>6. known'[p] = map /\ stored' \in {map, stored}
  BY <1>1 DEF Save, ProposalTypeOK
<1> HIDE DEF t, new, map
<1>7. ASSUME NEW x \in Ids \ {t.id}, known[p][x].status # "none", Stable(said[x])
      PROVE  Redact[said[x]] # Redact[t.fact]
  BY <1>3, <1>7, ProposalTypes DEF Faithful, Duplicate, Stable
<1>8. ASSUME NEW x \in Ids, map[x].status # "none"
      PROVE  /\ said'[x] \in Facts
             /\ Stable(said'[x]) => map[x].fact = Redact[said'[x]]
             /\ \A y \in Ids \ {x} : map[y].status # "none" /\ Stable(said'[x]) /\ Stable(said'[y])
                                      => Redact[said'[x]] # Redact[said'[y]]
  <2>1. CASE x = t.id
    BY <1>2, <1>4, <1>5, <1>7, <2>1
  <2>2. CASE x # t.id
    BY <1>3, <1>4, <1>5, <1>7, <1>8, <2>2 DEF Faithful
  <2>3. QED
    BY <2>1, <2>2
<1>9. ASSUME NEW x \in Ids, stored[x].status # "none"
      PROVE  /\ said'[x] \in Facts
             /\ Stable(said'[x]) => stored[x].fact = Redact[said'[x]]
             /\ \A y \in Ids \ {x} : stored[y].status # "none" /\ Stable(said'[x]) /\ Stable(said'[y])
                                      => Redact[said'[x]] # Redact[said'[y]]
  BY <1>2, <1>3, <1>5, <1>9 DEF Faithful
<1>10. QED
  BY <1>6, <1>8, <1>9 DEF Faithful, Stable

\* Maps whose proposals differ in their status only.
LEMMA FaithfulStatus ==
  ASSUME NEW p, Procs = {p}, ProposalTypeOK, ReviewInv, FactInv, up[p], said' = said,
         NEW x \in Ids, known[p][x].status # "none", NEW status \in {"approved", "rejected", "written"},
         NEW then, NEW else, Save(p, SetStatus(p, x, status), then, else)
  PROVE  Faithful(known[p])' /\ Faithful(stored)'
<1> DEFINE map == SetStatus(p, x, status)
<1>1. known'[p] = map /\ stored' \in {map, stored}
  BY DEF Save, ProposalTypeOK
<1>2. \A y \in Ids : map[y].fact = known[p][y].fact /\ (map[y].status # "none" => known[p][y].status # "none")
  BY StatusType
<1> HIDE DEF map
<1>3. Faithful(map) /\ Faithful(stored)
  BY <1>2, FaithfulMap DEF FactInv
<1>4. QED
  BY <1>1, <1>3 DEF Faithful, Stable

LEMMA FactStep ==
  ASSUME NEW p, Procs = {p}, TypeOK, ProposalTypeOK, ProposalTypeOK', ReviewInv, FactInv, [ProposalNext]_vars
  PROVE  FactInv'
<1> USE DEF FactInv
<1>1. CASE UNCHANGED vars
  <2>1. UNCHANGED <<up, known, stored, task, said>>
    BY <1>1 DEF vars, proposalVars, brokerVars
  <2>2. QED
    BY <2>1 DEF Faithful, Stable, Duplicate
<1>2. CASE Boot(p)
  <2>1. known'[p] = Sanitized(stored) /\ UNCHANGED <<stored, said, task>> /\ task[p] = Idle
    BY <1>2 DEF Boot, Start, ReviewInv, ProposalTypeOK
  <2>2. \A x \in Ids : Sanitized(stored)[x].status # "none" =>
          /\ stored[x].status # "none" /\ Sanitized(stored)[x].fact \in {stored[x].fact, Redact[stored[x].fact]}
    BY SanitizedType, ProposalTypes DEF ProposalTypeOK
  <2>3. Faithful(Sanitized(stored)) /\ Faithful(stored)
    BY <2>2, FaithfulMap
  <2>4. task'[p].op # "store"
    BY <2>1 DEF Idle
  <2>5. QED
    BY <2>1, <2>3, <2>4 DEF Faithful, Stable
<1>3. CASE Quit(p)
  <2>1. ~up'[p] /\ UNCHANGED <<stored, said>>
    BY <1>3 DEF Quit, Stop, TypeOK
  <2>2. QED
    BY <2>1 DEF Faithful, Stable
<1>4. ASSUME NEW x \in Ids, NEW fact \in Facts, NEW r \in Requests, NEW fault \in Faults, Propose(p, x, fact, r, fault)
      PROVE  FactInv'
  <2>1. UNCHANGED <<stored, said>> /\ ~Duplicate(p, fact) /\ task[p] = Idle /\ up' = [up EXCEPT ![p] = fault \notin CrashFaults]
    BY <1>4 DEF Propose, Ready, Submit, SaveAndAudit
  <2>2. up'[p] => known' = known
    BY <1>4, <2>1 DEF Propose, TypeOK
  <2>3. task'[p].op = "store" => task'[p].fact = fact
    BY <1>4, <2>1 DEF Propose, Idle, ProposalTypeOK
  <2>4. up[p]
    BY <1>4 DEF Propose, Ready
  <2>5. QED
    BY <2>1, <2>2, <2>3, <2>4 DEF Faithful, Stable, Duplicate
<1>5. CASE Store(p)
  <2>1. task'[p].op # "store"
    BY <1>5 DEF Store, Save, ToAudit, Idle, ProposalTypeOK
  <2>2. QED
    BY <1>5, <2>1, FaithfulStore
<1>6. ASSUME NEW x \in Ids, NEW granted, Approve(p, x, granted) \/ Reject(p, x, granted)
      PROVE  FactInv'
  <2>1. PICK status \in {"approved", "rejected"} :
          /\ Save(p, SetStatus(p, x, status), ToAudit(x, status), Idle)
          /\ said' = said /\ up[p] /\ known[p][x].status # "none"
    BY <1>6 DEF Approve, Reject, Ready
  <2>2. task'[p].op # "store"
    BY <2>1 DEF Save, ToAudit, Idle, ProposalTypeOK
  <2>3. QED
    BY <2>1, <2>2, FaithfulStatus
<1>7. CASE /\ UNCHANGED <<known, stored, said>> /\ up[p] /\ task'[p].op # "store"
  BY <1>7 DEF Faithful, Stable
<1>8. ASSUME NEW x \in Ids, NEW granted, Write(p, x, granted)
      PROVE  FactInv'
  BY <1>7, <1>8 DEF Write, Ready, ToAudit, ProposalTypeOK
<1>9. CASE Record(p)
  <2> DEFINE x == task[p].id
  <2>1. up[p] /\ task[p].op = "record" /\ said' = said
    BY <1>9 DEF Record
  <2>2. x \in Ids /\ known[p][x].status # "none"
    BY <2>1, Running, TaskFields DEF Sound
  <2>3. task'[p].op # "store"
    BY <1>9 DEF Record, Save, ToAudit, ProposalTypeOK
  <2>4. CASE Save(p, SetStatus(p, x, "written"), ToAudit(x, "written"), ToAudit(x, "write_denied"))
    BY <2>1, <2>2, <2>3, <2>4, FaithfulStatus
  <2>5. CASE UNCHANGED <<known, stored>>
    BY <1>7, <2>1, <2>3, <2>5
  <2>6. QED
    BY <1>9, <2>4, <2>5 DEF Record
<1>10. CASE Report(p)
  BY <1>7, <1>10 DEF Report, ToAudit, Idle, ProposalTypeOK
<1>11. QED
  BY <1>1, <1>2, <1>3, <1>4, <1>5, <1>6, <1>8, <1>9, <1>10 DEF ProposalNext, Review

-----------------------------------------------------------------------------

\* The inductive invariant of a store and its broker.
StoreInv == TypeOK /\ Unissued /\ BrokerInv /\ ProposalTypeOK /\ ReviewInv /\ FactInv

LEMMA StoreStep ==
  ASSUME NEW p, Procs = {p}, StoreInv, [ProposalNext]_vars
  PROVE  StoreInv' /\ \A y \in Ids : Later(stored[y], stored'[y])
<1>1. TypeOK' /\ Unissued' /\ ProposalTypeOK' /\ BrokerMoves
  BY ProposalMoves, TypeStep, UnissuedStep, ProposalTypeStep DEF StoreInv
<1>2. BrokerInv' /\ FactInv'
  BY <1>1, StepKeeps, FactStep DEF StoreInv, Kept, BrokerInv
<1>3. CASE UNCHANGED vars
  <2>1. ReviewInv'
    <3>1. UNCHANGED <<up, disk, issued, known, stored, semantic, trail, task, reviewed>>
      BY <1>3 DEF vars, proposalVars, brokerVars
    <3>2. Linked(stored)' /\ TrailTruthful' /\ (semantic \subseteq reviewed)'
      BY <3>1 DEF StoreInv, ReviewInv, Linked, Requested, TrailTruthful
    <3>3. ASSUME up[p] PROVE Linked(known[p])' /\ \A x \in Ids : Later(stored[x], known[p][x])'
      BY <3>1, <3>3 DEF StoreInv, ReviewInv, Linked, Requested
    <3>4. ASSUME up[p] PROVE Sound(p, task[p])'
      BY <3>1, <3>4 DEF StoreInv, ReviewInv, Sound, Requested
    <3>5. ~up[p] => task'[p] = Idle
      BY <3>1 DEF StoreInv, ReviewInv
    <3>6. QED
      BY <3>1, <3>2, <3>3, <3>4, <3>5 DEF ReviewInv
  <2>2. \A y \in Ids : Later(stored[y], stored'[y])
    BY <1>3, LaterFacts DEF vars, proposalVars, StoreInv, ProposalTypeOK
  <2>3. QED
    BY <1>1, <1>2, <2>1, <2>2 DEF StoreInv
<1>4. CASE Boot(p) \/ Quit(p)
  BY <1>1, <1>2, <1>4, BootKeeps DEF StoreInv
<1>5. CASE \E x \in Ids, fact \in Facts, r \in Requests, fault \in Faults : Propose(p, x, fact, r, fault)
  BY <1>1, <1>2, <1>5, ProposeKeeps DEF StoreInv
<1>6. CASE Review(p)
  BY <1>1, <1>2, <1>6, ReviewKeeps DEF StoreInv
<1>7. CASE Store(p)
  BY <1>1, <1>2, <1>7, StoreKeeps DEF StoreInv
<1>8. CASE Record(p)
  BY <1>1, <1>2, <1>8, RecordKeeps DEF StoreInv
<1>9. CASE Report(p)
  BY <1>1, <1>2, <1>9, ReportKeeps DEF StoreInv
<1>10. QED
  BY <1>3, <1>4, <1>5, <1>6, <1>7, <1>8, <1>9 DEF ProposalNext

\* With one process, its map and the file link every proposal to a request of
\* its own, and what a handler is about to save or audit is true.
THEOREM StoreInvariant ==
  ASSUME NEW p, Procs = {p}
  PROVE  ProposalSpec => []StoreInv
<1>1. ProposalInit => StoreInv
  <2> SUFFICES ASSUME ProposalInit PROVE StoreInv
    OBVIOUS
  <2>1. TypeOK
    BY SlotFacts, BrokerAssumption DEF ProposalInit, Init, TypeOK
  <2>2. Unissued
    BY DEF ProposalInit, Init, Unissued, Empty
  <2>3. BrokerInv
    BY <2>2 DEF ProposalInit, Init, BrokerInv, Ahead, ExpiryHolds, AuditTruthful
  <2>4. ProposalTypeOK
    BY TaskTypes, ProposalTypes DEF ProposalInit, ProposalTypeOK
  <2>5. Linked(stored) /\ TrailTruthful
    BY ProposalTypes DEF ProposalInit, NoProposals, Linked, TrailTruthful
  <2>6. FactInv
    BY ProposalTypes DEF ProposalInit, Init, NoProposals, FactInv, Faithful
  <2>7. QED
    BY <2>1, <2>2, <2>3, <2>4, <2>5, <2>6 DEF StoreInv, ReviewInv, ProposalInit, Init
<1>2. StoreInv /\ [ProposalNext]_vars => StoreInv'
  BY StoreStep
<1>3. QED
  BY <1>1, <1>2, PTL DEF ProposalSpec

\* With one process, L3 holds what a reviewer approved and nothing else, and
\* all that the file calls written.
THEOREM MemoryIsReviewed ==
  ASSUME NEW p, Procs = {p}
  PROVE  ProposalSpec => []MemoryFollowsReview
<1>1. StoreInv => MemoryFollowsReview
  BY DEF StoreInv, ReviewInv, Linked, MemoryFollowsReview
<1>2. QED
  BY <1>1, StoreInvariant, PTL

\* With one process, there is at most one proposal for each fact that
\* sanitizing leaves alone the second time.
THEOREM FactsProposedOnce ==
  ASSUME NEW p, Procs = {p}
  PROVE  ProposalSpec => []OneProposalPerFact
<1>1. StoreInv => OneProposalPerFact
  <2>1. StoreInv => \A x \in Ids : stored[x] # NoProposal => stored[x].status # "none"
    BY DEF StoreInv, ReviewInv, Linked
  <2>2. QED
    BY <2>1 DEF StoreInv, FactInv, Faithful, OneProposalPerFact
<1>2. QED
  BY <1>1, StoreInvariant, PTL

\* With one process, a stored proposal names a request of its own that the
\* broker's file holds.
THEOREM ProposalsLinked ==
  ASSUME NEW p, Procs = {p}
  PROVE  ProposalSpec => []LinkedApproval
<1>1. StoreInv => LinkedApproval
  <2> SUFFICES ASSUME StoreInv, NEW x \in Ids, stored[x] # NoProposal
               PROVE  /\ disk[stored[x].approval].type = "memory_write"
                      /\ \A y \in Ids \ {x} : stored[y].approval # stored[x].approval
    BY DEF LinkedApproval
  <2>1. stored[x].status # "none"
    BY DEF StoreInv, ReviewInv, Linked
  <2>2. QED
    BY <2>1 DEF StoreInv, ReviewInv, Linked, Requested
<1>2. QED
  BY <1>1, StoreInvariant, PTL

\* With one process, the audit log says of a proposal what the file says.
THEOREM TrailIsTruthful ==
  ASSUME NEW p, Procs = {p}
  PROVE  ProposalSpec => []TrailTruthful
<1>1. StoreInv => TrailTruthful
  BY DEF StoreInv, ReviewInv
<1>2. QED
  BY <1>1, StoreInvariant, PTL

\* With one process, rejected and written are final in the file, an approval is
\* not withdrawn in silence, its request never changes, and its fact only where
\* sanitizing it once more changes it.
THEOREM LifecycleKept ==
  ASSUME NEW p, Procs = {p}
  PROVE  ProposalSpec => StoredLifecycle
<1> DEFINE Life ==
      \A x \in Ids : LET old == stored[x] new == stored'[x] IN
        old # NoProposal =>
          /\ new.approval = old.approval
          /\ Redact[old.fact] = old.fact => new.fact = old.fact
          /\ old.status \in {"rejected", "written"} => new.status = old.status
          /\ old.status = "approved" => new.status \in {"approved", "rejected", "written"}
<1>1. StoreInv /\ [ProposalNext]_vars => [Life]_vars
  <2> SUFFICES ASSUME StoreInv, [ProposalNext]_vars PROVE Life
    OBVIOUS
  <2>1. \A x \in Ids : stored[x] # NoProposal => stored[x].status # "none"
    BY DEF StoreInv, ReviewInv, Linked
  <2>2. \A x \in Ids : Later(stored[x], stored'[x])
    BY StoreStep
  <2>3. QED
    BY <2>1, <2>2 DEF Later
<1>2. QED
  BY <1>1, StoreInvariant, PTL DEF ProposalSpec, StoredLifecycle

\* With one process, the file of the requests still implements the abstract
\* register when proposals submit them and reviews resolve them.
THEOREM RegisterUnderProposals ==
  ASSUME NEW p, Procs = {p}
  PROVE  ProposalSpec => RegisterSpec
<1>1. ProposalInit => Register!Init
  BY RegisterStart DEF ProposalInit
<1>2. StoreInv /\ StoreInv' /\ [ProposalNext]_vars => [Register!Write]_disk
  BY ProposalMoves, RegisterStep DEF StoreInv
<1>3. QED
  BY <1>1, <1>2, StoreInvariant, PTL DEF ProposalSpec, RegisterSpec, Register!Spec
=============================================================================
