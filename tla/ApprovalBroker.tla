--------------------------- MODULE ApprovalBroker ---------------------------
(***************************************************************************)
(* ApprovalBroker (myclaw/src/approval/broker.js): requests for human      *)
(* approval, kept in the memory of every process that has a broker (the    *)
(* gateway, each run of the CLI) and in one shared file, approvals.json.   *)
(*                                                                         *)
(* A broker reads the file once, in its constructor, and rewrites it as a  *)
(* whole after each change of its own map.  The handlers are synchronous   *)
(* (the file lock sleeps with Atomics.wait), so each one is an action; the *)
(* points at which it can throw or the process can die are its `fault'.    *)
(***************************************************************************)
EXTENDS Naturals, FiniteSets

CONSTANTS Procs,       \* processes that run a broker on the same file
          Requests,    \* identifiers that createApprovalId may return
          Types,       \* APPROVAL_TYPES in use
          Tools,       \* tool names
          NoTool,      \* toolName = null
          Kinds,       \* <<type, toolName>> pairs that callers submit
          Permissions, \* permissions a context may carry
          Required,    \* Required[t]: any of these may decide a request of type t
          Contexts,    \* sets of permissions that callers present
          TTL,         \* lifetime of a request (ttlMs, 5 minutes in the code)
          MaxTime,     \* bound: last instant of the clock
          Faults       \* which faults this instance injects, see AllFaults

\* Where a handler can be interrupted: _save or _audit throws (lock timeout,
\* full disk), or the process dies before one of them.
AllFaults    == {"none", "saveThrows", "auditThrows", "crashBeforeSave", "crashBeforeAudit"}
CrashFaults  == {"crashBeforeSave", "crashBeforeAudit"}

ASSUME BrokerAssumption ==
  /\ TTL \in Nat \ {0}
  /\ MaxTime \in Nat
  /\ Faults \subseteq AllFaults
  /\ "none" \in Faults
  /\ Kinds \subseteq Types \X (Tools \cup {NoTool})
  /\ Required \in [Types -> SUBSET Permissions]
  /\ Contexts \subseteq SUBSET Permissions

VARIABLES now,    \* the clock
          up,     \* up[p]: process p runs
          mem,    \* mem[p]: the Map `requests' of p's broker
          disk,   \* approvals.json
          audit,  \* <<r, e>>: event approval.e of r is in the audit log
          issued  \* history: identifiers handed out so far

brokerVars == <<now, up, mem, disk, audit, issued>>

Register == INSTANCE ApprovalRegister WITH reg <- disk

Decisions == Register!Decisions
Closed    == Register!Closed
Absent    == Register!Absent
Empty     == [r \in Requests |-> Absent]
Events    == {"submitted"} \cup Closed

TypeOK ==
  /\ now \in 0..MaxTime
  /\ up \in [Procs -> BOOLEAN]
  /\ mem \in [Procs -> [Requests -> Register!Entry]]
  /\ disk \in [Requests -> Register!Entry]
  /\ audit \subseteq Requests \X Events
  /\ issued \subseteq Requests

-----------------------------------------------------------------------------

\* A variant with a bug: the fields of the request are swapped.
SwappedRequest(kind) ==
  [status |-> "pending", type |-> kind[2], tool |-> kind[1], expiresAt |-> now + TTL, decidedAt |-> 0]

\* new ApprovalRequest: pending, with its deadline.
NewRequest(kind) ==
  [status |-> "pending", type |-> kind[1], tool |-> kind[2], expiresAt |-> now + TTL, decidedAt |-> 0]

\* Variants with a bug: the deadline itself still counts as in time; expireOld
\* does not look at the status.
LateOverdue(e)   == e.status = "pending" /\ e.expiresAt < now
AnyOverdue(e)    == e.status # "absent" /\ e.expiresAt <= now

\* expiresAt <= now, of a pending request (expireOld, resolve)
Overdue(e) == e.status = "pending" /\ e.expiresAt <= now

\* A request of p's map with a new status.
Close(p, r, status) ==
  [mem[p] EXCEPT ![r] = [@ EXCEPT !.status = status, !.decidedAt = now]]

\* _enforceDecisionPermission
MayDecide(e, granted) == e.type \in Types /\ granted \cap Required[e.type] # {}

\* A variant with a bug: the event is audited before the map is saved.
AuditAndSave(p, map, r, event, fault) ==
  /\ up'    = [up EXCEPT ![p] = fault \notin CrashFaults]
  /\ mem'   = [mem EXCEPT ![p] = IF fault \in CrashFaults THEN Empty ELSE map]
  /\ disk'  = IF fault = "none" THEN map ELSE disk
  /\ audit' = audit \cup {<<r, event>>}

\* The end of submit and of resolve: the changed map, _save, then _audit.
SaveAndAudit(p, map, r, event, fault) ==
  /\ up'    = [up EXCEPT ![p] = fault \notin CrashFaults]
  /\ mem'   = [mem EXCEPT ![p] = IF fault \in CrashFaults THEN Empty ELSE map]
  /\ disk'  = IF fault \in {"saveThrows", "crashBeforeSave"} THEN disk ELSE map
  /\ audit' = IF fault = "none" THEN audit \cup {<<r, event>>} ELSE audit

-----------------------------------------------------------------------------

Init ==
  /\ now = 0
  /\ up = [p \in Procs |-> FALSE]
  /\ mem = [p \in Procs |-> Empty]
  /\ disk = Empty
  /\ audit = {}
  /\ issued = {}

\* A variant with a bug: a restarted broker does not load the file.
StartEmpty(p) ==
  /\ ~up[p]
  /\ up' = [up EXCEPT ![p] = TRUE]
  /\ UNCHANGED <<now, mem, disk, audit, issued>>

\* new ApprovalBroker: _load
Start(p) ==
  /\ ~up[p]
  /\ up' = [up EXCEPT ![p] = TRUE]
  /\ mem' = [mem EXCEPT ![p] = disk]
  /\ UNCHANGED <<now, disk, audit, issued>>

\* The process ends, or is killed, between two handlers.
Stop(p) ==
  /\ up[p]
  /\ up' = [up EXCEPT ![p] = FALSE]
  /\ mem' = [mem EXCEPT ![p] = Empty]
  /\ UNCHANGED <<now, disk, audit, issued>>

Submit(p, r, kind, fault) ==
  /\ up[p]
  /\ r \notin issued
  /\ issued' = issued \cup {r}
  /\ SaveAndAudit(p, [mem[p] EXCEPT ![r] = NewRequest(kind)], r, "submitted", fault)
  /\ UNCHANGED now

\* A variant with a bug: a closed request can be decided again.
ResolveAgain(p, r, decision, granted, fault) ==
  /\ up[p]
  /\ MayDecide(mem[p][r], granted)
  /\ LET outcome == IF Overdue(mem[p][r]) THEN "expired" ELSE decision
     IN  SaveAndAudit(p, Close(p, r, outcome), r, outcome, fault)
  /\ UNCHANGED <<now, issued>>

\* resolve, for a caller who may decide: an overdue request expires whatever
\* the decision, a closed one is returned as it is.
Resolve(p, r, decision, granted, fault) ==
  /\ up[p]
  /\ MayDecide(mem[p][r], granted)
  /\ mem[p][r].status = "pending"
  /\ LET outcome == IF Overdue(mem[p][r]) THEN "expired" ELSE decision
     IN  SaveAndAudit(p, Close(p, r, outcome), r, outcome, fault)
  /\ UNCHANGED <<now, issued>>

\* expireOld closes the overdue requests one by one, auditing each, and saves
\* once at the end.  `swept' are those it reached, `told' those it audited.
Sweep(p, swept) ==
  [r \in Requests |-> IF r \in swept THEN Close(p, r, "expired")[r] ELSE mem[p][r]]

ExpireOld(p, swept, told, fault) ==
  LET old == {r \in Requests : Overdue(mem[p][r])}
  IN
  /\ up[p]
  /\ old # {}
  /\ told \subseteq swept /\ swept \subseteq old
  /\ \/ /\ fault \in {"none", "saveThrows"}
        /\ swept = old /\ told = old
     \/ /\ fault = "auditThrows"
        /\ \E last \in swept : told = swept \ {last}
     \/ /\ fault = "crashBeforeSave"
        /\ swept = told
  /\ up'    = [up EXCEPT ![p] = fault # "crashBeforeSave"]
  /\ mem'   = [mem EXCEPT ![p] = IF fault = "crashBeforeSave" THEN Empty ELSE Sweep(p, swept)]
  /\ disk'  = IF fault = "none" THEN Sweep(p, swept) ELSE disk
  /\ audit' = audit \cup {<<r, "expired">> : r \in told}
  /\ UNCHANGED <<now, issued>>

Tick ==
  /\ now < MaxTime
  /\ now' = now + 1
  /\ UNCHANGED <<up, mem, disk, audit, issued>>

\* The approval API of the gateway (_handleApprovalApi, and the command line's
\* approve and deny, which make a broker of their own): a request that the
\* broker knows, by a caller with any of the contexts.
Decide(p) ==
  \E r \in {x \in Requests : mem[p][x] # Absent}, d \in Decisions, granted \in Contexts, fault \in Faults :
    Resolve(p, r, d, granted, fault)

Step(p) ==
  \/ Start(p)
  \/ Stop(p)
  \/ \E r \in Requests, kind \in Kinds, fault \in Faults : Submit(p, r, kind, fault)
  \/ Decide(p)
  \/ \E swept, told \in SUBSET Requests, fault \in Faults :
       ExpireOld(p, swept, told, fault)

Next == Tick \/ \E p \in Procs : Step(p)

Spec == Init /\ [][Next]_brokerVars

-----------------------------------------------------------------------------

\* A decision is final in the memory of a running broker: resolve and
\* expireOld leave a closed request alone, whoever calls them and however
\* often (broker.js, the status checks of resolve and expireOld).
DecisionFinal ==
  [][\A p \in Procs, r \in Requests :
       (up[p] /\ up'[p] /\ mem[p][r].status \in Closed) => mem'[p][r] = mem[p][r]]_brokerVars

\* A decision is final in the file as well: one process, its crashes and
\* failed writes never take a decision that was saved back.
StoredDecisionFinal ==
  [][\A r \in Requests : disk[r].status \in Closed => disk'[r] = disk[r]]_brokerVars

\* The audit log never contradicts the file: an approval or a denial that was
\* audited is the one the file holds, and a request whose expiry was audited
\* is never found approved or denied afterwards (resolve audits after saving;
\* expireOld audits before saving and may die in between).
AuditTruthful ==
  \A r \in Requests :
    /\ \A d \in Decisions : <<r, d>> \in audit => disk[r].status = d
    /\ <<r, "expired">> \in audit => disk[r].status \notin Decisions

\* The file implements the abstract register.
RegisterSpec == Register!Spec

-----------------------------------------------------------------------------

\* Why this holds for one process.  Its memory is the file or one move of the
\* register ahead of it (a write that failed); identifiers are fresh; and a
\* request whose expiry was audited can only expire again, because the clock
\* does not go back.
Ahead == \A p \in Procs : up[p] => \A r \in Requests : Register!Moves(disk[r], mem[p][r])

Unissued ==
  \A r \in Requests \ issued :
    /\ disk[r] = Absent
    /\ \A p \in Procs : mem[p][r] = Absent
    /\ \A e \in Events : <<r, e>> \notin audit

OutOfTime(e) == e.status \in {"absent", "expired"} \/ Overdue(e)

ExpiryHolds ==
  \A r \in Requests :
    <<r, "expired">> \in audit =>
      OutOfTime(disk[r]) /\ \A p \in Procs : up[p] => OutOfTime(mem[p][r])

\* The inductive invariant: besides the parts above, what the file and the
\* audit log say of a decision agree.
BrokerInv == Ahead /\ Unissued /\ ExpiryHolds /\ AuditTruthful
=============================================================================
