---------------------------- MODULE StackPlanning ----------------------------
(***************************************************************************)
(* PlanDeploymentStack over the OpenTofu engine: a request is looked up,   *)
(* the engine makes a workspace, takes the lease of the stack's state,     *)
(* runs init, validate, plan and show as processes of their own, stores    *)
(* the saved plan, gives the lease and the workspace back, and the plan is *)
(* recorded under its request.  The caller may abort it at any time, which *)
(* the code looks at only here and there; a process that is told to end    *)
(* runs on until it does.  Resolver, lock manager, artifact store and      *)
(* policy are behind ports and may fail whenever they are called.          *)
(***************************************************************************)
EXTENDS FiniteSets

CONSTANTS
    None,
    Plans,          \* plan identities, a fresh one for every execution
    Requests,       \* request identities
    Commands        \* [request, stack, content]: content is what sameRequest compares

\* Every stack has a state key of its own (defineDeploymentStack).
PlanningAssumption ==
    /\ IsFiniteSet(Plans)
    /\ \A c \in Commands : DOMAIN c = {"request", "stack", "content"} /\ c.request \in Requests
    /\ None \notin Plans

Stacks == {c.stack : c \in Commands}

\* What is told to a process that must end, and the way its end is reported then.
Terminations == {"cancelled", "timed-out", "output-limit-exceeded"}
Processes == {"init", "validate", "plan", "show"}
Stages == Processes \cup
    {"idle", "lookup", "stack", "workspace", "module", "topology", "lock", "saved", "store",
     "release", "cleanup", "policy", "insert", "raced", "answered"}

VARIABLES
    records,        \* the plan that is stored under a request
    executions,     \* one per plan identity
    holder,         \* the plan that holds the lease of a state
    directories,    \* plans whose workspace exists
    artifacts,      \* plans whose saved plan was stored
    child           \* the OpenTofu process of a plan

vars == <<records, executions, holder, directories, artifacts, child>>

Idle == [stage |-> "idle", command |-> None, aborted |-> FALSE, result |-> None]

\* What an engine, a port or the command itself fails with.
Codes == Terminations \cup
    {"idempotency-conflict", "deployment-stack-not-found", "infrastructure-engine-not-registered",
     "engine-cancelled", "workspace-creation-failed", "artifact-materialization-failed",
     "artifact-digest-mismatch", "state-lock-timeout", "artifact-store-failed",
     "state-lock-release-failed", "workspace-cleanup-failed", "engine-failed",
     "plan-json-invalid", "engine-not-started", "infrastructure-engine-contract-violation",
     "thrown", "concurrent-modification"}
Answers == [ok : {TRUE}, plan : Plans] \cup [ok : {FALSE}, code : Codes]
Execution == [stage : Stages, command : Commands \cup {None}, aborted : BOOLEAN,
              result : Answers \cup {None}]
Record == [plan : Plans, command : Commands]

NoneIsNoRecord == None \notin Record

TypeOK ==
    /\ records \in [Requests -> Record \cup {None}]
    /\ executions \in [Plans -> Execution]
    /\ holder \in [Stacks -> Plans \cup {None}]
    /\ directories \subseteq Plans /\ artifacts \subseteq Plans
    /\ child \in [Plans -> {"none", "running"} \cup Terminations]

Init ==
    /\ records = [r \in Requests |-> None]
    /\ executions = [p \in Plans |-> Idle]
    /\ holder = [s \in Stacks |-> None]
    /\ directories = {}
    /\ artifacts = {}
    /\ child = [p \in Plans |-> "none"]

At(p, stage) == executions[p].stage = stage
StackOf(p) == executions[p].command.stack
Holds(p) == holder[StackOf(p)] = p

Failure(code) == [ok |-> FALSE, code |-> code]

Go(p, stage) == executions' = [executions EXCEPT ![p].stage = stage]
Answer(p, result) ==
    executions' = [executions EXCEPT ![p].stage = "answered", ![p].result = result]
\* plan: the result so far, and on to what must be given back.
Leave(p, result) ==
    executions' = [executions EXCEPT ![p].stage = IF Holds(p) THEN "release" ELSE "cleanup",
                                     ![p].result = result]
Fails(p, code) == Leave(p, Failure(code))

\* The next await of the engine, unless the signal is aborted.
GoUnlessAborted(p, stage) ==
    IF executions[p].aborted THEN Fails(p, "engine-cancelled") ELSE Go(p, stage)

----------------------------------------------------------------------------
(* PlanDeploymentStack.execute, up to the engine.                          *)

Request(p, command) ==
    /\ At(p, "idle")
    /\ executions' = [executions EXCEPT ![p].stage = "lookup", ![p].command = command]
    /\ UNCHANGED <<records, holder, directories, artifacts, child>>

sameRequest(record, p) == record.command = executions[p].command

AnswerExisting(p, record) ==
    IF sameRequest(record, p) THEN Answer(p, [ok |-> TRUE, plan |-> record.plan])
                              ELSE Answer(p, Failure("idempotency-conflict"))

FindByRequest(p) ==
    LET existing == records[executions[p].command.request] IN
    /\ At(p, "lookup")
    /\ IF existing = None THEN Go(p, "stack") ELSE AnswerExisting(p, existing)
    /\ UNCHANGED <<records, holder, directories, artifacts, child>>

\* The signal is first looked at when the engine is asked to plan.
FindStack(p) ==
    /\ At(p, "stack")
    /\ \/ Answer(p, Failure("deployment-stack-not-found"))
       \/ Answer(p, Failure("infrastructure-engine-not-registered"))
       \/ IF executions[p].aborted THEN Answer(p, Failure("engine-cancelled"))
                                   ELSE Go(p, "workspace")
    /\ UNCHANGED <<records, holder, directories, artifacts, child>>

----------------------------------------------------------------------------
(* The engine, before and after its processes.                             *)

CreateWorkspace(p) ==
    /\ At(p, "workspace")
    /\ directories' = directories \cup {p}
    /\ GoUnlessAborted(p, "module")
    /\ UNCHANGED <<records, holder, artifacts, child>>

\* The directory may have been made when its mode cannot be set.
CreateWorkspaceFails(p) ==
    /\ At(p, "workspace")
    /\ \/ UNCHANGED directories
       \/ directories' = directories \cup {p}
    /\ Answer(p, Failure("workspace-creation-failed"))
    /\ UNCHANGED <<records, holder, artifacts, child>>

\* The abort is looked at before and after each selection is resolved.
Materialize(p) ==
    /\ \/ /\ At(p, "module")
          /\ GoUnlessAborted(p, "topology")
       \/ /\ At(p, "topology")
          /\ GoUnlessAborted(p, "lock")
       \/ /\ At(p, "module") \/ At(p, "topology")
          /\ \E code \in {"artifact-materialization-failed", "artifact-digest-mismatch"} :
               Fails(p, code)
    /\ UNCHANGED <<records, holder, directories, artifacts, child>>

\* A lease that comes after the abort is taken, and given back.
AcquireLock(p) ==
    /\ At(p, "lock")
    /\ holder[StackOf(p)] = None
    /\ holder' = [holder EXCEPT ![StackOf(p)] = p]
    /\ executions' = IF executions[p].aborted
                     THEN [executions EXCEPT ![p].stage = "release",
                                             ![p].result = Failure("engine-cancelled")]
                     ELSE [executions EXCEPT ![p].stage = "init"]
    /\ UNCHANGED <<records, directories, artifacts, child>>

AcquireLockFails(p) ==
    /\ At(p, "lock")
    /\ \/ executions[p].aborted /\ Fails(p, "engine-cancelled")
       \/ Fails(p, "state-lock-timeout")
    /\ UNCHANGED <<records, holder, directories, artifacts, child>>

\* readSavedPlan.
ReadSavedPlan(p) ==
    /\ At(p, "saved")
    /\ Go(p, "show") \/ Fails(p, "artifact-store-failed")
    /\ UNCHANGED <<records, holder, directories, artifacts, child>>

\* The artifact stays also if the answer is lost, refused or too late.
StoreArtifact(p) ==
    /\ At(p, "store")
    /\ \/ /\ artifacts' = artifacts \cup {p}
          /\ IF executions[p].aborted THEN Fails(p, "engine-cancelled")
                                      ELSE Leave(p, [ok |-> TRUE, plan |-> p])
       \/ /\ artifacts' \in {artifacts, artifacts \cup {p}}
          /\ Fails(p, "artifact-store-failed")
    /\ UNCHANGED <<records, holder, directories, child>>

\* A release that fails may have been done all the same.
Release(p) ==
    /\ At(p, "release")
    /\ \/ /\ holder' = [holder EXCEPT ![StackOf(p)] = None]
          /\ Go(p, "cleanup")
       \/ /\ holder' \in {holder, [holder EXCEPT ![StackOf(p)] = None]}
          /\ executions' = [executions EXCEPT ![p].stage = "cleanup",
                                              ![p].result = Failure("state-lock-release-failed")]
    /\ UNCHANGED <<records, directories, artifacts, child>>

Cleanup(p) ==
    /\ At(p, "cleanup")
    /\ \/ /\ directories' = directories \ {p}
          /\ Go(p, IF executions[p].result.ok THEN "policy" ELSE "answered")
       \/ /\ UNCHANGED directories
          /\ Answer(p, Failure("workspace-cleanup-failed"))
    /\ UNCHANGED <<records, holder, artifacts, child>>

----------------------------------------------------------------------------
(* The processes.                                                          *)

AfterProcess(stage) ==
    CASE stage = "init" -> "validate"
      [] stage = "validate" -> "plan"
      [] stage = "plan" -> "saved"
      [] stage = "show" -> "store"

\* hasStateLockDiagnostic: what a plan wrote may say that its state is locked elsewhere.
PlanFailures == {"engine-failed", "state-lock-timeout"}
\* parseOpenTofuPlan: show may end well, with a plan that is not understood.
ShowFailures == {"engine-failed", "plan-json-invalid"}
FailuresOf(stage) ==
    CASE stage = "plan" -> PlanFailures
      [] stage = "show" -> ShowFailures
      [] OTHER -> {"engine-failed"}

\* A deviation: of a process that an abort kept from starting no outcome comes.
SpawnUnheard(p) ==
    /\ executions[p].stage \in Processes
    /\ child[p] = "none"
    /\ ~executions[p].aborted
    /\ \/ child' = [child EXCEPT ![p] = "running"] /\ UNCHANGED executions
       \/ Fails(p, "engine-not-started") /\ UNCHANGED child
    /\ UNCHANGED <<records, holder, directories, artifacts>>

\* run: an abort of before is seen first, and the process may not start at all.
Spawn(p) ==
    /\ executions[p].stage \in Processes
    /\ child[p] = "none"
    /\ \/ /\ executions[p].aborted
          /\ Fails(p, "engine-cancelled")
          /\ UNCHANGED child
       \/ /\ ~executions[p].aborted
          /\ \/ child' = [child EXCEPT ![p] = "running"] /\ UNCHANGED executions
             \/ Fails(p, "engine-not-started") /\ UNCHANGED child
    /\ UNCHANGED <<records, holder, directories, artifacts>>

\* terminate, at the deadline or when too much was written.
Terminate(p) ==
    /\ child[p] = "running"
    /\ \E why \in Terminations \ {"cancelled"} : child' = [child EXCEPT ![p] = why]
    /\ UNCHANGED <<records, executions, holder, directories, artifacts>>

\* A deviation: the outcome of a process is known as soon as it is told to end.
ClosedWhenTold(p) ==
    /\ child[p] # "none"
    /\ IF child[p] \in Terminations
       THEN Fails(p, child[p]) /\ UNCHANGED child
       ELSE /\ child' = [child EXCEPT ![p] = "none"]
            /\ Go(p, AfterProcess(executions[p].stage))
    /\ UNCHANGED <<records, holder, directories, artifacts>>

\* The process ended and its output is closed: the first outcome asked for counts, and
\* of a process that was not told to end its exit and what it wrote.  What show wrote
\* is parsed, and the abort looked at again.
Closed(p) ==
    /\ child[p] # "none"
    /\ child' = [child EXCEPT ![p] = "none"]
    /\ IF child[p] \in Terminations
       THEN Fails(p, child[p])
       ELSE \/ IF At(p, "show") THEN GoUnlessAborted(p, "store")
                                ELSE Go(p, AfterProcess(executions[p].stage))
            \/ \E code \in FailuresOf(executions[p].stage) : Fails(p, code)
    /\ UNCHANGED <<records, holder, directories, artifacts>>

\* The caller aborts: a running process is told to end.
Abort(p) ==
    /\ executions[p].stage \notin {"idle", "answered"}
    /\ ~executions[p].aborted
    /\ executions' = [executions EXCEPT ![p].aborted = TRUE]
    /\ child' = IF child[p] = "running" THEN [child EXCEPT ![p] = "cancelled"] ELSE child
    /\ UNCHANGED <<records, holder, directories, artifacts>>

----------------------------------------------------------------------------
(* PlanDeploymentStack.execute, after the engine.                          *)

\* normalizeEngineValue, normalizePolicy: the plan is not the one that was asked for, a
\* change of it is not understood, or the decision is none; the policy may also throw.
Refusals == {"infrastructure-engine-contract-violation", "thrown"}

Evaluate(p) ==
    /\ At(p, "policy")
    /\ \/ Go(p, "insert")
       \/ \E code \in Refusals : Answer(p, Failure(code))
    /\ UNCHANGED <<records, holder, directories, artifacts, child>>

Insert(p) ==
    LET request == executions[p].command.request IN
    /\ At(p, "insert")
    /\ IF records[request] = None
       THEN /\ records' = [records EXCEPT ![request] =
                             [plan |-> p, command |-> executions[p].command]]
            /\ Answer(p, [ok |-> TRUE, plan |-> p])
       ELSE /\ UNCHANGED records
            /\ Go(p, "raced")
    /\ UNCHANGED <<holder, directories, artifacts, child>>

AnswerRaced(p) ==
    LET raced == records[executions[p].command.request] IN
    /\ At(p, "raced")
    /\ IF sameRequest(raced, p) THEN Answer(p, [ok |-> TRUE, plan |-> raced.plan])
                                ELSE Answer(p, Failure("concurrent-modification"))
    /\ UNCHANGED <<records, holder, directories, artifacts, child>>

----------------------------------------------------------------------------
\* What the code and its ports do by themselves; a process ends by itself too.
Step(p) ==
    \/ FindByRequest(p) \/ FindStack(p) \/ CreateWorkspace(p) \/ CreateWorkspaceFails(p)
    \/ Materialize(p) \/ AcquireLock(p) \/ AcquireLockFails(p) \/ ReadSavedPlan(p)
    \/ StoreArtifact(p) \/ Release(p) \/ Cleanup(p) \/ Spawn(p) \/ Closed(p)
    \/ Evaluate(p) \/ Insert(p) \/ AnswerRaced(p)

Next == \E p \in Plans :
    \/ \E command \in Commands : Request(p, command)
    \/ Step(p) \/ Terminate(p) \/ Abort(p)

\* Every port answers, and every process ends in the end.
Fairness == \A p \in Plans : WF_vars(Step(p))

Spec == Init /\ [][Next]_vars /\ Fairness

----------------------------------------------------------------------------
\* OpenTofu runs only in a workspace that exists and under the lease of its state, which
\* no two plans have: neither a timeout nor an abort gives them back while it runs.
RunsUnderLease ==
    \A p \in Plans : child[p] # "none" => p \in directories /\ Holds(p)

\* What a plan leaves behind, its answer tells: a workspace by the workspace's failure,
\* a lease by the failure of the release or, told instead of it, of the clean-up.
LeftoversAreTold ==
    \A p \in Plans : At(p, "answered") =>
        LET told == executions[p].result IN
        /\ p \in directories =>
             ~told.ok /\ told.code \in {"workspace-creation-failed", "workspace-cleanup-failed"}
        /\ Holds(p) =>
             ~told.ok /\ told.code \in {"state-lock-release-failed", "workspace-cleanup-failed"}

\* The plan of a request is what all that sent it were answered with; its artifact is
\* stored and, as its evidence says, the lease was released and the workspace is gone.
PlanStands ==
    /\ \A r \in Requests : records[r] # None =>
         LET p == records[r].plan IN
         /\ p \in artifacts /\ p \notin directories /\ child[p] = "none"
         /\ \A s \in Stacks : holder[s] # p
    /\ \A p \in Plans : (At(p, "answered") /\ executions[p].result.ok) =>
         LET record == records[executions[p].command.request] IN
         /\ record # None
         /\ record.plan = executions[p].result.plan
         /\ sameRequest(record, p)

PlansStand == RunsUnderLease /\ LeftoversAreTold /\ PlanStands

\* Every execution is answered in the end, aborted or not.
PlansEnd == \A p \in Plans : <>[](At(p, "idle") \/ At(p, "answered"))
=============================================================================
