--------------------------- MODULE QueueDispatch ---------------------------
(***************************************************************************)
(* The agents of a desktop run: queue_execution.rs spawns one task per     *)
(* agent of the work order, queue_execution_registry.rs keeps the abort    *)
(* handles a cancel request needs, queue_limits.rs bounds how many agents  *)
(* talk to providers, queue_provider_client.rs retries a provider.         *)
(*                                                                         *)
(* A task is a future the runtime polls.  Its abort handle is looked at    *)
(* when a poll begins and when the poll would suspend, never in between,   *)
(* so an abort may land while the task is being polled and the task may    *)
(* still answer in that poll (futures_util::future::Abortable).            *)
(* What happens to the work order's file is the module QueueExecution.     *)
(***************************************************************************)
EXTENDS Naturals, FiniteSets, Sequences

CONSTANTS
    Executions,     \* execution ids, fresh for every request of the panel
    Orders,         \* work orders of the workspace
    OrderOf,        \* the work order an execution runs
    AgentCount,     \* how many agents an execution calls
    Providers,      \* chat-completion providers
    ProviderOf,     \* the provider of an agent of an execution
    GlobalLimit,    \* QUEUE_EXECUTION_MAX_CONCURRENCY
    ProviderLimit,  \* QUEUE_PROVIDER_MAX_CONCURRENCY
    MaxAttempts     \* CHAT_COMPLETION_MAX_ATTEMPTS

\* The i-th agent of execution e; tasks are spawned and joined in this order.
Agents == UNION {{<<e, i>> : i \in 1 .. AgentCount[e]} : e \in Executions}

ASSUME ExecutionsAssumption ==
    /\ OrderOf \in [Executions -> Orders]
    /\ AgentCount \in [Executions -> Nat \ {0}]
    /\ ProviderOf \in [Agents -> Providers]
ASSUME LimitsAssumption ==
    /\ GlobalLimit \in Nat \ {0}
    /\ ProviderLimit \in Nat \ {0}
    /\ MaxAttempts \in Nat \ {0}

VARIABLES
    registry,        \* RUNNING_QUEUE_EXECUTIONS: the registered executions
    cancelRequested, \* those whose cancel_requested is set
    phase,           \* where execute_queue_work_order stands, per execution
    handles,         \* how many abort handles the execution registered
    outputs,         \* the outcomes joined so far, per execution
    task,            \* what each agent's future is doing, or its outcome
    polling,         \* agents whose future is being polled
    aborted,         \* agents whose abort handle was used
    attempts,        \* provider requests an agent has sent
    providerFree,    \* free permits of each provider's semaphore
    globalFree       \* free permits of the global semaphore

execVars == <<registry, cancelRequested, phase, handles, outputs>>
permits  == <<providerFree, globalFree>>
vars     == <<execVars, task, polling, aborted, attempts, permits>>

Phases   == {"idle", "registered", "spawning", "completing", "failing",
             "completed", "failed", "rejected"}
Over     == {"completed", "failed", "rejected"}
Outcomes == {"answered", "gaveUp", "cancelled", "panicked"}
Working  == {"queued", "admitted", "calling", "backoff"}
\* An admitted agent holds its provider's permit and waits for a global one.
HoldingProvider == {"admitted", "calling", "backoff"}
HoldingGlobal   == {"calling", "backoff"}

AgentsOf(e) == {<<e, i>> : i \in 1 .. AgentCount[e]}
HandlesOf(e) == {<<e, i>> : i \in 1 .. handles[e]}
AllSpawned(e) ==
    handles[e] = AgentCount[e] /\ task[<<e, handles[e]>>] # "unspawned"

Init ==
    /\ registry = {}
    /\ cancelRequested = {}
    /\ phase = [e \in Executions |-> "idle"]
    /\ handles = [e \in Executions |-> 0]
    /\ outputs = [e \in Executions |-> <<>>]
    /\ task = [a \in Agents |-> "unspawned"]
    /\ polling = {}
    /\ aborted = {}
    /\ attempts = [a \in Agents |-> 0]
    /\ providerFree = [p \in Providers |-> ProviderLimit]
    /\ globalFree = GlobalLimit

(***************************************************************************)
(* The execution.                                                          *)
(***************************************************************************)
OrderIsRunning_IdOnly(e) == e \in registry
OrderIsRunning(e) == \E other \in registry : OrderOf[other] = OrderOf[e]

\* acquire_queue_execution: look up and insert under one mutex.
Acquire(e) ==
    /\ phase[e] = "idle"
    /\ \/ /\ OrderIsRunning(e)
          /\ phase' = [phase EXCEPT ![e] = "rejected"]
          /\ UNCHANGED registry
       \/ /\ ~OrderIsRunning(e)
          /\ phase' = [phase EXCEPT ![e] = "registered"]
          /\ registry' = registry \union {e}
    /\ UNCHANGED <<cancelRequested, handles, outputs, task, polling, aborted,
                   attempts, permits>>

\* The guard of the registry is dropped: the record and its flag are gone.
Unregister(e) ==
    /\ registry' = registry \ {e}
    /\ cancelRequested' = cancelRequested \ {e}

\* begin_queue_work_order_execution and the checks before the first spawn:
\* begin may reject the run, and then nothing was published; a locked vault,
\* a missing agent or secret fails the run that has begun.
Begin(e) ==
    /\ phase[e] = "registered"
    /\ \/ /\ phase' = [phase EXCEPT ![e] = "rejected"]
          /\ Unregister(e)
       \/ /\ \E next \in {"spawning", "failing"} :
                 phase' = [phase EXCEPT ![e] = next]
          /\ UNCHANGED <<registry, cancelRequested>>
    /\ UNCHANGED <<handles, outputs, task, polling, aborted, attempts, permits>>

AbortedOnRegister_Late(e, a) == {}
AbortedOnRegister(e, a) == IF e \in cancelRequested THEN {a} ELSE {}

\* register_queue_execution_abort_handle, before the task is spawned.
RegisterAbortHandle(e) ==
    /\ phase[e] = "spawning"
    /\ handles[e] < AgentCount[e]
    /\ handles[e] > 0 => task[<<e, handles[e]>>] # "unspawned"
    /\ handles' = [handles EXCEPT ![e] = @ + 1]
    /\ aborted' = aborted \union AbortedOnRegister(e, <<e, handles[e] + 1>>)
    /\ UNCHANGED <<registry, cancelRequested, phase, outputs, task, polling,
                   attempts, permits>>

Spawn(e) ==
    /\ phase[e] = "spawning"
    /\ handles[e] > 0
    /\ task[<<e, handles[e]>>] = "unspawned"
    /\ task' = [task EXCEPT ![<<e, handles[e]>>] = "queued"]
    /\ UNCHANGED <<execVars, polling, aborted, attempts, permits>>

AbortedOnReturn_Nothing(e) == {}
\* Dropping LocalAbortHandles when the inner function returns.
AbortedOnReturn(e) == HandlesOf(e)

EndsTheRun_Panic(outcome) == outcome = "panicked"
EndsTheRun(outcome) == outcome \in {"cancelled", "panicked"}

\* handle.await for the next agent, in spawn order.  An agent that was
\* cancelled or panicked fails the run at once; one that gave up is reported.
Join(e) ==
    LET next == Len(outputs[e]) + 1
        outcome == task[<<e, next>>]
    IN  /\ phase[e] = "spawning"
        /\ AllSpawned(e)
        /\ outcome \in Outcomes
        /\ \/ /\ EndsTheRun(outcome)
              /\ phase' = [phase EXCEPT ![e] = "failing"]
              /\ aborted' = aborted \union AbortedOnReturn(e)
              /\ UNCHANGED outputs
           \/ /\ ~EndsTheRun(outcome)
              /\ outputs' = [outputs EXCEPT ![e] = Append(@, outcome)]
              /\ IF next = AgentCount[e]
                 THEN /\ phase' = [phase EXCEPT ![e] = "completing"]
                      /\ aborted' = aborted \union AbortedOnReturn(e)
                 ELSE UNCHANGED <<phase, aborted>>
        /\ UNCHANGED <<registry, cancelRequested, handles, task, polling,
                       attempts, permits>>

\* execution.complete or execution.fail, then the guard is dropped.  The
\* commit of a report may fail and leaves a failed run.
Conclude(e) ==
    /\ \/ /\ phase[e] = "completing"
          /\ \E last \in {"completed", "failed"} :
                 phase' = [phase EXCEPT ![e] = last]
       \/ /\ phase[e] = "failing"
          /\ phase' = [phase EXCEPT ![e] = "failed"]
    /\ Unregister(e)
    /\ UNCHANGED <<handles, outputs, task, polling, aborted, attempts, permits>>

AbortedOnCancel_Nothing(e) == {}
AbortedOnCancel(e) == HandlesOf(e)

\* cancel_queue_work_order_execution; an execution that is not registered
\* is answered work-order-not-running and nothing changes.
Cancel(e) ==
    /\ e \in registry
    /\ cancelRequested' = cancelRequested \union {e}
    /\ aborted' = aborted \union AbortedOnCancel(e)
    /\ UNCHANGED <<registry, phase, handles, outputs, task, polling, attempts,
                   permits>>

(***************************************************************************)
(* The agents.                                                             *)
(***************************************************************************)
ReturnPermits_ForgetAdmitted(a) ==
    /\ globalFree' = IF task[a] \in HoldingGlobal THEN globalFree + 1
                     ELSE globalFree
    /\ providerFree' = IF task[a] \in HoldingGlobal
                       THEN [providerFree EXCEPT ![ProviderOf[a]] = @ + 1]
                       ELSE providerFree

\* The permits are dropped with the future that holds them.
ReturnPermits(a) ==
    /\ globalFree' = IF task[a] \in HoldingGlobal THEN globalFree + 1
                     ELSE globalFree
    /\ providerFree' = IF task[a] \in HoldingProvider
                       THEN [providerFree EXCEPT ![ProviderOf[a]] = @ + 1]
                       ELSE providerFree

Stop(a, outcome) ==
    /\ task' = [task EXCEPT ![a] = outcome]
    /\ polling' = polling \ {a}
    /\ ReturnPermits(a)
    /\ UNCHANGED <<execVars, aborted, attempts>>

\* A poll begins: an aborted future is dropped instead of polled.
Poll(a) ==
    /\ task[a] \in Working
    /\ a \notin polling
    /\ \/ a \in aborted /\ Stop(a, "cancelled")
       \/ /\ a \notin aborted
          /\ polling' = polling \union {a}
          /\ UNCHANGED <<execVars, task, aborted, attempts, permits>>

\* The future has to wait and the poll ends.
Suspend(a) ==
    /\ a \in polling
    /\ \/ a \in aborted /\ Stop(a, "cancelled")
       \/ /\ a \notin aborted
          /\ polling' = polling \ {a}
          /\ UNCHANGED <<execVars, task, aborted, attempts, permits>>

\* The provider's semaphore first ...
TakeProviderPermit(a) ==
    /\ a \in polling
    /\ task[a] = "queued"
    /\ providerFree[ProviderOf[a]] > 0
    /\ providerFree' = [providerFree EXCEPT ![ProviderOf[a]] = @ - 1]
    /\ task' = [task EXCEPT ![a] = "admitted"]
    /\ UNCHANGED <<execVars, polling, aborted, attempts, globalFree>>

\* ... then the global one, and the first request is sent.
TakeGlobalPermit(a) ==
    /\ a \in polling
    /\ task[a] = "admitted"
    /\ globalFree > 0
    /\ globalFree' = globalFree - 1
    /\ task' = [task EXCEPT ![a] = "calling"]
    /\ attempts' = [attempts EXCEPT ![a] = 1]
    /\ UNCHANGED <<execVars, polling, aborted, providerFree>>

\* run_agent_prompt refuses before it sends anything: no secret, no model,
\* a prompt that is too long, a provider without an endpoint.
RefusePrompt(a) ==
    /\ a \in polling
    /\ task[a] = "admitted"
    /\ globalFree > 0
    /\ Stop(a, "gaveUp")

MayRetry(a) == attempts[a] < MaxAttempts

\* The provider answers, fails for good, or fails in a way worth a retry.
Answer(a) ==
    /\ a \in polling
    /\ task[a] = "calling"
    /\ \/ \E outcome \in {"answered", "gaveUp"} : Stop(a, outcome)
       \/ /\ MayRetry(a)
          /\ task' = [task EXCEPT ![a] = "backoff"]
          /\ UNCHANGED <<execVars, polling, aborted, attempts, permits>>

\* The delay is over: the same request again.
Retry(a) ==
    /\ a \in polling
    /\ task[a] = "backoff"
    /\ task' = [task EXCEPT ![a] = "calling"]
    /\ attempts' = [attempts EXCEPT ![a] = @ + 1]
    /\ UNCHANGED <<execVars, polling, aborted, permits>>

Panic(a) ==
    /\ a \in polling
    /\ Stop(a, "panicked")

EveryExecutionOver ==
    /\ \A e \in Executions : phase[e] \in Over
    /\ \A a \in Agents : task[a] \notin Working
    /\ UNCHANGED vars

\* What execute_queue_work_order does once it is registered.
Proceed(e) ==
    \/ Begin(e) \/ RegisterAbortHandle(e) \/ Spawn(e) \/ Join(e) \/ Conclude(e)
Advance(a) ==
    \/ TakeProviderPermit(a) \/ TakeGlobalPermit(a) \/ RefusePrompt(a)
    \/ Answer(a) \/ Retry(a)
AgentStep(a) == Poll(a) \/ Suspend(a) \/ Advance(a) \/ Panic(a)

Next ==
    \/ \E e \in Executions : Acquire(e) \/ Proceed(e) \/ Cancel(e)
    \/ \E a \in Agents : AgentStep(a)
    \/ EveryExecutionOver

Spec == Init /\ [][Next]_vars

\* The runtime drives every execution and polls every task again and again;
\* nothing is said of providers and permits, which may keep a task waiting.
RuntimeFairness ==
    /\ \A e \in Executions : WF_vars(Proceed(e))
    /\ \A a \in Agents : WF_vars(Poll(a) \/ Suspend(a))
RuntimeSpec == Spec /\ RuntimeFairness

\* Requests have a timeout of 120 s, delays are timers, and a permit that is
\* free is taken: a task that is polled again and again gets its turn.
ProvidersAnswer == \A a \in Agents : SF_vars(Advance(a))

(***************************************************************************)
(* Properties.                                                             *)
(***************************************************************************)
\* The type invariant: an execution never registers more handles or joins
\* more outcomes than it has agents, and no counter leaves its range.
TypeOK ==
    /\ registry \subseteq Executions
    /\ cancelRequested \subseteq registry
    /\ phase \in [Executions -> Phases]
    /\ handles \in [Executions -> Nat]
    /\ \A e \in Executions : handles[e] \leq AgentCount[e]
    /\ outputs \in [Executions -> Seq(Outcomes)]
    /\ \A e \in Executions : Len(outputs[e]) \leq AgentCount[e]
    /\ task \in [Agents -> {"unspawned"} \union Working \union Outcomes]
    /\ polling \subseteq Agents
    /\ aborted \subseteq Agents
    /\ attempts \in [Agents -> 0 .. MaxAttempts]
    /\ providerFree \in [Providers -> 0 .. ProviderLimit]
    /\ globalFree \in 0 .. GlobalLimit

\* The registry never holds two executions of one work order: the lookup by
\* work order and the insertion are one step (acquire_queue_execution).
OneExecutionPerOrder ==
    \A e, f \in registry : OrderOf[e] = OrderOf[f] => e = f

\* Whatever ends a task (an answer, a cancel while it waits between the two
\* semaphores, a panic), the permits it held come back, once each: the free
\* permits and the held ones always add up (QueueExecutionPermit).
PermitsAreConserved ==
    /\ globalFree + Cardinality({a \in Agents : task[a] \in HoldingGlobal})
         = GlobalLimit
    /\ \A p \in Providers :
         providerFree[p]
           + Cardinality({a \in Agents : /\ ProviderOf[a] = p
                                         /\ task[a] \in HoldingProvider})
           = ProviderLimit

\* Once a cancel is acknowledged, no agent of that execution works on with
\* an unused abort handle, those spawned after the cancel included
\* (register_queue_execution_abort_handle on a cancelled record).
CancelReachesEveryAgent ==
    \A e \in cancelRequested : HandlesOf(e) \subseteq aborted

\* An execution that has left its inner function leaves no agent running
\* on its own: whoever still works has been aborted (LocalAbortHandles).
NoOrphanAgents ==
    \A e \in Executions :
        phase[e] \in {"completing", "failing"} \union Over =>
            \A a \in AgentsOf(e) : task[a] \in Working => a \in aborted

\* A report is complete: the run of a completed execution has one entry for
\* every agent, in spawn order, the outcome that agent ended with, and none
\* of them was cancelled or lost.
ReportIsComplete ==
    \A e \in Executions :
        phase[e] \in {"completing", "completed"} =>
            /\ Len(outputs[e]) = AgentCount[e]
            /\ \A i \in 1 .. AgentCount[e] :
                   /\ outputs[e][i] = task[<<e, i>>]
                   /\ outputs[e][i] \in {"answered", "gaveUp"}

\* A cancel that comes while an agent is not even being polled, or is not
\* spawned yet, is honoured: the execution never completes.  (A cancel that
\* comes later may be acknowledged and the run completes all the same.)
CancelledInTime(e) ==
    /\ e \in cancelRequested
    /\ phase[e] \in {"registered", "spawning"}
    /\ \E a \in AgentsOf(e) :
          task[a] \in {"unspawned"} \union Working /\ a \notin polling
TimelyCancelIsHonoured ==
    \A e \in Executions :
        [](CancelledInTime(e) => [](phase[e] # "completed"))

\* Permits are no reason to wait for ever: every execution that was
\* requested ends and every agent stops, although agents wait for one semaphore while
\* they hold the other (QueueExecutionLimiter::acquire).
EverythingEnds == ProvidersAnswer =>
    /\ \A e \in Executions : (phase[e] # "idle") ~> (phase[e] \in Over)
    /\ \A a \in Agents : <>[](task[a] \notin Working)

\* A cancelled execution ends and its agents stop without the help of any
\* provider: tasks that wait for an answer, a timer or a permit are dropped.
CancelEndsTheRun ==
    \A e \in Executions :
        (e \in cancelRequested)
            ~> /\ phase[e] \in Over
               /\ \A a \in AgentsOf(e) : task[a] \notin Working
=============================================================================
