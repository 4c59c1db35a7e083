--------------------------- MODULE InstanceAdmin ---------------------------
(***************************************************************************)
(* POST /instances/add and /instances/remove with Proxy.add_instance and   *)
(* Proxy.drain_and_remove_instance.  Both change the set of instances      *)
(* under one asyncio lock, which a removal keeps while it waits for the    *)
(* requests of the instance to finish; an addition validates the instance  *)
(* before it asks for the lock.                                            *)
(* The address lists of Proxy, of the policy and of discovery change in    *)
(* the same step as the registry and hold the same addresses.              *)
(***************************************************************************)
EXTENDS HealthMonitor

CONSTANTS Admin,    \* admin requests that may be in flight at once
          NoTask,   \* the lock is free
          NoTarget  \* an idle admin request names no address

ASSUME AdminAssumption == NoTask \notin Admin /\ NoTarget \notin Addr

VARIABLES lock,   \* the admin request that holds _instance_mutation_lock
          task    \* the state of each admin request

adminVars == <<lock, task>>

\* idle        no request
\* validating  add: awaiting the answers of the instance
\* adding      add: validated, waiting for the lock
\* removing    remove: waiting for the lock
\* draining    remove: holds the lock, waits for active requests
Op == {"idle", "validating", "adding", "removing", "draining"}
Task == [op : Op, addr : Addr \cup {NoTarget}, role : Role \cup {"none"}]
IdleTask == [op |-> "idle", addr |-> NoTarget, role |-> "none"]

AdminTypeOK == /\ lock \in Admin \cup {NoTask}
               /\ task \in [Admin -> Task]

AdminInit == /\ lock = NoTask
             /\ task = [t \in Admin |-> IdleTask]

\* Request t gets its answer.
Answered(t) == task' = [task EXCEPT ![t] = IdleTask]
-----------------------------------------------------------------------------
\* add_instance_endpoint, up to the first await of add_instance.
RequestAdd(t, a, rl) ==
    /\ task[t].op = "idle"
    /\ task' = [task EXCEPT ![t] = [op |-> "validating", addr |-> a, role |-> rl]]
    /\ UNCHANGED <<registryVars, monitorVars, lock>>

\* _validated_instance_details returns.
Validated(t) ==
    /\ task[t].op = "validating"
    /\ \/ task' = [task EXCEPT ![t].op = "adding"]
       \/ Answered(t)
    /\ UNCHANGED <<registryVars, monitorVars, lock>>

\* Faulty: what was checked before the lock is not checked again.
AddLockedUnchecked(t) ==
    /\ task[t].op = "adding"
    /\ lock = NoTask
    /\ Answered(t)
    /\ Add(task[t].addr, task[t].role)
    /\ nodes' = IF MonitorEnabled THEN nodes \cup {task[t].addr} ELSE nodes
    /\ UNCHANGED <<probing, lock>>

\* add_instance gets the lock and runs to its end without another await.
AddLocked(t) ==
    /\ task[t].op = "adding"
    /\ lock = NoTask
    /\ Answered(t)
    /\ IF task[t].addr \in Registered
         THEN UNCHANGED <<registryVars, nodes>>
         ELSE /\ Add(task[t].addr, task[t].role)
              /\ nodes' = IF MonitorEnabled THEN nodes \cup {task[t].addr} ELSE nodes
    /\ UNCHANGED <<probing, lock>>

\* remove_instance_endpoint, up to the lock.
RequestRemove(t, a, rl) ==
    /\ task[t].op = "idle"
    /\ task' = [task EXCEPT ![t] = [op |-> "removing", addr |-> a, role |-> rl]]
    /\ UNCHANGED <<registryVars, monitorVars, lock>>

\* Faulty: the health monitor is not told.
RemoveUnmonitored(t) ==
    /\ Remove(task[t].addr)
    /\ Answered(t)
    /\ lock' = NoTask
    /\ UNCHANGED monitorVars

\* The tail of drain_and_remove_instance: the instance leaves every component.
RemoveEverywhere(t) ==
    /\ Remove(task[t].addr)
    /\ nodes' = nodes \ {task[t].addr}
    /\ Answered(t)
    /\ lock' = NoTask
    /\ UNCHANGED probing

\* The lock is granted, but the address is unknown (404) or has another role
\* than the request says (400).
RemoveRefused(t) ==
    /\ task[t].op = "removing"
    /\ lock = NoTask
    /\ role[task[t].addr] # task[t].role
    /\ Answered(t)
    /\ UNCHANGED <<registryVars, monitorVars, lock>>

\* The lock is granted and the instance is idle: it is gone in the same step.
RemoveIdle(t) ==
    /\ task[t].op = "removing"
    /\ lock = NoTask
    /\ role[task[t].addr] = task[t].role
    /\ active[task[t].addr] = 0
    /\ RemoveEverywhere(t)

\* The lock is granted and requests are active: begin_draining, then wait.
StartDrain(t) ==
    /\ task[t].op = "removing"
    /\ lock = NoTask
    /\ role[task[t].addr] = task[t].role
    /\ active[task[t].addr] > 0
    /\ BeginDraining(task[t].addr)
    /\ task' = [task EXCEPT ![t].op = "draining"]
    /\ lock' = t
    /\ UNCHANGED monitorVars

\* The waiting loop wakes up and finds no active request.
DrainDone(t) ==
    /\ task[t].op = "draining"
    /\ active[task[t].addr] = 0
    /\ RemoveEverywhere(t)

\* Faulty: at the deadline the instance is removed all the same.
DrainTimeoutRemoves(t) ==
    /\ task[t].op = "draining"
    /\ active[task[t].addr] > 0
    /\ RemoveEverywhere(t)

\* Faulty: the lock is not released on the error path.
DrainTimeoutKeepsLock(t) ==
    /\ task[t].op = "draining"
    /\ active[task[t].addr] > 0
    /\ Answered(t)
    /\ UNCHANGED <<registryVars, monitorVars, lock>>

\* The waiting loop wakes up past the deadline with requests still active:
\* 504, and the instance stays draining.
DrainTimeout(t) ==
    /\ task[t].op = "draining"
    /\ active[task[t].addr] > 0
    /\ Answered(t)
    /\ lock' = NoTask
    /\ UNCHANGED <<registryVars, monitorVars>>
=============================================================================
