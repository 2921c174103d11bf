---------------------------- MODULE Supervision ----------------------------
(***************************************************************************)
(* Configured services and background jobs: the policy of                  *)
(* crates/runtime/troe-supervisor, the table of resident processes         *)
(* (kernel/src/resident.rs) and the shell that pumps the one and drives    *)
(* the other (kernel/src/supervision.rs, session.rs, shell.rs, kex.rs).    *)
(*                                                                         *)
(* The shell is one thread: at the prompt it pumps and drives in turn, a   *)
(* command comes between two rounds, and a command that waits for a job    *)
(* pumps without driving.  A launch becomes ready within the drive that    *)
(* admits it, so `Starting' and its deadline are never seen between steps; *)
(* a process that is asked to stop is torn down by the next pump, before   *)
(* the grace of its stop can run out.  Deadlines are the time that is left.*)
(***************************************************************************)
EXTENDS Integers, Sequences, SequencesExt, FiniteSets, FiniteSetsExt

CONSTANTS
    Services,   \* 1 .. n, in the order of the configuration
    Deps,       \* Services -> the services each one depends on, all before it
    OnFailure,  \* Services -> "Continue", "Restart" or "System"
    Limit,      \* Services -> restart_limit
    Lifetime,   \* Services -> lifetime limit, 0 for none
    Boot,       \* the services that start with the system
    Capacity,   \* RESIDENT_PROCESS_CAPACITY
    MaxDelay    \* MAX_RESTART_DELAY_MILLISECONDS, in seconds

Session == 0
NoTask == 0
Tasks == 1 .. Capacity + Cardinality(Services)

VARIABLES
    sup,     \* the records of the supervisor
    system,  \* pending_system_action
    jobs,    \* the resident jobs, in the order of admission
    shell    \* what the shell does next, and the job it waits for

supervisionVars == <<sup, system, jobs, shell>>

Live(job) == ~ job.done
OfService(js, s) == SelectSeq(js, LAMBDA job : job.owner = s)
Unused(z) == Min(Tasks \ ({z.jobs[i].task : i \in DOMAIN z.jobs} \cup {z.sup[s].task : s \in Services}))
IsReady(z, s) == z.sup[s].state = "Ready"
DependenciesReady(z, s) == \A d \in Deps[s] : IsReady(z, d)

-----------------------------------------------------------------------------
(* The policy, from state z = [sup, system, jobs, fatal] to state.         *)

RestartDelay(restarts) == IF 2 ^ (restarts - 1) > MaxDelay THEN MaxDelay ELSE 2 ^ (restarts - 1)

\* The state of a service without a process.
Becomes(z, s, state) ==
    [z EXCEPT !.sup[s].state = state, !.sup[s].left = 0, !.sup[s].task = NoTask, !.sup[s].after = "None"]

ApplyFailure(z, s) ==
    LET restarts == z.sup[s].restarts + 1 IN
    IF OnFailure[s] = "Restart" /\ restarts <= Limit[s]
    THEN [Becomes(z, s, "Backoff") EXCEPT !.sup[s].restarts = restarts,
                                          !.sup[s].left = RestartDelay(restarts)]
    ELSE [Becomes(z, s, "Failed") EXCEPT !.system = @ \/ OnFailure[s] = "System"]

\* The first half of drive, for one service: stopped if it was stopping, else exited.
Terminal(z, s) ==
    LET job == Head(OfService(z.jobs, s))
        y == [z EXCEPT !.jobs = Remove(@, job)]
    IN  IF OfService(z.jobs, s) = <<>> \/ Live(job) THEN z
        ELSE IF z.sup[s].state = "Stopping" /\ z.sup[s].after # "Failure" THEN Becomes(y, s, "Stopped")
        ELSE ApplyFailure(y, s)

\* Mutant: the process is not told.
StopForSilent(z, s, after) ==
    [z EXCEPT !.sup[s].state = "Stopping", !.sup[s].after = after, !.sup[s].left = 0]

\* Mutant: the service counts as stopped before its process has ended.
StopForAtOnce(z, s, after) ==
    LET cancel(job) == IF job.owner = s /\ Live(job) THEN [job EXCEPT !.cancel = TRUE] ELSE job IN
    [Becomes(z, s, "Stopped") EXCEPT !.jobs = [i \in DOMAIN @ |-> cancel(@[i])]]

\* begin_stop and the cancellation of the resident process.
StopFor(z, s, after) ==
    LET cancel(job) == IF job.owner = s /\ Live(job) THEN [job EXCEPT !.cancel = TRUE] ELSE job IN
    [z EXCEPT !.sup[s].state = "Stopping", !.sup[s].after = after, !.sup[s].left = 0,
              !.jobs = [i \in DOMAIN @ |-> cancel(@[i])]]

\* Launch, then launched and ready, or launch_failed; either needs the service to be up.
Launch(z, s, ok) ==
    LET task == Unused(z)
        admitted == [z EXCEPT !.jobs = Append(@, [owner |-> s, task |-> task, cancel |-> FALSE, done |-> FALSE])]
        y == IF ok /\ Len(z.jobs) < Capacity THEN admitted ELSE z
    IN  IF z.sup[s].desired = "Down" THEN [y EXCEPT !.sup[s].state = "Stopped", !.fatal = TRUE]
        ELSE IF y = z THEN ApplyFailure(z, s)
        ELSE [y EXCEPT !.sup[s].state = "Ready", !.sup[s].task = task, !.sup[s].left = Lifetime[s]]

\* Mutant: a dependency that is lost goes unnoticed.
WantsAlone(z, s) ==
    LET r == z.sup[s] IN
    CASE r.state = "Stopped" /\ r.desired = "Up" /\ DependenciesReady(z, s) -> "Launch"
      [] r.state = "Backoff" /\ r.left = 0 -> "Launch"
      [] r.state = "Ready" /\ r.desired = "Down" -> "Down"
      [] r.state = "Ready" /\ r.desired = "Up" /\ r.again -> "Restart"
      [] r.state = "Ready" /\ r.desired = "Up" /\ ~ r.again /\ Lifetime[s] > 0 /\ r.left = 0 -> "Failure"
      [] OTHER -> "Nothing"

\* What next_action finds to do for a service.
Wants(z, s) ==
    LET r == z.sup[s] IN
    CASE r.state = "Stopped" /\ r.desired = "Up" /\ DependenciesReady(z, s) -> "Launch"
      [] r.state = "Backoff" /\ r.left = 0 -> "Launch"
      [] r.state = "Ready" /\ r.desired = "Down" -> "Down"
      [] r.state = "Ready" /\ r.desired = "Up" /\ r.again -> "Restart"
      [] r.state = "Ready" /\ r.desired = "Up" /\ ~ r.again /\ ~ DependenciesReady(z, s) -> "Dependency"
      [] r.state = "Ready" /\ r.desired = "Up" /\ ~ r.again /\ DependenciesReady(z, s)
             /\ Lifetime[s] > 0 /\ r.left = 0 -> "Failure"
      [] OTHER -> "Nothing"

\* The second half of drive: n more actions of the first service that wants one.
RECURSIVE Act(_, _, _)
Act(z, ok, n) ==
    LET wanting == {s \in Services : Wants(z, s) # "Nothing"}
        s == Min(wanting)
    IN  IF n = 0 \/ z.fatal THEN z
        ELSE IF z.system THEN [z EXCEPT !.system = FALSE, !.fatal = TRUE]
        ELSE IF wanting = {} THEN z
        ELSE IF Wants(z, s) = "Launch" THEN Act(Launch(z, s, s \in ok), ok, n - 1)
        ELSE Act(StopFor([z EXCEPT !.sup[s].again = IF Wants(z, s) = "Restart" THEN FALSE ELSE @],
                         s, Wants(z, s)), ok, n - 1)

RECURSIVE Terminals(_, _)
Terminals(z, left) ==
    IF left = {} THEN z ELSE Terminals(Terminal(z, Min(left)), left \ {Min(left)})

-----------------------------------------------------------------------------
(* The shell.  Its state is [at, waits]: at "Boot" it drives before the    *)
(* first pump ("Settle"); from the prompt, or after a command, it pumps    *)
(* and then drives.                                                        *)

At(places) == shell.at \in places
Goto(place) == shell' = [at |-> place, waits |-> NoTask]
SessionJobs == {i \in DOMAIN jobs : jobs[i].owner = Session}

\* pump_processes: the cancelled processes end, and those that exit or fault.
Pumped(js, ending) ==
    [i \in DOMAIN js |-> IF js[i].cancel \/ i \in ending THEN [js[i] EXCEPT !.done = TRUE] ELSE js[i]]

Cancelled(js, i) == IF Live(js[i]) THEN [js EXCEPT ![i].cancel = TRUE] ELSE js

Pump(ending) ==
    /\ At({"Settle", "Prompt", "Command"})
    /\ jobs' = Pumped(jobs, ending)
    /\ Goto(IF At({"Settle"}) THEN "Prompt" ELSE "Drive")
    /\ UNCHANGED <<sup, system>>

\* drive: every service that ended, then at most one action more than there are services.
Drive(ok) ==
    LET z == Act(Terminals([sup |-> sup, system |-> system, jobs |-> jobs, fatal |-> FALSE], Services),
                 ok, Cardinality(Services) + 1)
    IN  /\ At({"Boot", "Drive"})
        /\ sup' = z.sup /\ system' = z.system /\ jobs' = z.jobs
        /\ Goto(IF z.fatal THEN "Fatal" ELSE IF At({"Boot"}) THEN "Settle" ELSE "Prompt")

\* svc start
RequestStart(s) ==
    /\ At({"Prompt"}) /\ Goto("Command")
    /\ sup' = [sup EXCEPT ![s] = [@ EXCEPT !.desired = "Up", !.again = FALSE,
                                  !.state = IF @ = "Failed" THEN "Stopped" ELSE @,
                                  !.restarts = IF sup[s].state = "Failed" THEN 0 ELSE @]]
    /\ UNCHANGED <<system, jobs>>

\* svc stop
RequestStop(s) ==
    /\ At({"Prompt"}) /\ Goto("Command")
    /\ sup' = [sup EXCEPT ![s].desired = "Down", ![s].again = FALSE]
    /\ UNCHANGED <<system, jobs>>

\* svc restart
RequestRestart(s) ==
    LET idle == sup[s].state \in {"Stopped", "Failed"} IN
    /\ At({"Prompt"}) /\ Goto("Command")
    /\ sup' = [sup EXCEPT ![s].desired = "Up", ![s].again = ~ idle,
                          ![s].state = IF idle THEN "Stopped" ELSE @]
    /\ UNCHANGED <<system, jobs>>

\* A command that goes to the background.
Background ==
    /\ At({"Prompt"}) /\ Goto("Command")
    /\ Len(jobs) < Capacity
    /\ jobs' = Append(jobs, [owner |-> Session, task |-> Unused([sup |-> sup, jobs |-> jobs]),
                             cancel |-> FALSE, done |-> FALSE])
    /\ UNCHANGED <<sup, system>>

Kill(i, ending) ==
    /\ At({"Prompt"}) /\ Goto("Command")
    /\ jobs' = Pumped(Cancelled(jobs, i), ending)
    /\ UNCHANGED <<sup, system>>

\* wait, fg: the shell stays until the job is over, and takes it off the table.
Wait(i) ==
    /\ At({"Prompt"})
    /\ shell' = [at |-> "Wait", waits |-> jobs[i].task]
    /\ UNCHANGED <<sup, system, jobs>>

WaitPump(i, interrupted, ending) ==
    /\ At({"Wait"}) /\ jobs[i].task = shell.waits /\ Live(jobs[i])
    /\ jobs' = Pumped(IF interrupted THEN Cancelled(jobs, i) ELSE jobs, ending)
    /\ UNCHANGED <<sup, system, shell>>

WaitDone(i) ==
    /\ At({"Wait"}) /\ jobs[i].task = shell.waits /\ ~ Live(jobs[i])
    /\ jobs' = Remove(jobs, jobs[i])
    /\ Goto("Command")
    /\ UNCHANGED <<sup, system>>

Second ==
    /\ ~ At({"Fatal"})
    /\ \E s \in Services : sup[s].left > 0
    /\ sup' = [s \in Services |-> [sup[s] EXCEPT !.left = IF @ > 0 THEN @ - 1 ELSE 0]]
    /\ UNCHANGED <<system, jobs, shell>>

-----------------------------------------------------------------------------
SupervisionInit ==
    /\ sup = [s \in Services |-> [desired |-> IF s \in Boot THEN "Up" ELSE "Down", state |-> "Stopped",
                                  left |-> 0, restarts |-> 0, again |-> FALSE, after |-> "None",
                                  task |-> NoTask]]
    /\ system = FALSE /\ jobs = <<>> /\ shell = [at |-> "Boot", waits |-> NoTask]

Ending == SUBSET {i \in DOMAIN jobs : Live(jobs[i])}

SupervisionNext ==
    \/ \E ending \in Ending : Pump(ending)
    \/ \E ok \in SUBSET Services : Drive(ok)
    \/ \E s \in Services : RequestStart(s) \/ RequestStop(s) \/ RequestRestart(s)
    \/ Background \/ Second
    \/ \E i \in SessionJobs : Wait(i) \/ WaitDone(i)
    \/ \E i \in SessionJobs, ending \in Ending : Kill(i, ending)
    \/ \E i \in SessionJobs, interrupted \in BOOLEAN, ending \in Ending : WaitPump(i, interrupted, ending)

SupervisionSpec == SupervisionInit /\ [][SupervisionNext]_supervisionVars

Places == {"Boot", "Settle", "Prompt", "Command", "Drive", "Wait", "Fatal"}
Moves == ~ At({"Wait"}) /\ shell' \in [at : Places, waits : Tasks \cup {NoTask}]

\* The shell goes on from wherever it is not made to wait, and so does the clock.
Fairness ==
    /\ WF_shell(~ At({"Fatal"}) /\ Moves)
    /\ WF_supervisionVars(\E i \in SessionJobs : WaitDone(i))
    /\ WF_supervisionVars(Second)

FairSupervisionSpec == SupervisionSpec /\ Fairness

-----------------------------------------------------------------------------
\* A service that the supervisor holds to be running or stopping has exactly
\* one resident process, under the same task, and no other service has any.
\* The process is cancelled just when the service is stopping.
ProcessesExact ==
    shell.at # "Fatal" => \A s \in Services :
        LET own == OfService(jobs, s) IN
        IF sup[s].state \notin {"Ready", "Stopping"} THEN own = <<>>
        ELSE /\ Len(own) = 1 /\ own[1].task = sup[s].task
             /\ Live(own[1]) => own[1].cancel = (sup[s].state = "Stopping")

\* A service does not keep running when what it depends on does not.
DependentsFollow ==
    \A s \in Services : \A d \in Deps[s] : (sup[s].state = "Ready" /\ sup[d].state # "Ready") ~>
        sup[s].state # "Ready" \/ sup[d].state = "Ready" \/ At({"Fatal", "Wait"})

\* A service is launched only when it is wanted and all it depends on is ready.
LaunchEligible ==
    [][\A s \in Services : OfService(jobs', s) # <<>> /\ OfService(jobs, s) = <<>> =>
           sup'[s].desired = "Up" /\ \A d \in Deps[s] : sup'[d].state = "Ready"]_supervisionVars

\* A service that is to be down ends up without a process, unless it is wanted
\* again, the system fails or the shell stays with a job.
DownStops ==
    \A s \in Services : sup[s].desired = "Down" ~>
        OfService(jobs, s) = <<>> \/ sup[s].desired = "Up" \/ At({"Fatal", "Wait"})
=============================================================================
