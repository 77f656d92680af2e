------------------------------ MODULE TaskPool ------------------------------
(***************************************************************************)
(* What fml::ConcurrentTaskRunner and PostTaskToAllWorkers promise: a task *)
(* that is accepted is run at most once, by a worker; a task for all       *)
(* workers is run at most once by each, in the order of the posts; a pool  *)
(* that does not accept a task any more leaves it to its caller, and only  *)
(* a pool that is closed forgets what it has accepted.                     *)
(***************************************************************************)
EXTENDS Sequences

CONSTANTS
    Threads,    \* every thread
    Workers,    \* the threads of the pool
    Closures,   \* the tasks for any worker
    ForAll      \* the tasks for all workers

VARIABLES
    accepted,   \* tasks that some worker has yet to start
    own,        \* own[w]: the tasks for all workers that w has yet to start
    posted,     \* the tasks that have been posted
    ran,        \* <<k, t>>: task k has run on thread t
    closed      \* the pool is shut down

pool == <<accepted, own, posted, ran, closed>>

TaskPoolInit ==
    /\ accepted = {}
    /\ own = [w \in Workers |-> <<>>]
    /\ posted = {}
    /\ ran = {}
    /\ closed = FALSE

Accept(k) ==
    /\ k \notin posted
    /\ accepted' = accepted \cup {k}
    /\ posted' = posted \cup {k}
    /\ UNCHANGED <<own, ran, closed>>

AcceptForAll(k) ==
    /\ k \notin posted
    /\ own' = [w \in Workers |-> Append(own[w], k)]
    /\ posted' = posted \cup {k}
    /\ UNCHANGED <<accepted, ran, closed>>

RunAccepted(k, w) ==
    /\ k \in accepted
    /\ accepted' = accepted \ {k}
    /\ ran' = ran \cup {<<k, w>>}
    /\ UNCHANGED <<own, posted, closed>>

RunOwn(w) ==
    /\ own[w] # <<>>
    /\ ran' = ran \cup {<<Head(own[w]), w>>}
    /\ own' = [own EXCEPT ![w] = Tail(own[w])]
    /\ UNCHANGED <<accepted, posted, closed>>

RunOnCaller(k, t) ==
    /\ closed
    /\ k \notin posted
    /\ posted' = posted \cup {k}
    /\ ran' = ran \cup {<<k, t>>}
    /\ UNCHANGED <<accepted, own, closed>>

Close == closed' = TRUE /\ UNCHANGED <<accepted, own, posted, ran>>

Forget ==
    /\ closed
    /\ accepted' = {}
    /\ own' = [w \in Workers |-> <<>>]
    /\ UNCHANGED <<posted, ran, closed>>

TaskPoolNext ==
    \/ \E k \in Closures : Accept(k)
    \/ \E k \in ForAll : AcceptForAll(k)
    \/ \E k \in Closures, w \in Workers : RunAccepted(k, w)
    \/ \E w \in Workers : RunOwn(w)
    \/ \E k \in Closures, t \in Threads : RunOnCaller(k, t)
    \/ Close
    \/ Forget

TaskPoolSpec == TaskPoolInit /\ [][TaskPoolNext]_pool
=============================================================================
