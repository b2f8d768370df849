------------------------------ MODULE AsyncJobs ------------------------------
(***************************************************************************)
(* Asynchronous jobs of one thread (crypto/async/async.c, async_wait.c).   *)
(* A client, such as a connection with SSL_MODE_ASYNC, runs a function as  *)
(* a job with ASYNC_start_job; the function may pause, which returns to    *)
(* the application, and is resumed by another ASYNC_start_job with the job *)
(* handle.  Jobs come from a pool with a limit.  Each client has one       *)
(* ASYNC_WAIT_CTX, on which the function registers descriptors to wait     *)
(* for, and the application learns of the changes after every pause.       *)
(*                                                                         *)
(* A job has a stack of its own: "stack" is the call of the function that  *)
(* is suspended or running on it, Top when the fibre is at the head of the *)
(* loop in async_start_func.  A call is named by its client and the        *)
(* parity of the client's calls, and that is also what it returns.         *)
(*                                                                         *)
(* The application starts a job only outside of one, as every caller in    *)
(* ssl/ssl_lib.c does (ASYNC_get_current_job() == NULL), and resumes it in *)
(* the thread that started it, as ASYNC_start_job(3) demands.  It calls    *)
(* ASYNC_init_thread before the pool is first used or not at all: the code *)
(* does not check it.  Swapping fibres does not fail (async_posix.h).      *)
(*                                                                         *)
(* The pool keeps its jobs in a stack, whose storage is allocated for      *)
(* init_size jobs when the pool is made, and grows when a job is returned  *)
(* to a stack that is full.  When that fails the job is in the pool no     *)
(* more, and nothing refers to it: it is lost.                             *)
(***************************************************************************)
EXTENDS Integers, Sequences, FiniteSets, SequencesExt, FiniteSetsExt

CONSTANTS Clients, Jobs, Keys, LibCtxs, Top, NoJob, NoClient,
          MaxSizes,      \* what ASYNC_init_thread is given; 0: no limit
          MinNodes,      \* min_nodes, the least storage of a stack
          MaxBlocked     \* bound on the nesting of ASYNC_block_pause

ASSUME AsyncJobsAssumption ==
    /\ MaxSizes \subseteq Nat /\ MaxBlocked \in Nat /\ MinNodes \in Nat \ {0, 1}
    /\ NoJob \notin Jobs /\ NoClient \notin Clients /\ IsFiniteSet(Jobs)

Calls == Clients \X {0, 1}

VARIABLES
    job,           \* ASYNC_JOB, by place in memory; status "none" is not allocated
    pool,          \* async_pool of the thread: jobs, curr_size, max_size; ready: is there
    room,          \* storage of the stack pool->jobs, in jobs (num_alloc)
    reserve,       \* that storage when the pool was made
    lost,          \* jobs the present pool made or had, and lost
    leaked,        \* jobs lost by pools that have been freed since
    currjob,       \* ctx->currjob
    blocked,       \* ctx->blocked
    caller,        \* whose call of ASYNC_start_job is running, or NoClient
    libctx,        \* the default library context of the caller (local variable)
    handle,        \* the *job of each client
    round,         \* parity of the calls of each client
    answer,        \* what ASYNC_FINISH returned to each client, or Top
    default,       \* the thread's default library context
    fds,           \* the fd_lookup_st of each ASYNC_WAIT_CTX, no two of them equal
    num,           \* its numadd and numdel
    watched,       \* what each client waits for
    appctx,        \* the default context the application chose
    jobctx         \* the one each client's function chose

vars == <<job, pool, room, reserve, lost, leaked, currjob, blocked, caller, libctx, handle, round, answer, default,
          fds, num, watched, appctx, jobctx>>

waits == <<fds, num, watched>>
storage == <<room, reserve, lost, leaked>>

Unallocated == [status |-> "none", funcargs |-> Top, stack |-> Top,
                waitctx |-> NoClient, libctx |-> Top]

Init ==
    /\ job = [j \in Jobs |-> Unallocated]
    /\ pool = [ready |-> FALSE, jobs |-> <<>>, curr_size |-> 0, max_size |-> 0]
    /\ room = 0 /\ reserve = 0 /\ lost = {} /\ leaked = {}
    /\ currjob = NoJob /\ caller = NoClient /\ blocked = 0
    /\ default \in LibCtxs /\ appctx = default /\ libctx = default
    /\ handle = [c \in Clients |-> NoJob]
    /\ round = [c \in Clients |-> 0]
    /\ answer = [c \in Clients |-> Top]
    /\ fds = [c \in Clients |-> {}]
    /\ num = [c \in Clients |-> [add |-> 0, del |-> 0]]
    /\ watched = [c \in Clients |-> {}]
    /\ jobctx = [c \in Clients |-> default]

-----------------------------------------------------------------------------
(* The pool.                                                               *)

Allocated == {j \in Jobs : job[j].status # "none"}
async_job_new == [Unallocated EXCEPT !.status = "RUNNING"]

(* The storage of a new stack, and of one that has to grow (sk_reserve).   *)
Reserved(n) == IF 0 < n /\ n < MinNodes THEN MinNodes ELSE n
Grown == IF room = 0 THEN MinNodes ELSE (room * 8) \div 5

(* ASYNC_init_thread(max_size, init_size); fewer jobs when memory is short. *)
ASYNC_init_thread(max_size, init_size) ==
    /\ ~pool.ready /\ init_size <= max_size
    /\ \E new \in SUBSET (Jobs \ Allocated) : \E jobs \in SetToSeqs(new) :
          /\ Cardinality(new) <= init_size
          /\ job' = [j \in Jobs |-> IF j \in new THEN async_job_new ELSE job[j]]
          /\ pool' = [ready |-> TRUE, jobs |-> jobs,
                      curr_size |-> Cardinality(new), max_size |-> max_size]
    /\ reserve' = Reserved(init_size) /\ room' = reserve'
    /\ UNCHANGED <<lost, leaked, currjob, blocked, caller, libctx, handle, round, answer, default,
                   waits, appctx, jobctx>>

(* Mutant: the jobs stay in the pool that is emptied.                      *)
async_peek_pool == [pool EXCEPT !.ready = FALSE, !.curr_size = 0, !.max_size = 0]
async_empty_pool == [ready |-> FALSE, jobs |-> <<>>, curr_size |-> 0, max_size |-> 0]

(* ASYNC_cleanup_thread, with no job outstanding.  The context goes too;   *)
(* the memory of a lost job stays.                                         *)
ASYNC_cleanup_thread ==
    /\ pool.ready /\ currjob = NoJob /\ \A c \in Clients : handle[c] = NoJob
    /\ job' = [j \in Jobs |-> IF j \in ToSet(pool.jobs) THEN Unallocated ELSE job[j]]
    /\ pool' = async_empty_pool
    /\ room' = 0 /\ reserve' = 0 /\ lost' = {} /\ leaked' = leaked \cup lost
    /\ blocked' = 0
    /\ UNCHANGED <<currjob, caller, libctx, handle, round, answer, default,
                   waits, appctx, jobctx>>

(* async_get_pool_job hands out the job on top of the pool, or a new one   *)
(* as long as the pool may grow.                                           *)
(* Mutant: the limit is off by one.                                        *)
MayGrowLate == pool.max_size = 0 \/ pool.curr_size <= pool.max_size
MayGrow == pool.max_size = 0 \/ pool.curr_size < pool.max_size

async_get_pool_job(j) ==
    \/ pool.jobs # <<>> /\ j = Last(pool.jobs)
    \/ pool.jobs = <<>> /\ MayGrow /\ j \notin Allocated

PoolWithout ==
    [pool EXCEPT !.ready = TRUE,
                 !.jobs = IF @ = <<>> THEN @ ELSE Front(@),
                 !.curr_size = @ + IF pool.jobs = <<>> THEN 1 ELSE 0]

(* async_release_job puts a job on top of pool p.  A stack that is full has *)
(* to grow, and when there is no memory for that the job is in no pool.    *)
Full(p) == Len(p.jobs) >= room

async_release_job(p, j) ==
    \/ /\ pool' = [p EXCEPT !.jobs = Append(@, j)]
       /\ room' = IF Full(p) THEN Grown ELSE room
       /\ lost' = lost
    \/ /\ Full(p)
       /\ pool' = p /\ room' = room
       /\ lost' = lost \cup {j}

-----------------------------------------------------------------------------
(* ASYNC_start_job with *job = NULL: the function starts on the job's      *)
(* fibre, that is, the fibre goes on where it was left.                    *)
Swapped(call) == IF call.stack = Top THEN [call EXCEPT !.stack = call.funcargs] ELSE call

StartJob(c) ==
    /\ currjob = NoJob /\ handle[c] = NoJob
    /\ \E j \in Jobs :
          /\ async_get_pool_job(j)
          /\ LET r   == 1 - round[c]
                 old == IF j \in Allocated THEN job[j] ELSE async_job_new
             IN  /\ job' = [job EXCEPT ![j] = Swapped([old EXCEPT !.funcargs = <<c, r>>,
                                                                  !.waitctx = c])]
                 /\ round' = [round EXCEPT ![c] = r]
          /\ pool' = PoolWithout
          /\ currjob' = j /\ caller' = c
    /\ libctx' = default
    /\ jobctx' = [jobctx EXCEPT ![c] = default]
    /\ answer' = [answer EXCEPT ![c] = Top]
    /\ UNCHANGED <<storage, blocked, handle, default, waits, appctx>>

(* The copy of the arguments cannot be allocated: ASYNC_ERR.               *)
StartJobNoMemory(c) ==
    /\ currjob = NoJob /\ handle[c] = NoJob
    /\ \E j \in Jobs :
          /\ async_get_pool_job(j)
          /\ job' = IF j \in Allocated THEN [job EXCEPT ![j].funcargs = Top]
                    ELSE [job EXCEPT ![j] = async_job_new]
          /\ async_release_job(PoolWithout, j)
    /\ UNCHANGED <<reserve, leaked, currjob, blocked, caller, libctx, handle, round, answer, default,
                   waits, appctx, jobctx>>

(***************************************************************************)
(* ASYNC_start_job with the handle of a paused job.  The default context   *)
(* becomes the job's; the function returns from ASYNC_pause_job, which     *)
(* resets what the ASYNC_WAIT_CTX reports as changed.                      *)
(***************************************************************************)
(* Mutant: what was added is reported as added again.                      *)
ResetKeepsAdded(entries) == {e \in entries : ~e.del}
async_wait_ctx_reset_counts(entries) ==
    {[e EXCEPT !.add = FALSE] : e \in {x \in entries : ~x.del}}

(* Mutant: the job goes on in the caller's default context.                *)
DefaultOfCaller(j) == default
DefaultOnResume(j) == job[j].libctx

ResumeJob(c) ==
    LET j == handle[c]
        w == job[j].waitctx
    IN  /\ currjob = NoJob /\ j # NoJob /\ job[j].status = "PAUSED"
        /\ currjob' = j /\ caller' = c
        /\ libctx' = default
        /\ default' = DefaultOnResume(j)
        /\ fds' = [fds EXCEPT ![w] = async_wait_ctx_reset_counts(@)]
        /\ num' = [num EXCEPT ![w] = [add |-> 0, del |-> 0]]
        /\ UNCHANGED <<job, pool, storage, blocked, handle, round, answer, watched, appctx, jobctx>>

-----------------------------------------------------------------------------
(* What the function does while it runs as a job.                          *)
Running == currjob # NoJob
Client == job[currjob].stack[1]

ASYNC_block_pause ==
    /\ Running /\ blocked < MaxBlocked
    /\ blocked' = blocked + 1
    /\ UNCHANGED <<job, pool, storage, currjob, caller, libctx, handle, round, answer, default,
                   waits, appctx, jobctx>>

ASYNC_unblock_pause ==
    /\ Running /\ blocked > 0
    /\ blocked' = blocked - 1
    /\ UNCHANGED <<job, pool, storage, currjob, caller, libctx, handle, round, answer, default,
                   waits, appctx, jobctx>>

JobSetsDefault(l) ==
    /\ Running /\ default' = l
    /\ jobctx' = [jobctx EXCEPT ![Client] = l]
    /\ UNCHANGED <<job, pool, storage, currjob, blocked, caller, libctx, handle, round, answer,
                   waits, appctx>>

(* ASYNC_WAIT_CTX_set_wait_fd, after ASYNC_WAIT_CTX_get_fd found none.     *)
Live(w) == {e.key : e \in {x \in fds[w] : ~x.del}}

ASYNC_WAIT_CTX_set_wait_fd(k) ==
    LET w == job[currjob].waitctx
    IN  /\ Running /\ k \notin Live(w)
        /\ fds' = [fds EXCEPT ![w] = @ \cup {[key |-> k, add |-> TRUE, del |-> FALSE]}]
        /\ num' = [num EXCEPT ![w].add = @ + 1]
        /\ UNCHANGED <<job, pool, storage, currjob, blocked, caller, libctx, handle, round, answer,
                       default, watched, appctx, jobctx>>

(* One that was just added disappears, another one is marked.              *)
ASYNC_WAIT_CTX_clear_fd(k) ==
    LET w == job[currjob].waitctx
        e == CHOOSE x \in fds[w] : x.key = k /\ ~x.del
    IN  /\ Running /\ k \in Live(w)
        /\ IF e.add
           THEN /\ fds' = [fds EXCEPT ![w] = @ \ {e}]
                /\ num' = [num EXCEPT ![w].add = @ - 1]
           ELSE /\ fds' = [fds EXCEPT ![w] = (@ \ {e}) \cup {[e EXCEPT !.del = TRUE]}]
                /\ num' = [num EXCEPT ![w].del = @ + 1]
        /\ UNCHANGED <<job, pool, storage, currjob, blocked, caller, libctx, handle, round, answer,
                       default, watched, appctx, jobctx>>

(***************************************************************************)
(* ASYNC_pause_job, and the rest of ASYNC_start_job in the application:    *)
(* PAUSING, the default context of the caller again and the job's kept,    *)
(* PAUSED, ASYNC_PAUSE.  The client then asks for the changed descriptors. *)
(* Nothing happens while pausing is blocked.                               *)
(***************************************************************************)
Added(w) == {e \in fds[w] : e.add /\ ~e.del}
Deleted(w) == {e \in fds[w] : e.del /\ ~e.add}
AddFds(w) == {e.key : e \in Added(w)}
DelFds(w) == {e.key : e \in Deleted(w)}

ASYNC_pause_job(c) ==
    LET j == currjob
    IN  /\ Running /\ c = caller /\ blocked = 0
        /\ job' = [job EXCEPT ![j].status = "PAUSED", ![j].libctx = default]
        /\ default' = libctx
        /\ handle' = [handle EXCEPT ![c] = j]
        /\ currjob' = NoJob /\ caller' = NoClient
        /\ watched' = [watched EXCEPT ![c] = (@ \ DelFds(c)) \cup AddFds(c)]
        /\ UNCHANGED <<pool, storage, blocked, libctx, round, answer, fds, num, appctx, jobctx>>

(* The function returns: STOPPING, then ASYNC_FINISH and the job released. *)
FinishJob(c) ==
    LET j == currjob
    IN  /\ Running /\ c = caller
        /\ job' = [job EXCEPT ![j].status = "STOPPING", ![j].stack = Top,
                              ![j].libctx = default, ![j].waitctx = NoClient,
                              ![j].funcargs = Top]
        /\ default' = libctx
        /\ answer' = [answer EXCEPT ![c] = job[j].stack]
        /\ async_release_job(pool, j)
        /\ currjob' = NoJob /\ caller' = NoClient
        /\ handle' = [handle EXCEPT ![c] = NoJob]
        /\ UNCHANGED <<reserve, leaked, blocked, libctx, round, waits, appctx, jobctx>>

(* The application chooses another default context between two calls.      *)
AppSetsDefault(l) ==
    /\ ~Running /\ default' = l /\ appctx' = l
    /\ UNCHANGED <<job, pool, storage, currjob, blocked, caller, libctx, handle, round, answer,
                   waits, jobctx>>

Next ==
    \/ \E m \in MaxSizes : \E i \in 0..m : ASYNC_init_thread(m, i)
    \/ ASYNC_cleanup_thread
    \/ \E c \in Clients : StartJob(c)
    \/ \E c \in Clients : StartJobNoMemory(c)
    \/ \E c \in Clients : ResumeJob(c)
    \/ ASYNC_block_pause
    \/ ASYNC_unblock_pause
    \/ \E l \in LibCtxs : JobSetsDefault(l)
    \/ \E k \in Keys : ASYNC_WAIT_CTX_set_wait_fd(k)
    \/ \E k \in Keys : ASYNC_WAIT_CTX_clear_fd(k)
    \/ \E c \in Clients : ASYNC_pause_job(c)
    \/ \E c \in Clients : FinishJob(c)
    \/ \E l \in LibCtxs : AppSetsDefault(l)

Spec == Init /\ [][Next]_vars

-----------------------------------------------------------------------------
(* Types.                                                                  *)
TypeOK ==
    /\ job \in [Jobs -> [status : {"none", "RUNNING", "PAUSED", "STOPPING"},
                         funcargs : Calls \cup {Top}, stack : Calls \cup {Top},
                         waitctx : Clients \cup {NoClient},
                         libctx : LibCtxs \cup {Top}]]
    /\ pool.jobs \in Seq(Allocated) /\ pool.curr_size \in 0..Cardinality(Jobs)
    /\ room \in Nat /\ reserve \in Nat
    /\ lost \subseteq Allocated /\ leaked \subseteq Allocated
    /\ currjob \in Allocated \cup {NoJob} /\ caller \in Clients \cup {NoClient}
    /\ blocked \in 0..MaxBlocked
    /\ handle \in [Clients -> Allocated \cup {NoJob}]
    /\ answer \in [Clients -> Calls \cup {Top}]
    /\ {default, libctx, appctx} \subseteq LibCtxs /\ jobctx \in [Clients -> LibCtxs]
    /\ \A c \in Clients :
          /\ fds[c] \subseteq [key : Keys, add : BOOLEAN, del : BOOLEAN]
          /\ num[c] \in [add : Nat, del : Nat]
          /\ watched[c] \subseteq Keys

(* Every job that was allocated and could be put back is in one place, the *)
(* pool, the handle of one client or the running call, and a lost one in   *)
(* none.  The pool counts the jobs it made, the ones it lost too, and      *)
(* there are never more than the limit: no job is shared or made in        *)
(* excess, whatever is paused or runs out of memory in between.  A pool    *)
(* whose stack had storage for as many jobs as its limit allows from the   *)
(* start, as after ASYNC_init_thread(n, n), loses none.                    *)
Places(j) ==
    Cardinality({n \in DOMAIN pool.jobs : pool.jobs[n] = j})
    + Cardinality({c \in Clients : handle[c] = j /\ c # caller})
    + IF currjob = j THEN 1 ELSE 0

JobsAccounted ==
    /\ \A j \in Jobs : Places(j) = IF j \in Allocated \ (lost \cup leaked) THEN 1 ELSE 0
    /\ pool.curr_size = Cardinality(Allocated \ leaked)
    /\ pool.max_size > 0 => pool.curr_size <= pool.max_size
    /\ lost # {} => pool.max_size = 0 \/ reserve < pool.max_size

(* Jobs do not disturb one another or the application: the function that   *)
(* runs is the one of the call that is being served, in the default        *)
(* library context it chose last; the application always finds the one     *)
(* it chose itself; and a call is answered by the return value of its own  *)
(* function, run on its own arguments.                                     *)
Isolated ==
    /\ IF Running
       THEN /\ job[currjob].stack = <<caller, round[caller]>>
            /\ job[currjob].waitctx = caller
            /\ default = jobctx[caller]
       ELSE default = appctx
    /\ \A c \in Clients : answer[c] \in {Top, <<c, round[c]>>}

(* A client that applies the changes ASYNC_WAIT_CTX_get_changed_fds gives  *)
(* it after each pause waits for exactly the descriptors its function has  *)
(* registered, and the numbers it is told, by which it sizes its arrays,   *)
(* are the numbers it is given.  A descriptor that may be marked as        *)
(* deleted has not been marked before: the entries differ from each other. *)
FdsTracked ==
    \A c \in Clients :
        /\ c # caller /\ handle[c] # NoJob => watched[c] = Live(c)
        /\ num[c].add = Cardinality(Added(c)) /\ num[c].del = Cardinality(Deleted(c))
        /\ \A e \in fds[c] : ~e.add /\ ~e.del => [e EXCEPT !.del = TRUE] \notin fds[c]
=============================================================================
