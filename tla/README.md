# A TLA+ verification of quictls

quictls is OpenSSL with the QUIC interface of BoringSSL: `libssl` runs the TLS
1.3 handshake, a QUIC stack outside the library carries the handshake bytes and
protects the packets. This directory holds TLA+ models of the parts of the
library whose correctness depends on the order of events, the TLC
configurations that check them on small instances, and TLAPS proofs of the
central invariants for every size.

## 1. Inventory

| Component | State it keeps | Operations | What is hard | What makes it correct |
|---|---|---|---|---|
| QUIC input path (`ssl/ssl_quic.c`, `ssl/statem/statem_quic.c`) | list of whole messages, fragment buffer `quic_buf`, read level, latest level | `SSL_provide_quic_data`, `quic_get_message`, change of level, `SSL_clear` | arbitrary cuts of the byte stream, level changes with a fragment pending, allocation failure half-way | messages whole, once, in order; nothing lost or kept twice |
| TLS 1.3 handshake over QUIC (`ssl/statem/*.c`, `ssl/tls13_enc.c`) | message-flow state, handshake state, levels, secrets, transcript, early-data state, ticket counters | one per handshake message and sub-state, the application's calls | two endpoints and a transport interleave; callbacks fail and are retried; early data, HelloRetryRequest, PSK and client certificates combine | both sides agree; no error without a cause; secrets precede use; the handshake ends |
| RCU lock (`crypto/threads_pthread.c`) | ring of quiescent points, reader index, IDs, callback list, three mutexes, two condition variables | read lock and unlock (nested), write lock, assign, `ossl_rcu_call`, `ossl_synchronize_rcu` | lock-free readers against writers, ring and ID wrap-around, wakeups, memory order | nothing in use is freed; somebody always gets through; no callback is lost |
| TLS 1.2 handshakes | the same state machine | other transition tables | renegotiation, tickets, false start | agreement |
| DTLS reliability (`statem_dtls.c`, `d1_lib.c`, `pqueue.c`, `rec_layer_d1.c`) | reassembly queues, sent flight, timer, two epochs, replay window | fragment in, message out, timeout, retransmission | loss, duplication, reordering, timer against answer | each message once and in order; completion under fair loss |
| TLS record layer (`ssl/record`) | sequence numbers, replay windows, records of the next epoch | read, write, key change | DTLS: repetition, reordering, forgery, epochs; unused by QUIC | each record handed up at most once |
| Session cache (`ssl_sess.c`) | hash table, list ordered by time, reference counts | add, get, remove, flush | threads, limit, eviction, callbacks outside the lock | counts match references; the limit holds |
| ASYNC jobs (`crypto/async`) | pool, current job, wait descriptors | start, pause, resume | a job spans calls; pool limit; memory that runs out when a job is returned | every job is in one place and counted; calls do not mix |
| BIO pair (`bss_bio.c`) | two ring buffers | read, write, zero-copy variants, shutdown | wrap-around, request sizes | implements a bounded byte queue |
| Error queue (`err.c`) | ring of 16 entries with marks | put, get, set mark, pop to mark | overflow under a mark | behaves as a stack |
| Secure heap (`mem_sec.c`) | bit tables, free lists | allocate, free | buddies | no overlap, coalescing |
| Provider activation (`provider_core.c`) | counts, flags | activate, deactivate, free, child callbacks | lock order, threads | active iff counted |
| Initialisation and thread stop (`init.c`, `initthread.c`) | run-once flags, handler lists | init, stop, cleanup | order, threads that end late | each handler once |
| DRBG chain (`providers/implementations/rands/drbg.c`) | reseed counters, state | generate, reseed | fork, propagation | a child never outlives its parent's reseed |
| Thread pool (`crypto/thread`) | count of active threads | start, join | limit | limit holds |
| Configuration modules (`conf_mod.c`) | list under the RCU lock | add, find, unload | pointers kept after the lock | - |
| Primitives, providers, ASN.1, X.509, CMS, CMP, engines, tools | - | - | sequential, data-heavy | out of scope (section 8) |

Interactions: the application calls `SSL_do_handshake` and
`SSL_process_quic_post_handshake`; the state machine calls back into the QUIC
stack through `SSL_QUIC_METHOD` (`add_handshake_data`, `flush_flight`,
`set_encryption_secrets`); the QUIC stack calls `SSL_provide_quic_data`. An SSL
object is used by one thread at a time, so concurrency is between the two
endpoints and the network. The RCU lock is the opposite: one shared object,
many threads, no callbacks.

`PROJECT.json` lists every component, and under `hazards` each place where the
code is hard to test with the properties that watch it.

## 2. Modules

| Module | Models |
|---|---|
| `QuicLevels` | encryption levels and the header length |
| `QuicMessageStream` | abstract: whole messages per level, delivered once and in order |
| `QuicInput` | the input path, byte by byte |
| `QuicInput_proofs` | the proofs about it |
| `QuicEndpoint` | the TLS 1.3 state machine of one SSL object, as operators on its fields |
| `QuicHandshake` | a client, a server, their applications, QUIC stacks and the network |
| `QuicHandshake_proofs` | the proofs about one endpoint, whatever it is sent |
| `QuicScript_proofs` | the proofs about both endpoints and what is between them |
| `RcuLock` | the RCU lock with readers and writers |
| `RcuLock_proofs` | the proofs about it |
| `DtlsHandshake` | two DTLS 1.2 endpoints, their timers and the network between them |
| `DatagramOnce` | abstract: datagrams in any order, each at most once |
| `DtlsRecords` | the DTLS record layers of one direction: replay window, epochs, early records |
| `Dtls_proofs` | the proofs about both DTLS modules, and the refinement of `DatagramOnce` |
| `BytePipe` | abstract: two bounded queues of bytes |
| `BioPair` | the BIO pair with its ring buffers |
| `BioPair_proofs` | the proofs about it, and the refinement of `BytePipe` |
| `SessionCache` | the session cache of an `SSL_CTX`, shared by threads |
| `SessionCache_proofs` | the proofs about it |
| `AsyncJobs` | the ASYNC jobs of one thread and what they wait for |
| `AsyncJobs_proofs` | the proofs about them |
| `MC...` | instances for TLC |

Operators marked *Mutant* are plausible slips in the definition that follows
them; each breaks the property that `PROJECT.json` pairs it with.

The two DTLS modules share the work: `DtlsRecords` shows that a record is handed
up at most once and that early ones are kept, and `DtlsHandshake`, whose network
therefore never repeats a record, shows what the handshake makes of the rest.

### QuicInput

A byte is its level and its offset in that level's stream, so any loss,
repetition, reordering or misattribution shows. `BodyLen` says what length a
header at an offset would be read as. `SSL_provide_quic_data` is one call made
of a step per loop iteration (`pc = "split"`): the checks and the copy behind
the fragment, one `SplitMessage` per full message, and `SaveRest`. Each
allocation has its failing twin (`ProvideGrowFails`, `SplitAllocFails`,
`SaveAllocFails`). `in_buf` records that the code's `data` points into
`quic_buf`; then saving the rest only moves bytes and cannot fail. A caller
whose call failed for want of memory makes no other: it cannot know how much
was taken. `received` and `delivered` are history variables.

### QuicEndpoint and QuicHandshake

`ssl[p]` has the fields of `SSL_CONNECTION` the control flow depends on, under
their names (`hand_state`, `read_state`, `write_state`, `in_init`,
`early_data_state`, `quic_read_level`, ...). The two transition tables, pre-work,
construction, post-work and processing are one operator each, in the states of
TLS 1.3 over QUIC. `state_machine` runs as steps of an open call (`call`), one
per message or sub-state; between calls the QUIC stack may hand over a message.
Data is abstract: a message is its type and the facts the peer acts on (a PSK
or early data offered, a retry, an empty certificate), a Finished carries the
transcript it authenticates, the transcript is the sequence of messages hashed.

`config` is chosen at the start and stands for both applications' settings.
Failures are explicit: `add_handshake_data` and `flush_flight` fail, callbacks
are not ready, any step can end in `SSLfatal`, and `StrayMessage` lets a peer
send a message too many. Each takes one of `MaxFaults`. The transport keeps
order within a level and delivers levels in any order, as soon as the receiver
has the secrets; `config.defer` says whether a stack sends only at
`flush_flight`.

### RcuLock

There is a step per atomic operation: a reader loads the index, counts itself
in, checks again, and takes itself back if the index moved; a writer takes the
callbacks, allocates a quiescent point, publishes the next index, spins, waits
for its turn, retires the point and runs the callbacks. What a mutex protects
is one step. `pthread_cond_wait` may wake without cause, `pthread_cond_signal`
wakes one waiter, and a woken thread tests again. `users` is the pair of count
and ID packed in one word; the count is compared modulo `ReaderMod`, the IDs
wrap at `IdMod`. The users of the lock are those of `conf_mod.c` and
`test/threadstest.c`: replace under the write lock, then free after
synchronizing, or leave the free to a callback (`Deferring`).

The steps are taken in the order of the program, see section 9.

### DtlsHandshake

`conn[p]` is one endpoint: `SSL_CONNECTION` and `DTLS1_STATE` as far as they
decide the course of the handshake. A message is its type; a record carries one
fragment of it, cut to the MTU by `dtls1_do_write`. The transition tables are
those of DTLS 1.2 with RSA-like key exchange, full and abbreviated
(`mode.hit`), with HelloVerifyRequest and tickets. A flight is written message
by message (`Write`); each message is kept in `sent` under the record layer it
was sent in (`wrls`), hashed and, if the timer is in use, starts it: a client's
from `ClientUsesTimer`, a server's from `ServerUsesTimer`. `sent` and
the records of the next epoch are priority queues (`pqueue_insert`, which refuses
a priority it has). Reading
takes one record: the epoch check, `dtls_buffer_record`, reassembly with the
bitmask of `RSMBLY_BITMASK_MARK` and `..._IS_COMPLETE`, out-of-sequence
messages, and the processing of the message that is complete. `bytes` is a
history variable: the bytes really copied, against which the bitmask is
checked. Time is the time left on each timer; `Tick` lets the smallest run out.

Every departure from an orderly network (a loss, an overtaking, a timer that
runs out while records are under way) costs one of `MaxFaults`, so that runs are
finite; after the budget is used the network is orderly and completion can be
asked for. One application record in each direction shows what happens to data
that overtakes the end of the handshake.

### DtlsRecords

A record is an epoch, a number and whether it is what was sent. `Incoming` is
all that was ever sent, at any time and any number of times, and anything else
that does not verify. `satsub64be`, the check and the update of the bitmap are
translated literally, over sets of bit numbers. A datagram has several records;
`left` is how many of the current one are still to be read, and what they are is
chosen when they are read. The old record layer pushes to the new one
(`dtls_free`) what is left of the datagram and then its `unprocessed_rcds`; the
new one reads them in that order, and before the transport. A record kept early
can therefore be overtaken: when the ChangeCipherSpec shares its datagram with a
record of the new epoch that is a window or more ahead, the kept one is stale when
its turn comes. `overtook` names the records handed up ahead of what was kept, and
`EarlyKept` states the exception by them and allows no other. A record that is put
in the queue takes the buffer with it, and with it the rest of the datagram, so
`left` is 0 then. With encrypt-then-MAC a damaged record is fatal (`alert`), as
`dtls_process_record` has it.

### BioPair

`bio[s]` has the members of `struct bio_bio_st`. `Write` and `Read` are
`bio_write` and `bio_read` with their one or two iterations over the ring,
`NWrite` and `NRead` the non-copying ones. `moved` records the bytes of the last
call. `Content` maps a ring to a sequence; the refinement maps both buffers to
the queues of `BytePipe`, where a write takes at least one byte and perhaps not
all, and a read gives some: order and content are what it promises, not that a
call moves as much as it could.

### SessionCache

A session is a place in memory that is free when its count is 0, so that reuse
shows. What the code does under the context's lock is one step; what it does
before or after is another: the reference taken before the lock, references
dropped after it, the owner read without it. The references a call has taken and
not given back are a stack (`local`), as `SSL_CTX_flush_sessions` and an eviction
give several back. Two allocations can fail: the one of the hash table's node
(`TableFails`) and the one of the stack of removed sessions (`StackFails`).
`SSL_SESSION_set_timeout` is only
called on a session no other connection has. `crashed` records that a NULL owner
was followed. `CacheAgrees` says of the limit what the code keeps and the
documentation promises alike, that there are never more sessions than it allows.
That one is dropped only when the limit would be exceeded is not so, see
section 9.

### AsyncJobs

One thread, as jobs, pools and the current job are thread-local. A job's stack
is the call suspended on it. The pool is an `OPENSSL_STACK`: `room` is its storage,
which is nothing for a pool made on first use and grows by 8/5 when a job is
returned to a full stack. When that allocation fails `async_release_job` does not
notice: the job joins `lost`, or `leaked` once its pool is freed, and the pool goes
on counting it. The application calls `ASYNC_init_thread` before it uses the pool
or not at all; the code does not check that, and a second pool would take the
place of the first. The list of a wait context is the set of its
entries, a key with the marks of `fd_lookup_st`: no operation depends on their
order. `FdsTracked` follows a client that asks
`ASYNC_WAIT_CTX_get_changed_fds` after each pause.

## 3. Runs

| Run | Kind | Shows |
|---|---|---|
| `quic_input` | pass | order, completeness, fragment, levels, refinement of `QuicMessageStream`, the inductive invariant |
| `quic_handshake` | pass | every course of the handshake, with and without early data, one failure, one ticket request: agreement, no error but by a failure of that side or over a message too many, secrets before use, nothing refused, no flight held back but by a client with early data; the handshake completes, tickets arrive |
| `quic_early_flush` | violation | a client with early data waits for its peer with an unflushed ClientHello |
| `quic_error_state` | violation | a failed post-handshake message leaves an object that is not in init |
| `rcu_lock` | pass | no use after free, the inductive invariant, somebody always gets through |
| `rcu_callbacks` | violation | a callback can be lost |
| `dtls_handshake` | pass | no failure but by the limit on timeouts, no data or record layer lost, whole messages, completion on both sides for good |
| `dtls_records` | pass | exact window, early records kept unless overtaken, refinement of `DatagramOnce` |
| `bio_pair` | pass | the comments of the structure hold, two calls are enough, refinement of `BytePipe` |
| `session_cache` | pass | exact references, table and list agree, exact flush |
| `session_add_oom` | violation | a session that could not be inserted is on the list |
| `async_jobs` | pass | jobs accounted for when memory runs out too, calls isolated, descriptors tracked |

What the violations show is set out in `PROJECT.json` under `findings`, with
the lines of code and documentation that disagree.

### Bounds

* `quic_input`: streams of 11 bytes with the message boundaries chosen so that
  a call can end in a header, in a body and on a boundary, carry two messages,
  and leave a rest that was or was not in the buffer; one message of the early
  data level has an empty body. The theorems have no bound.
* `quic_handshake`: one connection, one failure (so a callback that fails, and
  the retry of it, at every step; not two failures that meet), 0 to 2 tickets.
  The configurations (`Courses`) are four groups. Over stacks that send at once
  there is every course, and those in which early data comes to nothing for each
  of the reasons. Over stacks that wait for `flush_flight` there is every course
  without early data, with a ticket the application asks for, and those with early
  data. `Completes` leaves the last group out: such a client does not get on,
  which is the finding of `quic_early_flush`. Left out are products of settings
  that do not meet, such as a certificate request after a HelloRetryRequest with
  two tickets, or a refused PSK without early data. The theorems have every configuration. Deadlock is not checked: the
  conversation ends. `ErrorsOnlyFromFaults`
  excuses a step into the error state by what that step is and by what that side
  was sent, not by a fault spent somewhere: a callback that failed, and whose step
  was repeated, excuses no later error.
* `rcu_lock`: one reader that nests, two writers, one and two writer slots
  (rings of two and three points) so that a writer waits for a point and two
  overlap, three objects so that two can wait to be freed while one is in use,
  IDs modulo 3 so that they wrap often. The proof covers any number of readers.
* `dtls_handshake`: three faults; an MTU of 12 and after two timeouts of 7, so
  that messages of 7, 13 and 19 bytes take one to three fragments, cut at
  different places when they are sent again, and within and across bytes of the
  bitmask; `TmoAlertCount` is 3, so that three faults may not exhaust it in one
  flight but would if the count were not reset. The theorems have no bound.
* `dtls_records`: a window of 2 bits and four numbers, so that records are new,
  in the window, at its edge and behind it; a queue of two, two epochs, two records
  in a datagram, so that one comes with the ChangeCipherSpec. The theorems have no
  bound.
* `bio_pair`: rings of two and three bytes, calls of up to three, two byte
  values; one direction is written. The theorems have no bound.
* `session_cache`: two threads, three sessions and three ids that may clash,
  limits of none, one and three, two times. With three sessions one can be
  evicted while the second replaces the third. The hash table has its memory in
  `session_cache` and may be without in `session_add_oom`, the run that shows what then goes wrong. The theorems have no bound.
* `async_jobs`: two clients, two jobs, two descriptors, two library contexts,
  the pool of the first use, without a limit, and pools of one job, whose stack has
  storage for at least 4 or for none, so that the first job returned may be lost.
  That a stack grows again is left to the theorem. Calls are told apart modulo 2.
  The theorems have no other bound than that.

Symmetry is used in the runs without temporal properties and in
`session_cache`, whose one action property is symmetric. Deadlock is checked
where the system goes on for ever (`quic_input`, `rcu_lock`, `async_jobs`).

### Fairness

* `QuicHandshake!Fairness`: an open call runs on, the application calls again
  when it was told to and the QUIC stack delivers what was sent (QUIC repeats
  lost CRYPTO frames). No fault is fair. The application also calls again when
  a call returned with handed-over data unread, which an endpoint that stopped
  for early data does (`ssl_lib.c`, end of `SSL_do_handshake`).
* `RcuLock!Fairness`: a thread goes on with what it has begun, a reader gives
  its last hold up in the end (strong fairness, as it may nest again and again
  meanwhile), nobody has to begin. Mutexes and condition variables are not
  assumed fair among waiters, so only global progress is claimed.
* `DtlsHandshake!Fairness`: time passes, an endpoint writes its flight and reads
  what has come, `DTLSv1_handle_timeout` runs when a timer is out, and the
  oldest record arrives unless it is lost. After its handshake an endpoint's
  application goes on reading: the side that finishes last has no timer, and
  its peer depends on the answer to a repeated Finished.

## 4. What is proved

`QuicInput_proofs`, from `ConstantsAssumption` (an offset bound and natural
body lengths): `InductiveInvariant` strengthens the properties with
`PendingIsTheRest` (what is not yet in a message is the rest of the latest
level's stream, during a call as well as between calls) and `WithinReceived`
(nothing lies beyond what came in, so a new level starts at offset 0). The
order of messages alone is not inductive: that the next split starts where the
last ended is known only from the pending bytes. `SplitPreserves` is the heart;
lemmas on runs of bytes (`BytesConcat`, `BytesCut`) carry it. From it follow
`InputTypeOK`, `InputMessagesInOrder`, `InputNoMessageCrossesLevels`,
`InputFragmentIsTheRest`, `InputNoCompleteMessageHeld` (with the exception of
section 9 and no other), and `InputImplementsMessageStream`, with each step mapped to
`Receive`, `Deliver`, `Reset` or a stutter.

`RcuLock_proofs`, from `RcuAssumption`: finitely many threads, fewer readers
than the count mask can hold, at most as many quiescent points as there are
IDs, any objects. That nothing in use is freed (`NoUseAfterFree`) says nothing
about why a writer may free, so the invariant `RcuInvariant` adds the argument
in six parts:

* `Exclusion`: one writer between assigning and unlocking, one between
  `update_qp`'s allocation and the new `reader_idx`;
* `Ring`: the points given out and not yet retired in order are the last ones
  before `current_alloc_idx`, their IDs the last ones before `id_ctr`. It makes
  `next_to_retire = wid` mean "the oldest", across both wrap-arounds;
* `Index`: where readers are sent while a writer is in the middle of
  `update_qp` and otherwise;
* `Holders`: the count is the number of readers counted, a reader with a hold
  is at the current point or an outstanding one, never at one whose writer has
  seen the count at zero;
* `Ownership`: each replaced object is in one place (a writer's own, the queue,
  the list a writer took, or the rest not yet linked), so it is freed once;
* `Grace`: a reader that has an object which a writer will free, once that
  writer has moved the readers on, is counted at that writer's point or an
  older one. The older ones are why the turn is needed: without `Ring` the
  induction fails at `RetireInOrder`.

There is a lemma per action or group of like actions (`QuietReaderStep`,
`CountingReaderStep`, `MovingWriterStep`, `AssignStep` ... `RetireStep`), on top
of frame lemmas that say what a step leaves alone and four facts about
distances on a ring. The theorems are `RcuInvariantHolds` and
`RcuNoUseAfterFree`. They are about the interleaving of atomic operations in
program order.

`Dtls_proofs`, on the record layers, from `WindowAssumption` (a window of at least
one bit, and a saturation bound not below it) and `RecordsBoundAssumption`.
`WindowExact` speaks of what the check answers; what makes it true is how the bits
came about, so the invariant `RecordsInv` is

* `RecordsTypeOK`, and `OnceInv`: nothing was handed up twice, and nothing of a later
  epoch was handed up;
* `WindowInv`: `max` is the highest number handed up, bit `i` stands for number
  `max - i`, and no number was handed up that is higher. Saturation matters
  here: beyond the window only the sign of the difference may count, which
  holds because the bound is not below the window (64 and 128 in the code);
* `QueueInv` and `PrevInv`: numbers in `unprocessed_rcds` and in what was pushed
  are distinct, sound ones were sent, and everything pushed lies ahead of everything
  handed up, as it is read in order, but for what came in the datagram of the
  ChangeCipherSpec (`overtook`). That is why a record kept early cannot fall out of
  the new window, however far apart the kept ones are, unless one of those moved it;
* `EarlyInv`: `EarlyKept` by epoch and number.

Each action has its lemma (`WriteRecordStep` ... `NewReadLayerStep`); the arithmetic of
the window is in lemmas of its own. From `RecordsInvariance` follow
`RecordsTypeCorrect`, `WindowIsExact`, `EarlyIsKept` and `Refinement`: a step that hands up a record is
`DatagramOnce!Deliver`, a written record `Send`, everything else a stutter.

`BioPair_proofs`, from `SidesAssumption`, `SizesAssumption`, `ByteAssumption` and
`NoBufAssumption` (two sides, any sizes from 1, what is not a byte and what is
not a buffer are neither). The invariant says of each BIO that it is `Good`: it
has the members of its struct (`Struct`), the comments of the struct hold
(`Kept`), and what there is to read has been written (`Content(b) \in
Seq(Bytes)`): without the last a read could hand out what was in the memory
before. The lemmas first describe a ring without its record: `Queue` reads `l`
places from an offset, modulo the size, and `Filled` writes; filling behind the
queue appends to it, advancing the offset takes its tail, wherever either wraps.
The one or two iterations of `bio_write` and `bio_read` are then two such steps.
From `Invariance` follow `StructCommentsHold`, `TwoCallsSuffice` and
`PipeRefinement`: each call is a step of `BytePipe` or a stutter.

`AsyncJobs_proofs`, from `AsyncJobsAssumption` (finitely many jobs, any limits).
`IInv` is

* `Types`, and `Placed`: what is in the pool, in the handle of a client or current
  is in no two of these and nowhere twice, and a held job has the stack, the wait
  context and the library context of its client's call;
* `Located`: the jobs that are in one of these places are exactly the allocated
  ones that were not lost;
* `Stored`: the stack never has less storage than it was made with, and has lost a
  job only if that was less than the limit: a full stack that has to grow holds as
  many jobs as it has storage, and one more is counted, so the limit is larger;
* `Counted`: `curr_size` is the number of allocated jobs of this pool, the lost
  ones too, within the limit. `JobsAccounted` counts them by their places, which
  needs that these are disjoint;
* `Serving`: the job that runs serves the call that is open, with its library
  context, and the application has its own context back when none runs;
* `Waits`: no entry of a wait context is marked both added and deleted, a key is
  there once unmarked or added and may be there deleted only beside an added one,
  and the changes lead from what the client waits for to what its function has
  registered. `FdsTracked` compares the two after a pause only; what the marks
  mean while the function runs makes it inductive.

The theorems are `TypeCorrect`, `EveryJobAccounted`, `JobsIsolated` and
`DescriptorsTracked`.

`SessionCache_proofs`, from `SessionCacheAssumption` (finitely many sessions and
threads, any limits and times), under the hypothesis `~TableFails`: with it
the finding of `session_add_oom` breaks the agreement of table and list, and
what is proved is all that holds up to there. `StackFails` is free. `IInv` is

* `TypeOK` (no session is on the list twice) and `Calls`: in every step of a
  call, what it still holds, at most one more reference than there are sessions;
* `RefsExact`: the count of a session is 1 for the cache, 1 for each connection
  and one for each place on the stack of a call. The lemmas are about the
  cardinality of these sets when one reference moves from one holder to another;
* `Listed`: the sessions of the table are those of the list, each under its id,
  and the list is ordered by the time a session runs out. The order is what `SSL_CTX_flush_sessions` relies on when it stops at the
  first session that has not timed out;
* `Bounded`: the limit.

The theorems are `TypeCorrect`, `RefsAreExact`, `CacheAgreement` and the action
property `FlushIsExact`.

`Dtls_proofs`, on the handshake, from `ModesAssumption`, `LengthAssumption` and
`BoundAssumption`: messages of any lengths, any MTU, any limits, and any number
of faults. That no handshake fails is a statement about both ends and what is
between them. The argument is that a handshake has a script. Its mode fixes which
message either side sends under which number, in which epoch and over which
transcript (`NumberOf`, `Sends`, `FinMac`). The invariant says

* of every record on the wire, sent message, buffered record and message in
  reassembly that it is what its sender's script says for its number
  (`IsMessage`), however old it is and however often it was sent
  (`ChannelsInv`, and the sets in `Conns`);
* of every endpoint (`Position`) that its state fixes the number it reads and
  the one it writes next, the epochs, the flight it has still to write and what
  it has hashed;
* `Finisheds`: a Finished is put together in the new epoch only;
* `Layers`: which write record layers there are, by the ChangeCipherSpec among
  the sent messages that each hangs on;
* `Counts`: an endpoint that has not failed has had no more timeouts than are
  allowed.

So a message that has the awaited number is the one the transition table takes, and
its Finished is over the same transcript. `MarkExact` and `CompleteExact` carry
the bitmask: marking a fragment adds exactly its bytes, and the test for
completeness looks at every bit. A retransmission joins the records of all sent
messages with `FlattenSeq` of the community modules, which is a recursive function;
what is needed of it is proved from a least counterexample. The theorems are
`TypeCorrect`, `FailsOnlyByTimeout`, `LayersAreKept` and `ReassemblyIsExact`.

`QuicHandshake_proofs`, from `ConfigAssumption` and `BoundsAssumption`: any set of
configurations and any number of failed callbacks. This module is about the
properties that an endpoint has whatever its peer sends; what arrives is
only known to be some message. `IInv` is, for each of the two ends,

* `ClientControl` and `ServerControl`: which combinations of the flow state, the
  read or write sub-state and the handshake state can be, inside a call and
  between calls. Most of the argument is here: a call may be left in the middle
  of a message, for want of input or because a callback failed, and is taken up
  where it was left;
* `ClientKeys` and `ServerKeys`: in each of these places, the level that is read,
  the level that is written and the secrets that are installed;
* `ClientHolds` and `ServerHolds`: the places in which a part of the flight may
  not be flushed yet. None of them is one where an application is told to wait
  for its peer, except the client's after a ClientHello with early data. That is
  what `Flushed` says: only such a client holds anything back (`quic_early_flush`
  shows that it does);
* `Told`: `rwstate`, `in_init` and `done` against where the state machine is;
* `Data`: types, and that every level in use has its secret;

and, between them, `EarlyFrom` and `Wires`: what the server knows of early data it
has from the client, which has the secret, or will before its call is over
(`Known`). Nothing else relates the ends here. Each action has a lemma for each side,
which `ClientMoves` and `ServerMoves` put together; `Off` says which fields an
operator of `QuicEndpoint` leaves alone. The theorems are `TypeCorrect`, the
action property `NeverBack`, `SecretsFirst`, `AckKeys` and `Flushed`. The attempt
showed that two arms of the `CASE` in `PostProcessClientHello` overlapped, which
TLC does not notice: it takes the first. They exclude each other now.

`QuicScript_proofs` extends it and compares the ends: `NoSpuriousErrors`, `Agrees` and
`NothingRefused`. None of the three properties is inductive. That a message is
expected where it is read depends on which messages are on their way, that is on
where the sender was when it sent them, and so on what the sender had read. The
invariant is a *script*. The configuration decides whether the session is
resumed, a certificate asked for and early data accepted, hence the messages of the
handshake; they are numbered from 1 to 12 in the order in which they enter the
transcripts of both ends, and `MessageOf`, `LevelOf` and `After` give for each
number the message, its level and the transcript with it. `SInv` then says

* of each end (`Side`): from its place in the state machine follows the number it
  is at (`ClientPos`, `ServerPos`), and its transcript, what it made of the
  messages so far (`hit`, `hello_retry_request`, `cert_req`, `early_data`), the
  message it is about to send, its levels and its secrets are those of that
  number (`ClientKept`, `ServerKept`). An end that took a message that is in no
  script (`Astray`) is *lost*: it only reads on, and no Finished it meets
  authenticates its transcript (`ClientLost`, `ServerLost`);
* of each direction (`Channel`): what is on the wire, held back or in the
  receiver's queue is the messages of the sender between the two numbers, all of
  them, each once and in order at each level, tickets when the sender is through,
  and messages too many. Order across levels is not kept, which is why `Sorted`
  and `InTurn` compare messages of one level only;
* of the queue (`Intake`): its levels were decryptable when they came, and none is
  later than the one given last;
* `Faultless`: while nothing has failed there is no error, nothing astray and no
  message too many.

`ChannelSays`, `ChannelHears`, `ChannelGives`, `ChannelDrops` and `ChannelLoses` are
what can happen to a channel; each action of an end is shown to be one of these, or
`Calm`, moving neither number. That the number an end is at is followed by the one
it says or expects (`FollowsCases`, `FollowsFrom`) is where the transition tables of
the client and of the server are compared with each other, and `MacNext` is why a
Finished is accepted. The three theorems follow from both invariants. No error comes
but by a failure of that side or over a message too many because each action that
keeps the invariant is also `Excused`: it leaves the error state alone, is a
`FatalFailure`, or has met such a message (`MetStray`). An end that keeps to the
script and finds a message of the script in its queue finds the one it expects
(`ClientFinds`, `ServerFinds`), whatever has failed or was repeated before. Agreement holds because an end that is done is at 12
and `Complete` then bounds its peer's number from below, by 9 when the client is done
and by 12 when the server is, and a transcript at 9 or later begins with what the
server's Finished closed, lost or not; and nothing is refused because a message
on its way has a number above the receiver's, which is then not past its level.
`SInv` was found with TLC, on a part of the configurations of `quic_handshake`,
before it was proved.

## 5. Only model-checked

* `DtlsHandshake!DataKept`: that a record is kept depends on `MaxBuffered` against the
  number of retransmissions, which is a bound of the run and not of the code.
* All liveness (`Completes` of both handshakes, `TicketsArrive`, `Progress`):
  liveness and `ENABLED` are outside what the provers do. That the limit on
  timeouts is not reached by fewer faults than the limit is a part of
  `DtlsHandshake!Completes`. `QuicHandshake!Completes` excepts early data over a
  stack that waits for `flush_flight`.
* Induction over data is outside too: what the loop of `SSL_provide_quic_data` or
  of `bio_write` computes is proved step by step, not as a function of its
  input.

## 6. Plan

1. *Done*: the QUIC input path with its abstract stream; the handshake over
   QUIC; the RCU lock; DTLS handshake and record layers; BIO pair; session
   cache; ASYNC jobs; the proofs about all of them. Every invariant and every
   action property of the runs is a theorem, but for those of section 5.
2. Error queue and marks against a stack; secure heap as a partition of its
   arena; provider activation against its child contexts; initialisation and
   thread stop; reseeding along the DRBG chain.
3. The TLS 1.2 handshake over a stream, with renegotiation.

## 7. Running

    tlc -workers 2 -config MCQuicInput.cfg MCQuicInput
    tlapm QuicInput_proofs.tla
    tlapm QuicHandshake_proofs.tla
    tlapm QuicScript_proofs.tla
    tlapm RcuLock_proofs.tla
    tlapm Dtls_proofs.tla
    tlapm BioPair_proofs.tla
    tlapm SessionCache_proofs.tla
    tlapm AsyncJobs_proofs.tla

## 8. Not modelled

* Number-theoretic and symmetric primitives, assembly, provider
  implementations, encoders and decoders: no protocol state.
* Certificate verification, OCSP, CMS, CMP, TS, HTTP: sequential; verification
  enters the handshake as a step that may fail.
* Within the handshake: post-handshake authentication, raw public keys,
  certificate compression, key updates (not used over QUIC), contents of
  extensions, alerts, and the tolerance for a connection that was closed while
  a ticket is flushed (`statem_srvr.c`, `conn_is_closed`).
* Within the RCU lock: `ossl_rcu_lock_free`, several locks per thread
  (`MAX_QPS`), more than 65535 readers at one point.
* Within DTLS: `DTLSv1_listen` (stateless: it keeps nothing to go wrong between
  calls), the MTU query of the BIO, renegotiation, client certificates, alerts, and
  in the handshake several records in one datagram (`DtlsRecords` has them). DTLS
  1.3 is not in this code.
* Within the session cache: the encoding of sessions, statistics, the callbacks
  for new and removed sessions, hash collisions.
* Error queue, secure heap, providers, initialisation, DRBG, thread pool, the
  other users of the RCU lock: planned, see section 6.

## 9. Observations

Met while modelling, stated by no run:

* `ssl_quic.c:202`: a message with an empty body that ends a call stays in
  `quic_buf`, because the loop asks for more than a header. No TLS 1.3 message over
  QUIC has an empty body; a stream of `quic_input` has one, and
  `NoCompleteMessageHeld` states the exception exactly.
* `statem_srvr.c:560`: one `SSL_new_session_ticket` on a connection whose
  handshake sent no tickets has `num_tickets` of them sent.
* `threads_pthread.c:459` and `517`: the release store of `reader_idx` and the
  acquire load of `users` are not ordered by C11; were the load executed first, a
  reader could be missed. `RcuLock` takes them in program order.
* `threads_pthread.c:516`: the count of readers has 16 bits;
  `RcuAssumption` asks for fewer readers than that.
* `dtls_meth.c:578`: the rest of the ChangeCipherSpec's datagram is read before the
  records that were kept, and can make them stale; handshake messages among them come
  again when the timer of the peer runs out. `EarlyKept` states the case.
* `ssl_quic.c:213`: after a failed allocation the application cannot know how many
  bytes were taken. In `QuicInput` it hands over nothing more.
* `async.c:143`: the result of `sk_ASYNC_JOB_push` is ignored. The stack of a pool
  made on first use has no storage and any other may have to grow
  (`stack.c:194-200`, `217`); when that allocation fails the job is in no pool, its
  memory is leaked, and `curr_size` still counts it, so that a pool with a limit has
  room for one job less. `ASYNC_start_job.pod:44-46` says jobs are "returned to the
  pool when the job completes". `JobsAccounted` states exactly when that is so and
  what is counted when it is not.
* `ssl_sess.c:761`: the new session is in the table when the number is compared with
  the size, with `>=`: a cache of size n holds n-1 sessions, and one of size 2 drops a
  session when the second is added. `SSL_CTX_sess_set_cache_size.pod:29-30` has
  sessions dropped "if adding the session makes the cache exceed its size", and
  `:24-25` has "up to 20000 sessions" held by a cache of size 20000.
* `async.c:394`: a second `ASYNC_init_thread` replaces the pool without freeing it.
* `dtls_meth.c`, `dtls_process_record`: a record that fails under
  encrypt-then-MAC ends the connection, while the other paths drop it.
* `ssl_sess.c:902` and `941`: the owner is read again after it was seen not to
  be NULL, and may be NULL by then when the session is evicted
  (`SetTimeoutNoOwner`).
* `ssl_lib.c:4434`: `not_resumable` is looked at before the lock is taken, so a
  session that was just removed may be added again.
* `async.c:448`: `ASYNC_block_pause` counts per thread; a job that finishes
  without unblocking leaves the next job blocked.
