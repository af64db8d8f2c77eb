----------------------------- MODULE ThreadPool -----------------------------
(***************************************************************************)
(* The thread pool of the chat server, in its two versions: threadPool.c,  *)
(* which is built but which the accept loop does not use any more, and     *)
(* thread.c (tmp/thread.c is the same), which the old server is built      *)
(* with.  The main thread adds jobs to a linked queue; each worker takes   *)
(* one job, runs it and ends.                                              *)
(*   thread.c:     the main thread takes no lock; a worker takes a job     *)
(*                 under "mutex" and counts it under "queue_mutex".        *)
(*   threadPool.c: both take "mutex"; the worker unlocks queue_mutex,      *)
(*                 which nobody has locked, and never unlocks mutex.       *)
(* Memory is read and written one word at a time where no lock is held.    *)
(* 0 stands for NULL, NoOwner for an unlocked mutex, Main the main thread. *)
(***************************************************************************)
EXTENDS Integers, Sequences, FiniteSets

CONSTANTS Workers,   \* the threads createThreads starts
          Versions,  \* versions of the code in this instance
          MaxQueue,  \* MAX_QUEUE
          MaxJobs    \* bound on the jobs added

ASSUME PoolConstants ==
  /\ Versions \subseteq {"thread.c", "threadPool.c"}
  /\ MaxQueue \in Nat \ {0} /\ MaxJobs \in Nat
  /\ Workers \cap {"main", "free"} = {}

Main == "main"
NoOwner == "free"
Jobs == 1..MaxJobs

VARIABLES version,    \* which of the two runs
          mutex, queue_mutex,
          queue_num, queue_head, queue_tail,
          link,       \* the field next of each job
          place,      \* where each worker is
          job,        \* pThreadJob of each worker
          temp,       \* what it has read and not yet written
          mpc,        \* where the main thread is in addRequest2JobQueue
          num,        \* its local queue_num
          added,      \* jobs allocated so far; the last is pJob
          taken,      \* jobs in the order workers took them
          ran,        \* jobs whose callback was called
          failed,     \* calloc has failed
          dead        \* the process was ended by an access through NULL

queue   == <<queue_num, queue_head, queue_tail, link>>
workers == <<place, job, temp>>
adder   == <<mpc, num, added, failed>>
poolvars == <<version, mutex, queue_mutex, queue, workers, adder, taken, ran, dead>>

\* initThreadPools and createThreads: the workers exist, and run when they may.
PoolInit ==
  /\ version \in Versions
  /\ mutex = NoOwner /\ queue_mutex = NoOwner
  /\ queue_num = 0 /\ queue_head = 0 /\ queue_tail = 0
  /\ link = [j \in Jobs |-> 0]
  /\ place = [w \in Workers |-> "lock"]
  /\ job = [w \in Workers |-> 0] /\ temp = [w \in Workers |-> 0]
  /\ mpc = "idle" /\ num = 0 /\ added = 0 /\ failed = FALSE
  /\ taken = <<>> /\ ran = {} /\ dead = FALSE

Locks == version = "threadPool.c"

At(w, from, to) == place[w] = from /\ place' = [place EXCEPT ![w] = to]
MainAt(from, to) == mpc = from /\ mpc' = to

-----------------------------------------------------------------------------
(* threadFunc.                                                             *)

\* Mutant: the worker does not wait for the mutex.
Lock_None(w) ==
  /\ At(w, "lock", "test")
  /\ UNCHANGED <<mutex, queue_mutex, queue, job, temp, adder, taken, ran, dead>>

\* pthread_mutex_lock, and the return of pthread_cond_wait.
Lock(w) ==
  /\ At(w, "lock", "test")
  /\ mutex = NoOwner /\ mutex' = w
  /\ UNCHANGED <<queue_mutex, queue, job, temp, adder, taken, ran, dead>>

\* The condition of the loop: pthread_cond_wait unlocks the mutex.
Test(w) ==
  /\ place[w] = "test"
  /\ IF queue_num = 0
     THEN At(w, "test", "wait") /\ mutex' = NoOwner
     ELSE At(w, "test", "take") /\ UNCHANGED mutex
  /\ UNCHANGED <<queue_mutex, queue, job, temp, adder, taken, ran, dead>>

\* pthread_cond_wait may return without a signal.
WakesUp(w) ==
  /\ At(w, "wait", "lock")
  /\ UNCHANGED <<mutex, queue_mutex, queue, job, temp, adder, taken, ran, dead>>

\* pThreadJob = queue_head.
Take(w) ==
  /\ At(w, "take", "next")
  /\ job' = [job EXCEPT ![w] = queue_head]
  /\ taken' = IF queue_head = 0 THEN taken ELSE Append(taken, queue_head)
  /\ UNCHANGED <<mutex, queue_mutex, queue, temp, adder, ran, dead>>

\* queue_head->next is read ...
ReadNext(w) ==
  /\ At(w, "next", "head")
  /\ IF queue_head = 0
     THEN dead' = TRUE /\ UNCHANGED temp
     ELSE temp' = [temp EXCEPT ![w] = link[queue_head]] /\ UNCHANGED dead
  /\ UNCHANGED <<mutex, queue_mutex, queue, job, adder, taken, ran>>

\* ... and stored; thread.c unlocks the mutex.
StoreHead(w) ==
  /\ At(w, "head", IF Locks THEN "read" ELSE "qlock")
  /\ queue_head' = temp[w]
  /\ mutex' = IF Locks THEN mutex ELSE NoOwner
  /\ UNCHANGED <<queue_mutex, queue_num, queue_tail, link, job, temp, adder,
                 taken, ran, dead>>

\* thread.c: pthread_mutex_lock of queue_mutex.
QueueLock(w) ==
  /\ At(w, "qlock", "read")
  /\ queue_mutex = NoOwner /\ queue_mutex' = w
  /\ UNCHANGED <<mutex, queue, job, temp, adder, taken, ran, dead>>

\* queue_num = pThreadPool->queue_num--: read ...
ReadNum(w) ==
  /\ At(w, "read", "num")
  /\ temp' = [temp EXCEPT ![w] = queue_num]
  /\ UNCHANGED <<mutex, queue_mutex, queue, job, adder, taken, ran, dead>>

\* ... and written; then queue_mutex is unlocked.
StoreNum(w) ==
  /\ At(w, "num", "run")
  /\ queue_num' = temp[w] - 1
  /\ queue_mutex' = NoOwner
  /\ UNCHANGED <<mutex, queue_head, queue_tail, link, job, temp, adder, taken,
                 ran, dead>>

\* The signal that the queue is not full, the callback, and the end of the
\* thread.
Run(w) ==
  /\ At(w, "run", "done")
  /\ mpc' = IF temp[w] = MaxQueue /\ mpc = "wait" THEN "relock" ELSE mpc
  /\ IF job[w] = 0 THEN dead' = TRUE /\ UNCHANGED ran
                   ELSE ran' = ran \cup {job[w]} /\ UNCHANGED dead
  /\ UNCHANGED <<mutex, queue_mutex, queue, job, temp, num, added, failed, taken>>

-----------------------------------------------------------------------------
(* addRequest2JobQueue.                                                    *)

\* pthread_mutex_lock, in threadPool.c.
Add ==
  /\ MainAt("idle", "alloc") /\ added < MaxJobs
  /\ IF Locks THEN mutex = NoOwner /\ mutex' = Main ELSE UNCHANGED mutex
  /\ UNCHANGED <<queue_mutex, queue, workers, num, added, failed, taken, ran, dead>>

\* calloc.
Alloc ==
  /\ MainAt("alloc", "count")
  /\ added' = added + 1
  /\ UNCHANGED <<mutex, queue_mutex, queue, workers, num, failed, taken, ran, dead>>

\* calloc fails: the function returns with what it has locked.
AllocFails ==
  /\ MainAt("alloc", "idle") /\ ~failed
  /\ failed' = TRUE
  /\ UNCHANGED <<mutex, queue_mutex, queue, workers, num, added, taken, ran, dead>>

\* queue_num = pThreadPool->queue_num++: read ...
Count ==
  /\ MainAt("count", "counted")
  /\ num' = queue_num
  /\ UNCHANGED <<mutex, queue_mutex, queue, workers, added, failed, taken, ran, dead>>

\* ... and written.
Counted ==
  /\ MainAt("counted", IF Locks THEN "full" ELSE "link")
  /\ queue_num' = num + 1
  /\ UNCHANGED <<mutex, queue_mutex, queue_head, queue_tail, link, workers, num,
                 added, failed, taken, ran, dead>>

\* threadPool.c waits while its own copy of the number, which does not change,
\* is the length of a full queue.
Full ==
  /\ mpc = "full"
  /\ IF num = MaxQueue
     THEN MainAt("full", "wait") /\ mutex' = NoOwner
     ELSE MainAt("full", "link") /\ UNCHANGED mutex
  /\ UNCHANGED <<queue_mutex, queue, workers, num, added, failed, taken, ran, dead>>

Relock ==
  /\ MainAt("relock", "full")
  /\ mutex = NoOwner /\ mutex' = Main
  /\ UNCHANGED <<queue_mutex, queue, workers, num, added, failed, taken, ran, dead>>

\* Its pthread_cond_wait, too, may return without a signal.
FullWakesUp ==
  /\ MainAt("wait", "relock")
  /\ UNCHANGED <<mutex, queue_mutex, queue, workers, num, added, failed, taken, ran, dead>>

\* The first pointer to the new job: queue_tail, or next of the last job.
Link ==
  /\ MainAt("link", "link2")
  /\ IF num = 0
     THEN queue_tail' = added /\ UNCHANGED link
     ELSE link' = [link EXCEPT ![queue_tail] = added] /\ UNCHANGED queue_tail
  /\ UNCHANGED <<mutex, queue_mutex, queue_num, queue_head, workers, num, added,
                 failed, taken, ran, dead>>

Waiting == {w \in Workers : place[w] = "wait"}

\* Mutant: the first job is linked without a signal.
Link2_NoSignal ==
  /\ MainAt("link2", "end")
  /\ IF num = 0 THEN queue_head' = queue_tail /\ UNCHANGED queue_tail
                ELSE queue_tail' = added /\ UNCHANGED queue_head
  /\ UNCHANGED <<mutex, queue_mutex, queue_num, link, place, job, temp, num, added,
                 failed, taken, ran, dead>>

\* The second: queue_head, with a signal to a worker that waits, or queue_tail.
Link2 ==
  /\ MainAt("link2", "end")
  /\ IF num = 0
     THEN /\ queue_head' = queue_tail
          /\ UNCHANGED queue_tail
          /\ IF Waiting = {} THEN UNCHANGED place
             ELSE \E w \in Waiting : At(w, "wait", "lock")
     ELSE queue_tail' = added /\ UNCHANGED <<queue_head, place>>
  /\ UNCHANGED <<mutex, queue_mutex, queue_num, link, job, temp, num, added,
                 failed, taken, ran, dead>>

\* queue_tail->next = NULL, and the unlock of threadPool.c.
AddEnds ==
  /\ MainAt("end", "idle")
  /\ link' = [link EXCEPT ![queue_tail] = 0]
  /\ mutex' = IF Locks THEN NoOwner ELSE mutex
  /\ UNCHANGED <<queue_mutex, queue_num, queue_head, queue_tail, workers, num,
                 added, failed, taken, ran, dead>>

WorkerStep(w) ==
  \/ Lock(w) \/ Test(w) \/ Take(w) \/ ReadNext(w) \/ StoreHead(w)
  \/ QueueLock(w) \/ ReadNum(w) \/ StoreNum(w) \/ Run(w)

\* What follows once a call of addRequest2JobQueue has begun.
AddStep ==
  Alloc \/ Count \/ Counted \/ Full \/ Relock \/ Link \/ Link2 \/ AddEnds

Step ==
  \/ Add \/ AddStep \/ AllocFails \/ FullWakesUp
  \/ \E w \in Workers : WorkerStep(w) \/ WakesUp(w)

PoolNext == ~dead /\ Step /\ UNCHANGED version

\* Every thread that can go on does, and a worker that asks for the mutex gets
\* it if it is free again and again (only returns of pthread_cond_wait without a
\* signal make that happen forever); nothing makes clients come.
PoolSpec ==
  /\ PoolInit /\ [][PoolNext]_poolvars
  /\ WF_poolvars(~dead /\ (AddStep \/ AllocFails) /\ UNCHANGED version)
  /\ \A w \in Workers : /\ WF_poolvars(~dead /\ WorkerStep(w) /\ UNCHANGED version)
                        /\ SF_poolvars(~dead /\ Lock(w) /\ UNCHANGED version)

-----------------------------------------------------------------------------

PoolTypeOK ==
  /\ version \in Versions
  /\ mutex \in Workers \cup {NoOwner, Main} /\ queue_mutex \in Workers \cup {NoOwner}
  /\ queue_num \in Int
  /\ queue_head \in Jobs \cup {0} /\ queue_tail \in Jobs \cup {0}
  /\ link \in [Jobs -> Jobs \cup {0}]
  /\ place \in [Workers -> {"lock", "test", "wait", "take", "next", "head",
                          "qlock", "read", "num", "run", "done"}]
  /\ job \in [Workers -> Jobs \cup {0}] /\ temp \in [Workers -> Int]
  /\ mpc \in {"idle", "alloc", "count", "counted", "full", "wait", "relock",
              "link", "link2", "end"}
  /\ num \in Int /\ added \in 0..MaxJobs
  /\ taken \in Seq(Jobs) /\ ran \subseteq Jobs
  /\ failed \in BOOLEAN /\ dead \in BOOLEAN

\* The jobs that can be reached from the head of the queue.
Queued ==
  LET chain[k \in 0..MaxJobs] ==
        IF k = 0 THEN queue_head
        ELSE IF chain[k - 1] = 0 THEN 0 ELSE link[chain[k - 1]]
  IN {chain[k] : k \in 0..MaxJobs} \ {0}

\* The jobs whose addRequest2JobQueue has returned.
Returned == 1..(IF mpc = "idle" THEN added ELSE added - 1)

\* No job is taken twice or before an older one, in either version and however
\* the threads run.  In threadPool.c no job is lost and no NULL is followed,
\* but only one job is ever taken: its worker keeps the mutex
\* (threadPool.c 164-192, 295-330; thread.c 85-112, 214-244).
JobsInOrder ==
  /\ PoolTypeOK
  /\ \A i, j \in DOMAIN taken : i < j => taken[i] < taken[j]
  /\ Locks => /\ ~dead
              /\ Len(taken) <= 1
              /\ (\A w \in Workers : place[w] \notin {"next", "head"})
                   => \A j \in Returned :
                        (\A i \in DOMAIN taken : taken[i] # j) => j \in Queued

\* In threadPool.c the first job is run, whether the workers wait already or
\* have not begun, unless an allocation has failed: the function that fails
\* keeps the mutex (threadPool.c 301-306).
FirstJobRuns ==
  Locks /\ Returned # {} ~> ran # {} \/ failed
=============================================================================
