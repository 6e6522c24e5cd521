------------------------------- MODULE RaHttp -------------------------------
(***************************************************************************)
(* The threads of src/ra/ra_client.cpp and the HTTP transport between      *)
(* them.  A game thread that calls osDriveRomInit hands the RDRAM pointer  *)
(* over (notify_rdram) and starts the RA thread.  The RA thread runs all   *)
(* of rc_client: it drains the completed HTTP jobs, calling the callback   *)
(* of each, runs a frame and sleeps.  rc_client makes its requests through *)
(* client_server_call, which starts the HTTP worker with the first request *)
(* and queues a job; the worker executes the jobs one at a time.  Both     *)
(* queues are guarded by g_http_mx, so a push or a pop is one step; there  *)
(* is no lock between the two halves of any other operation.               *)
(***************************************************************************)
EXTENDS Naturals, Sequences

CONSTANTS Callers,      \* game threads that may reach osDriveRomInit
          MaxRequests,  \* bound on the requests rc_client makes
          Statuses      \* job->status after http_execute; 0: no HTTP answer

ASSUME HttpAssumption == MaxRequests \in Nat /\ Statuses \subseteq Nat /\ 0 \in Statuses

VARIABLES
  callerPc,       \* where each game thread is in notify_rdram
  rdram,          \* g_rdram holds the pointer
  threadStarted,  \* g_thread_started
  raThreads,      \* number of times an ra_thread was created
  raPc,           \* where the RA thread is in its loop
  stack,          \* jobs whose callbacks are on the RA thread's stack, innermost last
  pushing,        \* job client_server_call is about to queue, 0 when none
  made,           \* jobs allocated by client_server_call: job n is the n-th
  workerStarted,  \* g_http_worker_started
  workerPc,       \* where the HTTP worker is
  workerJob,      \* the job the worker holds
  pending,        \* g_http_pending: jobs, [req, status]
  done,           \* g_http_done
  answered        \* history: the callbacks called, in order

gameVars == <<callerPc, rdram, threadStarted, raThreads>>
workerVars == <<workerStarted, workerPc, workerJob>>
vars == <<callerPc, rdram, threadStarted, raThreads, raPc, stack, pushing, made,
          workerStarted, workerPc, workerJob, pending, done, answered>>

NoJob == [req |-> 0, status |-> 0]
Jobs == 1 .. MaxRequests
JobRec == [req : Jobs, status : Statuses]
ReplyRec == [req : Jobs, status : Statuses, queued : BOOLEAN]
Reply(r, s, q) == [req |-> r, status |-> s, queued |-> q]

Init ==
  /\ callerPc = [c \in Callers |-> "out"]
  /\ rdram = FALSE
  /\ threadStarted = FALSE
  /\ raThreads = 0
  /\ raPc = "none"
  /\ stack = << >>
  /\ pushing = 0
  /\ made = 0
  /\ workerStarted = FALSE
  /\ workerPc = "none"
  /\ workerJob = NoJob
  /\ pending = << >>
  /\ done = << >>
  /\ answered = << >>

-----------------------------------------------------------------------------
(* Faulty variants of the operations below, for checking the properties. *)

\* The flag is loaded and stored, not compared and exchanged.
NotifyClaim_NoExchange(c) ==
  /\ callerPc[c] = "swap"
  /\ threadStarted' = TRUE
  /\ callerPc' = [callerPc EXCEPT ![c] = "spawn"]
  /\ UNCHANGED <<rdram, raThreads, raPc, stack, pushing, made,
                 workerVars, pending, done, answered>>

\* The front job is read and never popped.
DrainJob_Peek ==
  /\ raPc = "drain"
  /\ done # << >>
  /\ stack' = <<Head(done).req>>
  /\ answered' = Append(answered, Reply(Head(done).req, Head(done).status, TRUE))
  /\ raPc' = "callback"
  /\ UNCHANGED <<gameVars, pushing, made, workerVars, pending, done>>

\* The newest completed job is served first.
DrainJob_Back ==
  /\ raPc = "drain"
  /\ done # << >>
  /\ done' = SubSeq(done, 1, Len(done) - 1)
  /\ stack' = <<done[Len(done)].req>>
  /\ answered' = Append(answered, Reply(done[Len(done)].req, done[Len(done)].status, TRUE))
  /\ raPc' = "callback"
  /\ UNCHANGED <<gameVars, pushing, made, workerVars, pending>>

\* The worker ends when it finds nothing more to do; g_http_worker_started stays.
WorkerFinish_Exits ==
  /\ workerPc = "finish"
  /\ done' = Append(done, workerJob)
  /\ workerJob' = NoJob
  /\ workerPc' = IF pending = << >> THEN "none" ELSE "poll"
  /\ UNCHANGED <<gameVars, raPc, stack, pushing, made, workerStarted, pending, answered>>

-----------------------------------------------------------------------------
(* Game threads: notify_rdram, with WCW_RA=1. *)

\* g_rdram.store(rdram)
NotifyStore(c) ==
  /\ callerPc[c] = "out"
  /\ callerPc' = [callerPc EXCEPT ![c] = "swap"]
  /\ rdram' = TRUE
  /\ UNCHANGED <<threadStarted, raThreads, raPc, stack, pushing, made,
                 workerVars, pending, done, answered>>

\* g_thread_started.compare_exchange_strong: only the winner goes on to
\* create the thread.
NotifyClaim(c) ==
  /\ callerPc[c] = "swap"
  /\ threadStarted' = TRUE
  /\ callerPc' = [callerPc EXCEPT ![c] = IF threadStarted THEN "out" ELSE "spawn"]
  /\ UNCHANGED <<rdram, raThreads, raPc, stack, pushing, made,
                 workerVars, pending, done, answered>>

\* std::thread(ra_thread).detach()
NotifySpawn(c) ==
  /\ callerPc[c] = "spawn"
  /\ callerPc' = [callerPc EXCEPT ![c] = "out"]
  /\ raThreads' = raThreads + 1
  /\ raPc' = "boot"
  /\ UNCHANGED <<rdram, threadStarted, stack, pushing, made,
                 workerVars, pending, done, answered>>

-----------------------------------------------------------------------------
(* The RA thread. *)

\* rc_client code runs, and may make requests: the login that ra_thread begins,
\* rc_client_do_frame, and the callback of an answer.
InClient == raPc \in {"boot", "frame", "callback"} /\ pushing = 0

\* client_server_call cannot crack the URL: the callback is called here, on
\* top of whatever rc_client was doing, and the job is never queued.
CallRefused ==
  /\ InClient
  /\ made < MaxRequests
  /\ made' = made + 1
  /\ stack' = Append(stack, made + 1)
  /\ answered' = Append(answered, Reply(made + 1, 0, FALSE))
  /\ UNCHANGED <<gameVars, raPc, pushing, workerVars, pending, done>>

\* client_server_call fills the job and starts the worker with the first one.
CallAccepted ==
  /\ InClient
  /\ made < MaxRequests
  /\ made' = made + 1
  /\ pushing' = made + 1
  /\ workerStarted' = TRUE
  /\ workerPc' = IF workerStarted THEN workerPc ELSE "poll"
  /\ UNCHANGED <<gameVars, raPc, stack, workerJob, pending, done, answered>>

\* g_http_pending.push_back(job) under g_http_mx.
CallPush ==
  /\ pushing # 0
  /\ pending' = Append(pending, [req |-> pushing, status |-> 0])
  /\ pushing' = 0
  /\ UNCHANGED <<gameVars, raPc, stack, made, workerVars, done, answered>>

\* The innermost callback returns; a drained job is deleted and drain_http_done
\* looks at the queue again.
CallbackReturn ==
  /\ stack # << >>
  /\ pushing = 0
  /\ stack' = SubSeq(stack, 1, Len(stack) - 1)
  /\ raPc' = IF raPc = "callback" /\ Len(stack) = 1 THEN "drain" ELSE raPc
  /\ UNCHANGED <<gameVars, pushing, made, workerVars, pending, done, answered>>

\* drain_http_done pops the front job and calls its callback, outside the lock.
DrainJob ==
  /\ raPc = "drain"
  /\ done # << >>
  /\ done' = Tail(done)
  /\ stack' = <<Head(done).req>>
  /\ answered' = Append(answered, Reply(Head(done).req, Head(done).status, TRUE))
  /\ raPc' = "callback"
  /\ UNCHANGED <<gameVars, pushing, made, workerVars, pending>>

\* drain_http_done finds the queue empty and returns.
DrainEmpty ==
  /\ raPc = "drain"
  /\ done = << >>
  /\ raPc' = "frame"
  /\ UNCHANGED <<gameVars, stack, pushing, made, workerVars, pending, done, answered>>

\* The end of the start-up code or of a frame: Sleep(16), and the loop goes on.
FrameEnd ==
  /\ raPc \in {"boot", "frame"}
  /\ stack = << >>
  /\ pushing = 0
  /\ raPc' = "drain"
  /\ UNCHANGED <<gameVars, stack, pushing, made, workerVars, pending, done, answered>>

-----------------------------------------------------------------------------
(* The HTTP worker. *)

\* The front of g_http_pending is popped under the lock.  An empty queue
\* only makes the worker sleep and look again: a stuttering step.
WorkerPop ==
  /\ workerPc = "poll"
  /\ pending # << >>
  /\ workerJob' = Head(pending)
  /\ pending' = Tail(pending)
  /\ workerPc' = "execute"
  /\ UNCHANGED <<gameVars, raPc, stack, pushing, made, workerStarted, done, answered>>

\* http_execute: any outcome, without the lock.
WorkerExecute ==
  /\ workerPc = "execute"
  /\ \E s \in Statuses : workerJob' = [workerJob EXCEPT !.status = s]
  /\ workerPc' = "finish"
  /\ UNCHANGED <<gameVars, raPc, stack, pushing, made, workerStarted, pending, done, answered>>

\* g_http_done.push_back(job) under the lock.
WorkerFinish ==
  /\ workerPc = "finish"
  /\ done' = Append(done, workerJob)
  /\ workerJob' = NoJob
  /\ workerPc' = "poll"
  /\ UNCHANGED <<gameVars, raPc, stack, pushing, made, workerStarted, pending, answered>>

-----------------------------------------------------------------------------
Game == \E c \in Callers : NotifyStore(c) \/ NotifyClaim(c) \/ NotifySpawn(c)

\* The steps of the RA thread after which it has something of its own to do;
\* which requests rc_client makes is not its choice.
RaThread == CallPush \/ CallbackReturn \/ DrainJob \/ DrainEmpty \/ FrameEnd

Request == CallRefused \/ CallAccepted

Worker == WorkerPop \/ WorkerExecute \/ WorkerFinish

Next == Game \/ Request \/ RaThread \/ Worker

Spec == Init /\ [][Next]_vars

\* Both threads are detached and run for as long as the process does; WinHTTP
\* bounds each of its calls by its default timeouts, so http_execute returns.
FairSpec == Spec /\ WF_vars(RaThread) /\ WF_vars(Worker)

-----------------------------------------------------------------------------
(* Properties *)

TypeOK ==
  /\ callerPc \in [Callers -> {"out", "swap", "spawn"}]
  /\ rdram \in BOOLEAN /\ threadStarted \in BOOLEAN /\ raThreads \in Nat
  /\ raPc \in {"none", "boot", "drain", "frame", "callback"}
  /\ stack \in Seq(Jobs)
  /\ made \in 0 .. MaxRequests
  /\ pushing \in 0 .. MaxRequests
  /\ workerStarted \in BOOLEAN /\ workerStarted = (workerPc # "none")
  /\ workerPc \in {"none", "poll", "execute", "finish"}
  /\ workerJob \in IF workerPc \in {"execute", "finish"} THEN JobRec ELSE {NoJob}
  /\ pending \in Seq(JobRec)
  /\ done \in Seq(JobRec)
  /\ answered \in Seq(ReplyRec)

\* However many game threads reach osDriveRomInit, and however their steps
\* interleave, at most one RA thread is created, and never before g_rdram is
\* set (notify_rdram; "every rc_client call happens on the single RA thread").
OneRaThread ==
  /\ raThreads \in {0, 1}
  /\ raThreads = 1 => rdram /\ \A c \in Callers : callerPc[c] # "spawn"
  /\ \A c, d \in Callers : callerPc[c] = "spawn" /\ callerPc[d] = "spawn" => c = d

ReqsOf(s) == {s[i].req : i \in DOMAIN s}

\* The jobs that client_server_call accepted and whose callback is still to come.
Outstanding == ReqsOf(pending) \cup ReqsOf(done) \cup ({workerJob.req, pushing} \ {0})

\* No request is lost between the two queues, the worker and the RA thread, and
\* no callback is called twice: every request made either waits for its answer
\* or has had exactly one (client_server_call, http_worker, drain_http_done).
AnsweredOnce ==
  /\ \A r \in 1 .. made : r \in Outstanding \/ r \in ReqsOf(answered)
  /\ \A r \in ReqsOf(answered) : r \notin Outstanding
  /\ \A i, k \in DOMAIN answered : answered[i].req = answered[k].req => i = k

\* The queued requests are answered in the order in which they were made: no
\* answer overtakes an older one in the two FIFO queues or in the worker.
AnswersInOrder ==
  \A i, k \in DOMAIN answered :
    i < k /\ answered[i].queued /\ answered[k].queued => answered[i].req < answered[k].req

\* What rc_client sees of the transport: each request it makes is answered once, in its turn,
\* whatever the threads do between (client_server_call, http_worker, drain_http_done).
AnsweredInTurn == TypeOK /\ AnsweredOnce /\ AnswersInOrder

\* Every request is answered at last, whatever rc_client does in the callbacks:
\* the RA thread cannot be kept from the queue by its own frames, nor the worker
\* by a request made after it started.
EveryRequestAnswered ==
  \A r \in Jobs : made >= r ~> r \in ReqsOf(answered)

\* The transport implements what rc_client expects of it (RaTransport): the
\* requests that wait are those in the queues and in the hands of the threads.
Abstract == INSTANCE RaTransport WITH outstanding <- Outstanding

ImplementsTransport == Abstract!TSpec
=============================================================================
