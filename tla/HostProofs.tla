------------------------------ MODULE HostProofs ------------------------------
(***************************************************************************)
(* Proofs about the host.                                                  *)
(*                                                                         *)
(* The transport (RaHttp): its types, that one thread at a time runs the   *)
(* client, and that every request is answered at most once, in order and   *)
(* losing none -- which is what RaTransport states.                        *)
(*                                                                         *)
(* The audio queue (HostAudio) never runs ahead of time.  That is not      *)
(* inductive: what a look will drain depends on the time since the last    *)
(* one, and is known only when it comes.  Paced charges that time to the   *)
(* ideal device at once, without rounding; the rounding of each look then  *)
(* only leaves the queue longer.                                           *)
(*                                                                         *)
(* The mods in the folder (HostMods) are those of the release, and a       *)
(* rotated movement (HostInput) is the nearest one, for all constants.     *)
(***************************************************************************)
EXTENDS RaHttp, HostAudio, HostInput, HostMods, SequenceTheorems, TLAPS

(***************************************************************************)
(* Sequences of jobs.                                                      *)
(***************************************************************************)

\* The requests of a queue are in the order in which they were made.
Increasing(s) == \A i, k \in DOMAIN s : i < k => s[i].req < s[k].req

\* What pushing a job at the back does to the requests of a queue.
LEMMA PushReqs ==
  ASSUME NEW S, NEW s \in Seq(S), NEW e \in S
  PROVE  /\ Append(s, e) \in Seq(S)
         /\ Len(Append(s, e)) = Len(s) + 1
         /\ ReqsOf(Append(s, e)) = ReqsOf(s) \cup {e.req}
<1> DEFINE t == Append(s, e)
<1>1. /\ t \in Seq(S) /\ Len(t) = Len(s) + 1 /\ DOMAIN t = 1 .. Len(s) + 1
      /\ DOMAIN s = 1 .. Len(s) /\ Len(s) \in Nat
      /\ \A i \in 1 .. Len(s) : t[i] = s[i]
      /\ t[Len(s) + 1] = e
  BY AppendProperties
<1> HIDE DEF t
<1>2. ReqsOf(t) \subseteq ReqsOf(s) \cup {e.req}
  BY <1>1 DEF ReqsOf
<1>3. \A i \in DOMAIN s : s[i].req \in ReqsOf(t)
  <2> TAKE i \in DOMAIN s
  <2>1. i \in DOMAIN t /\ t[i] = s[i]  BY <1>1
  <2>2. QED  BY <2>1 DEF ReqsOf
<1>4. e.req \in ReqsOf(t)
  <2>1. Len(s) + 1 \in DOMAIN t  BY <1>1
  <2>2. QED  BY <2>1, <1>1 DEF ReqsOf
<1>5. QED  BY <1>1, <1>2, <1>3, <1>4 DEF t, ReqsOf

\* What popping the front job does to them.
LEMMA PopReqs ==
  ASSUME NEW S, NEW s \in Seq(S), s # << >>
  PROVE  /\ Tail(s) \in Seq(S)
         /\ Head(s) \in S
         /\ ReqsOf(s) = ReqsOf(Tail(s)) \cup {Head(s).req}
<1> DEFINE t == Tail(s)
<1>1. /\ t \in Seq(S) /\ Head(s) \in S /\ Head(s) = s[1]
      /\ Len(s) \in Nat \ {0} /\ DOMAIN s = 1 .. Len(s)
      /\ DOMAIN t = 1 .. Len(s) - 1
      /\ \A i \in 1 .. Len(s) - 1 : t[i] = s[i + 1]
  BY HeadTailProperties, EmptySeq, LenProperties
<1> HIDE DEF t
<1>2. ReqsOf(t) \cup {Head(s).req} \subseteq ReqsOf(s)
  BY SMTT(60), <1>1 DEF ReqsOf
<1>3. \A i \in DOMAIN s : s[i].req \in ReqsOf(t) \cup {Head(s).req}
  <2> TAKE i \in DOMAIN s
  <2>1. CASE i = 1  BY <2>1, <1>1
  <2>2. CASE i # 1
    <3>1. i - 1 \in DOMAIN t /\ t[i - 1] = s[i]  BY <2>2, <1>1
    <3>2. QED  BY <3>1 DEF ReqsOf
  <2>3. QED  BY <2>1, <2>2
<1>4. QED  BY <1>1, <1>2, <1>3 DEF t, ReqsOf

\* A job pushed behind older ones keeps the order.
LEMMA PushIncreasing ==
  ASSUME NEW s \in Seq(JobRec), NEW e \in JobRec, Increasing(s),
         \A r \in ReqsOf(s) : r < e.req
  PROVE  Increasing(Append(s, e))
<1>1. /\ DOMAIN Append(s, e) = 1 .. Len(s) + 1 /\ DOMAIN s = 1 .. Len(s) /\ Len(s) \in Nat
      /\ \A i \in 1 .. Len(s) : Append(s, e)[i] = s[i]
      /\ Append(s, e)[Len(s) + 1] = e
  BY AppendProperties
<1>2. QED  BY <1>1 DEF Increasing, ReqsOf

\* Popping the front keeps the order, and takes the oldest.
LEMMA PopIncreasing ==
  ASSUME NEW s \in Seq(JobRec), s # << >>, Increasing(s)
  PROVE  /\ Increasing(Tail(s))
         /\ \A r \in ReqsOf(Tail(s)) : Head(s).req < r
<1>1. /\ Head(s) = s[1] /\ Len(s) \in Nat \ {0} /\ DOMAIN s = 1 .. Len(s)
      /\ DOMAIN Tail(s) = 1 .. Len(s) - 1
      /\ \A i \in 1 .. Len(s) - 1 : Tail(s)[i] = s[i + 1]
  BY HeadTailProperties, EmptySeq, LenProperties
<1>2. QED  BY SMTT(60), <1>1 DEF Increasing, ReqsOf

-----------------------------------------------------------------------------
(* Type correctness. *)

LEMMA InitType == Init => TypeOK
<1> SUFFICES ASSUME Init PROVE TypeOK
  OBVIOUS
<1>1. /\ << >> \in Seq(Jobs) /\ << >> \in Seq(JobRec)
      /\ << >> \in Seq(ReplyRec)
  OBVIOUS
<1>2. made \in 0 .. MaxRequests /\ pushing \in 0 .. MaxRequests
  BY HttpAssumption DEF Init
<1>3. /\ callerPc \in [Callers -> {"out", "swap", "spawn"}]
      /\ workerJob \in IF workerPc \in {"execute", "finish"} THEN JobRec ELSE {NoJob}
  BY DEF Init
<1>4. QED  BY <1>1, <1>2, <1>3 DEF Init, TypeOK

LEMMA NextType == TypeOK /\ [Next]_vars => TypeOK'
<1> SUFFICES ASSUME TypeOK, [Next]_vars PROVE TypeOK'
  OBVIOUS
<1> USE HttpAssumption DEF TypeOK, gameVars, workerVars
<1>1. ASSUME NEW c \in Callers, NotifyStore(c) PROVE TypeOK'
  BY <1>1 DEF NotifyStore
<1>2. ASSUME NEW c \in Callers, NotifyClaim(c) PROVE TypeOK'
  BY <1>2 DEF NotifyClaim
<1>3. ASSUME NEW c \in Callers, NotifySpawn(c) PROVE TypeOK'
  BY <1>3 DEF NotifySpawn
<1>4. CASE CallRefused
  <2>1. made + 1 \in Jobs /\ made' \in 0 .. MaxRequests
    BY <1>4 DEF CallRefused, Jobs
  <2>2. stack' \in Seq(Jobs)
    BY <1>4, <2>1, AppendProperties DEF CallRefused
  <2>3. answered' \in Seq(ReplyRec)
    <3>1. Reply(made + 1, 0, FALSE) \in ReplyRec
      BY <2>1 DEF Reply, ReplyRec
    <3>2. QED  BY <1>4, <3>1, AppendProperties DEF CallRefused
  <2>4. QED  BY <1>4, <2>1, <2>2, <2>3 DEF CallRefused
<1>5. CASE CallAccepted
  <2>1. made' \in 0 .. MaxRequests /\ pushing' \in 0 .. MaxRequests
    BY <1>5 DEF CallAccepted
  <2>2. /\ workerStarted' = (workerPc' # "none") /\ workerStarted' \in BOOLEAN
        /\ workerPc' \in {"none", "poll", "execute", "finish"}
        /\ workerJob' \in IF workerPc' \in {"execute", "finish"} THEN JobRec ELSE {NoJob}
    BY <1>5 DEF CallAccepted
  <2>3. QED  BY <1>5, <2>1, <2>2 DEF CallAccepted
<1>6. CASE CallPush
  <2>1. [req |-> pushing, status |-> 0] \in JobRec
    BY <1>6 DEF CallPush, JobRec, Jobs
  <2>2. pending' \in Seq(JobRec)
    BY <1>6, <2>1, AppendProperties DEF CallPush
  <2>3. QED  BY <1>6, <2>2 DEF CallPush
<1>7. CASE CallbackReturn
  <2>1. stack' \in Seq(Jobs)
    <3>1. Len(stack) \in Nat \ {0}  BY <1>7, EmptySeq, LenProperties DEF CallbackReturn
    <3>2. SubSeq(stack, 1, Len(stack) - 1) \in Seq(Jobs)  BY <3>1, SubSeqProperties
    <3>3. QED  BY <1>7, <3>2 DEF CallbackReturn
  <2>2. QED  BY <1>7, <2>1 DEF CallbackReturn
<1>8. CASE DrainJob
  <2>1. Head(done) \in JobRec /\ done' \in Seq(JobRec)
    BY <1>8, PopReqs DEF DrainJob
  <2>2. stack' \in Seq(Jobs)
    <3>1. Head(done).req \in Jobs  BY <2>1 DEF JobRec
    <3>2. <<Head(done).req>> \in Seq(Jobs)  BY <3>1
    <3>3. QED  BY <1>8, <3>2 DEF DrainJob
  <2>3. answered' \in Seq(ReplyRec)
    <3>1. Reply(Head(done).req, Head(done).status, TRUE)
            \in ReplyRec
      BY <2>1 DEF Reply, ReplyRec, JobRec
    <3>2. QED  BY <1>8, <3>1, AppendProperties DEF DrainJob
  <2>4. QED  BY <1>8, <2>1, <2>2, <2>3 DEF DrainJob
<1>9. CASE DrainEmpty \/ FrameEnd
  BY <1>9 DEF DrainEmpty, FrameEnd
<1>10. CASE WorkerPop
  <2>1. Head(pending) \in JobRec /\ pending' \in Seq(JobRec)
    BY <1>10, PopReqs DEF WorkerPop
  <2>2. QED  BY <1>10, <2>1 DEF WorkerPop
<1>11. CASE WorkerExecute
  <2>1. workerJob' \in JobRec  BY <1>11 DEF WorkerExecute, JobRec
  <2>2. QED  BY <1>11, <2>1 DEF WorkerExecute
<1>14. CASE WorkerFinish
  <2>1. done' \in Seq(JobRec)  BY <1>14, AppendProperties DEF WorkerFinish
  <2>2. QED  BY <1>14, <2>1 DEF WorkerFinish
<1>12. CASE UNCHANGED vars
  BY <1>12 DEF vars
<1>13. QED
  BY <1>1, <1>2, <1>3, <1>4, <1>5, <1>6, <1>7, <1>8, <1>9, <1>10, <1>11, <1>12, <1>14
  DEF Next, Game, Request, RaThread, Worker

\* The variables of RaHttp always hold values of the types the code gives them;
\* in particular the worker holds a job exactly while it executes one.
THEOREM TypeCorrect == Spec => []TypeOK
<1>1. QED  BY InitType, NextType, PTL DEF Spec

-----------------------------------------------------------------------------
(* One RA thread. *)

\* g_thread_started is set before a thread is created, g_rdram before that.
ThreadInv ==
  /\ OneRaThread
  /\ ~threadStarted => raThreads = 0 /\ \A c \in Callers : callerPc[c] # "spawn"
  /\ \A c \in Callers : callerPc[c] \in {"swap", "spawn"} => rdram

LEMMA ThreadStep == TypeOK /\ ThreadInv /\ [Next]_vars => ThreadInv'
<1> SUFFICES ASSUME TypeOK, ThreadInv, [Next]_vars PROVE ThreadInv'
  OBVIOUS
<1> USE DEF ThreadInv, OneRaThread
<1>1. ASSUME NEW c \in Callers, NotifyStore(c) PROVE ThreadInv'
  BY <1>1 DEF NotifyStore, TypeOK
<1>2. ASSUME NEW c \in Callers, NotifyClaim(c) PROVE ThreadInv'
  BY <1>2 DEF NotifyClaim, TypeOK
<1>3. ASSUME NEW c \in Callers, NotifySpawn(c) PROVE ThreadInv'
  <2>1. raThreads = 0  BY <1>3 DEF NotifySpawn
  <2>2. \A d \in Callers : callerPc'[d] # "spawn"  BY <1>3 DEF NotifySpawn, TypeOK
  <2>3. threadStarted  BY <1>3 DEF NotifySpawn
  <2>4. QED  BY <1>3, <2>1, <2>2, <2>3 DEF NotifySpawn, TypeOK
<1>4. CASE UNCHANGED gameVars
  BY <1>4 DEF gameVars
<1>5. QED
  BY <1>1, <1>2, <1>3, <1>4
  DEF Next, Game, Request, RaThread, Worker, CallRefused, CallAccepted, CallPush,
      CallbackReturn, DrainJob, DrainEmpty, FrameEnd, WorkerPop, WorkerExecute,
      WorkerFinish, vars, gameVars

\* For any number of game threads, one RA thread at most is ever created, and
\* only once the RDRAM pointer is stored (notify_rdram).
THEOREM SingleRaThread == Spec => []OneRaThread
<1>1. Init => ThreadInv
  BY DEF Init, ThreadInv, OneRaThread
<1>2. QED  BY <1>1, ThreadStep, TypeCorrect, PTL DEF Spec, ThreadInv

-----------------------------------------------------------------------------
(***************************************************************************)
(* The order of the jobs.  The jobs that wait lie in the two queues and in *)
(* the hands of the two threads in the order done, worker, pending,        *)
(* pushing, and are increasing along it.                                   *)
(***************************************************************************)
QueueOrder ==
  /\ Increasing(done)
  /\ Increasing(pending)
  /\ \A d \in ReqsOf(done), p \in ReqsOf(pending) : d < p
  /\ workerJob.req # 0 =>
       /\ \A d \in ReqsOf(done) : d < workerJob.req
       /\ \A p \in ReqsOf(pending) : workerJob.req < p
  /\ pushing # 0 =>
       \A r \in ReqsOf(done) \cup ReqsOf(pending) \cup {workerJob.req} : r < pushing
  /\ \A r \in Outstanding : r <= made

\* ReqsOf of a queue of jobs holds natural numbers.
LEMMA QueueTypes ==
  ASSUME TypeOK
  PROVE  /\ ReqsOf(done) \subseteq Jobs /\ ReqsOf(pending) \subseteq Jobs
         /\ workerJob.req \in Nat /\ workerJob.req <= MaxRequests
         /\ Outstanding \subseteq Jobs
<1>1. ASSUME NEW s \in Seq(JobRec) PROVE ReqsOf(s) \subseteq Jobs
  <2>1. \A i \in DOMAIN s : s[i] \in JobRec  BY ElementOfSeq
  <2>2. \A i \in DOMAIN s : s[i].req \in Jobs  BY <2>1 DEF JobRec
  <2>3. QED  BY <2>2 DEF ReqsOf
<1>2. workerJob.req \in Nat /\ workerJob.req <= MaxRequests
  BY HttpAssumption DEF TypeOK, JobRec, NoJob, Jobs
<1>3. ReqsOf(done) \subseteq Jobs /\ ReqsOf(pending) \subseteq Jobs
  BY <1>1 DEF TypeOK
<1>4. pushing \in Nat /\ pushing <= MaxRequests
  BY HttpAssumption DEF TypeOK
<1>5. \A r \in {workerJob.req, pushing} \ {0} : r \in Jobs
  BY <1>2, <1>4, HttpAssumption DEF Jobs
<1>6. QED  BY <1>2, <1>3, <1>5 DEF Outstanding

LEMMA OrderStep == TypeOK /\ TypeOK' /\ QueueOrder /\ [Next]_vars => QueueOrder'
<1> SUFFICES ASSUME TypeOK, TypeOK', QueueOrder, [Next]_vars PROVE QueueOrder'
  OBVIOUS
<1> USE QueueTypes, HttpAssumption DEF Jobs
<1>1. CASE CallAccepted
  <2>1. made \in Nat /\ made' = made + 1 /\ pushing' = made + 1 /\ pushing = 0
    BY <1>1 DEF CallAccepted, InClient, TypeOK
  <2>2. done' = done /\ pending' = pending /\ workerJob' = workerJob
    BY <1>1 DEF CallAccepted
  <2>3. Outstanding' = Outstanding \cup {made + 1}
    BY <2>1, <2>2 DEF Outstanding, ReqsOf
  <2>4. \A r \in ReqsOf(done) \cup ReqsOf(pending) \cup {workerJob.req} : r <= made
    BY <2>1 DEF QueueOrder, Outstanding
  <2>5. \A r \in Outstanding' : r <= made'
    BY <2>1, <2>3 DEF QueueOrder
  <2>6. ReqsOf(done') = ReqsOf(done) /\ ReqsOf(pending') = ReqsOf(pending)
    BY <2>2 DEF ReqsOf
  <2>7. \A r \in ReqsOf(done) \cup ReqsOf(pending) \cup {workerJob.req} : r < made + 1
    <3>1. ReqsOf(done) \cup ReqsOf(pending) \cup {workerJob.req} \subseteq Nat
      BY QueueTypes
    <3>2. QED  BY <2>1, <2>4, <3>1
  <2>8. Increasing(done') /\ Increasing(pending')
    BY <2>2 DEF QueueOrder
  <2>9. QED  BY <2>1, <2>2, <2>5, <2>6, <2>7, <2>8 DEF QueueOrder
<1>2. CASE CallPush
  <2> DEFINE j == [req |-> pushing, status |-> 0]
  <2>1. /\ j \in JobRec /\ j.req = pushing /\ pending' = Append(pending, j)
        /\ pushing' = 0 /\ pushing # 0 /\ done' = done /\ workerJob' = workerJob
        /\ made' = made
    <3>1. pushing \in Jobs  BY <1>2 DEF CallPush, TypeOK
    <3>2. QED  BY <1>2, <3>1 DEF CallPush, JobRec, workerVars
  <2>2. pending \in Seq(JobRec)  BY DEF TypeOK
  <2> HIDE DEF j
  <2>3. ReqsOf(pending') = ReqsOf(pending) \cup {pushing}
    BY <2>1, <2>2, PushReqs
  <2>4. Increasing(pending')
    BY <2>1, <2>2, PushIncreasing DEF QueueOrder
  <2>5. Outstanding' = Outstanding
    BY <2>1, <2>3 DEF Outstanding, ReqsOf
  <2>6. QED  BY <2>1, <2>3, <2>4, <2>5 DEF QueueOrder, ReqsOf, Increasing
<1>3. CASE DrainJob
  <2>1. /\ done \in Seq(JobRec) /\ done # << >> /\ done' = Tail(done)
        /\ pending' = pending /\ workerJob' = workerJob /\ pushing' = pushing /\ made' = made
    BY <1>3 DEF DrainJob, TypeOK, workerVars
  <2>2. ReqsOf(done') \subseteq ReqsOf(done)
    BY <2>1, PopReqs
  <2>3. Increasing(done')
    BY <2>1, PopIncreasing DEF QueueOrder
  <2>4. Outstanding' \subseteq Outstanding
    BY <2>1, <2>2 DEF Outstanding, ReqsOf
  <2>5. QED  BY <2>1, <2>2, <2>3, <2>4 DEF QueueOrder, ReqsOf, Increasing
<1>4. CASE WorkerPop
  <2>1. /\ pending \in Seq(JobRec) /\ pending # << >> /\ pending' = Tail(pending)
        /\ done' = done /\ workerJob' = Head(pending) /\ pushing' = pushing /\ made' = made
        /\ workerJob = NoJob
    BY <1>4 DEF WorkerPop, TypeOK
  <2>2. ReqsOf(pending) = ReqsOf(pending') \cup {workerJob'.req}
    BY <2>1, PopReqs
  <2>3. Increasing(pending') /\ \A r \in ReqsOf(pending') : workerJob'.req < r
    BY <2>1, PopIncreasing DEF QueueOrder
  <2>4. workerJob.req = 0  BY <2>1 DEF NoJob
  <2>5. workerJob'.req # 0
    BY <1>4 DEF WorkerPop, TypeOK, JobRec
  <2>6. Outstanding' = Outstanding
    <3>1. ReqsOf(done') = ReqsOf(done)  BY <2>1 DEF ReqsOf
    <3>2. pushing' = pushing  BY <2>1
    <3> DEFINE w == workerJob'.req
    <3>3. Outstanding' = ReqsOf(pending') \cup ReqsOf(done') \cup ({w, pushing'} \ {0})
      BY DEF Outstanding
    <3>4. Outstanding = ReqsOf(pending) \cup ReqsOf(done) \cup ({0, pushing} \ {0})
      BY <2>4 DEF Outstanding
    <3>5. ReqsOf(pending) = ReqsOf(pending') \cup {w} /\ w # 0  BY <2>2, <2>5
    <3> HIDE DEF w
    <3>6. QED  BY <3>1, <3>2, <3>3, <3>4, <3>5
  <2>7. QED  BY <2>1, <2>2, <2>3, <2>6 DEF QueueOrder, ReqsOf, Increasing
<1>5. CASE WorkerExecute
  <2>1. workerJob \in JobRec
    BY <1>5 DEF WorkerExecute, TypeOK
  <2>2. /\ workerJob'.req = workerJob.req /\ done' = done /\ pending' = pending
        /\ pushing' = pushing /\ made' = made
    BY <1>5, <2>1 DEF WorkerExecute, JobRec
  <2>3. QED  BY <2>2 DEF QueueOrder, Outstanding, ReqsOf, Increasing
<1>6. CASE WorkerFinish
  <2>1. /\ workerJob \in JobRec /\ done \in Seq(JobRec) /\ done' = Append(done, workerJob)
        /\ workerJob' = NoJob /\ pending' = pending /\ pushing' = pushing /\ made' = made
    BY <1>6 DEF WorkerFinish, TypeOK
  <2>2. ReqsOf(done') = ReqsOf(done) \cup {workerJob.req}
    BY <2>1, PushReqs
  <2>3. workerJob.req # 0 /\ workerJob'.req = 0
    BY <2>1 DEF JobRec, NoJob
  <2>7. ReqsOf(pending') = ReqsOf(pending)
    BY <2>1 DEF ReqsOf
  <2>4. Increasing(done')
    BY <2>1, <2>3, PushIncreasing DEF QueueOrder
  <2>5. Outstanding' = Outstanding
    BY <2>1, <2>2, <2>3 DEF Outstanding, ReqsOf
  <2>6. Increasing(pending')  BY <2>1 DEF QueueOrder
  <2>8. \A r \in Outstanding' : r <= made'
    BY <2>1, <2>5 DEF QueueOrder
  <2>9. \A d \in ReqsOf(done'), p \in ReqsOf(pending') : d < p
    BY <2>2, <2>3, <2>7 DEF QueueOrder
  <2>10. pushing' # 0 =>
           \A r \in ReqsOf(done') \cup ReqsOf(pending') \cup {workerJob'.req} : r < pushing'
    <3>1. pushing \in Nat  BY DEF TypeOK
    <3>2. QED  BY <2>1, <2>2, <2>3, <2>7, <3>1 DEF QueueOrder
  <2>11. QED  BY <2>3, <2>4, <2>6, <2>8, <2>9, <2>10 DEF QueueOrder
<1>7. CASE CallRefused
  <2>1. /\ made \in Nat /\ made' = made + 1 /\ pushing' = pushing /\ done' = done
        /\ pending' = pending /\ workerJob' = workerJob
    BY <1>7 DEF CallRefused, TypeOK, workerVars
  <2>2. Outstanding' = Outstanding
    BY <2>1 DEF Outstanding, ReqsOf
  <2>3. \A r \in Outstanding' : r <= made'
    BY <2>1, <2>2 DEF QueueOrder
  <2>4. QED  BY <2>1, <2>3 DEF QueueOrder, ReqsOf, Increasing
<1>8. CASE UNCHANGED <<pushing, made, workerJob, pending, done>>
  BY <1>8 DEF QueueOrder, Outstanding, ReqsOf, Increasing
<1>9. QED
  BY <1>1, <1>2, <1>3, <1>4, <1>5, <1>6, <1>7, <1>8
  DEF Next, Game, NotifyStore, NotifyClaim, NotifySpawn, Request, RaThread,
      CallbackReturn, DrainEmpty, FrameEnd, Worker, vars, workerVars

\* Along every behaviour the jobs that wait are in the order of their requests.
LEMMA OrderCorrect == Spec => []QueueOrder
<1>1. Init => QueueOrder
  <2> SUFFICES ASSUME Init PROVE QueueOrder
    OBVIOUS
  <2>1. ReqsOf(done) = {} /\ ReqsOf(pending) = {} /\ workerJob.req = 0 /\ pushing = 0
    BY DEF Init, ReqsOf, NoJob
  <2>2. Outstanding = {}  BY <2>1 DEF Outstanding
  <2>3. Increasing(done) /\ Increasing(pending)  BY DEF Init, Increasing
  <2>4. QED  BY <2>1, <2>2, <2>3 DEF QueueOrder
<1>2. QED  BY <1>1, OrderStep, TypeCorrect, PTL DEF Spec

-----------------------------------------------------------------------------
(***************************************************************************)
(* The transport implements RaTransport: the order makes the front of the  *)
(* done queue the oldest of the requests that wait.                        *)
(***************************************************************************)

LEMMA SameOutstanding ==
  ASSUME TypeOK, TypeOK', QueueOrder,
         CallPush \/ WorkerPop \/ WorkerExecute \/ WorkerFinish
  PROVE  Outstanding' = Outstanding /\ made' = made /\ answered' = answered
<1> USE DEF workerVars, gameVars
<1>1. CASE CallPush
  <2> DEFINE j == [req |-> pushing, status |-> 0]
  <2>1. pending \in Seq(JobRec)  BY DEF TypeOK
  <2>2. j \in JobRec
    <3>1. pushing \in Jobs  BY <1>1, HttpAssumption DEF CallPush, TypeOK, Jobs
    <3>2. QED  BY <3>1, HttpAssumption DEF JobRec
  <2>3. ReqsOf(Append(pending, j)) = ReqsOf(pending) \cup {j.req}
    BY <2>1, <2>2, PushReqs
  <2>4. j.req = pushing  OBVIOUS
  <2>5. /\ pending' = Append(pending, j) /\ pushing' = 0 /\ pushing # 0 /\ done' = done
        /\ workerJob' = workerJob /\ made' = made /\ answered' = answered
    BY <1>1 DEF CallPush
  <2> HIDE DEF j
  <2>6. QED  BY <2>3, <2>4, <2>5 DEF Outstanding, ReqsOf
<1>2. CASE WorkerPop
  <2>1. /\ pending \in Seq(JobRec) /\ pending # << >> /\ workerJob = NoJob
    BY <1>2 DEF WorkerPop, TypeOK
  <2>2. ReqsOf(pending) = ReqsOf(Tail(pending)) \cup {Head(pending).req} /\ Head(pending) \in JobRec
    BY <2>1, PopReqs
  <2>3. Head(pending).req # 0  BY <2>2 DEF JobRec, Jobs
  <2>4. workerJob.req = 0  BY <2>1 DEF NoJob
  <2>5. /\ pending' = Tail(pending) /\ workerJob' = Head(pending) /\ done' = done
        /\ pushing' = pushing /\ made' = made /\ answered' = answered
    BY <1>2 DEF WorkerPop
  <2>6. Outstanding' = ReqsOf(Tail(pending)) \cup ReqsOf(done) \cup ({Head(pending).req, pushing} \ {0})
    BY <2>5 DEF Outstanding, ReqsOf
  <2>7. Outstanding = ReqsOf(pending) \cup ReqsOf(done) \cup ({0, pushing} \ {0})
    BY <2>4 DEF Outstanding
  <2>8. QED  BY <2>2, <2>3, <2>5, <2>6, <2>7
<1>3. CASE WorkerExecute
  <2>1. workerJob \in JobRec  BY <1>3 DEF WorkerExecute, TypeOK
  <2>2. workerJob'.req = workerJob.req  BY <1>3, <2>1 DEF WorkerExecute, JobRec
  <2>3. QED  BY <1>3, <2>2 DEF WorkerExecute, Outstanding, ReqsOf
<1>4. CASE WorkerFinish
  <2>1. workerJob \in JobRec /\ done \in Seq(JobRec)  BY <1>4 DEF WorkerFinish, TypeOK
  <2>2. ReqsOf(Append(done, workerJob)) = ReqsOf(done) \cup {workerJob.req}
    BY <2>1, PushReqs
  <2>3. workerJob.req # 0 /\ NoJob.req = 0  BY <2>1 DEF JobRec, Jobs, NoJob
  <2>4. /\ done' = Append(done, workerJob) /\ workerJob' = NoJob /\ pending' = pending
        /\ pushing' = pushing /\ made' = made /\ answered' = answered
    BY <1>4 DEF WorkerFinish
  <2>5. Outstanding' = ReqsOf(pending) \cup ReqsOf(Append(done, workerJob)) \cup ({0, pushing} \ {0})
    BY <2>3, <2>4 DEF Outstanding, ReqsOf
  <2>6. QED  BY <2>2, <2>3, <2>4, <2>5 DEF Outstanding
<1>5. QED  BY <1>1, <1>2, <1>3, <1>4

\* Every step of the threads is a step of RaTransport or changes nothing of it.
LEMMA StepMaps ==
  TypeOK /\ TypeOK' /\ QueueOrder /\ [Next]_vars
    => [Abstract!TNext]_(Abstract!tvars)
<1> SUFFICES ASSUME TypeOK, TypeOK', QueueOrder, [Next]_vars
             PROVE  [Abstract!TNext]_(Abstract!tvars)
  OBVIOUS
<1> USE DEF workerVars, gameVars
<1>1. CASE CallRefused
  <2>1. Outstanding' = Outstanding  BY <1>1 DEF CallRefused, Outstanding, ReqsOf
  <2>2. Abstract!Refuse
    BY <1>1, <2>1 DEF CallRefused, Abstract!Refuse, Reply, Abstract!Reply
  <2>3. QED  BY <2>2 DEF Abstract!TNext
<1>2. CASE CallAccepted
  <2>1. made + 1 # 0 /\ pushing = 0 /\ pushing' = made + 1
    BY <1>2, HttpAssumption DEF CallAccepted, InClient, TypeOK
  <2>2. done' = done /\ pending' = pending /\ workerJob' = workerJob
    BY <1>2 DEF CallAccepted
  <2>3. Outstanding' = Outstanding \cup {made + 1}
    BY <2>1, <2>2 DEF Outstanding, ReqsOf
  <2>4. Abstract!Accept
    BY <1>2, <2>3 DEF CallAccepted, Abstract!Accept
  <2>5. QED  BY <2>4 DEF Abstract!TNext
<1>3. CASE CallPush \/ WorkerPop \/ WorkerExecute \/ WorkerFinish
  BY <1>3, SameOutstanding DEF Abstract!tvars
<1>4. CASE DrainJob
  <2> DEFINE h == Head(done)
  <2>1. done \in Seq(JobRec) /\ done # << >>  BY <1>4 DEF DrainJob, TypeOK
  <2>2. h \in JobRec /\ ReqsOf(done) = ReqsOf(Tail(done)) \cup {h.req}
    BY <2>1, PopReqs
  <2>3. \A r \in ReqsOf(Tail(done)) : h.req < r
    BY <2>1, PopIncreasing DEF QueueOrder
  <2>4. /\ done' = Tail(done) /\ made' = made /\ pending' = pending
        /\ pushing' = pushing /\ workerJob' = workerJob
        /\ answered' = Append(answered, Reply(h.req, h.status, TRUE))
    BY <1>4 DEF DrainJob
  <2>5. h.req \in Nat /\ h.req # 0 /\ h.status \in Statuses
    BY <2>2, HttpAssumption DEF JobRec, Jobs
  <2> HIDE DEF h
  <2>6. \A r \in Outstanding : r = h.req \/ h.req < r
    <3>1. \A r \in ReqsOf(pending) : h.req < r  BY <2>2 DEF QueueOrder
    <3>2. workerJob.req # 0 => h.req < workerJob.req  BY <2>2 DEF QueueOrder
    <3>3. pushing # 0 => h.req < pushing  BY <2>2 DEF QueueOrder
    <3>4. QED  BY <2>2, <2>3, <3>1, <3>2, <3>3 DEF Outstanding
  <2>7. ~ (h.req < h.req)  BY <2>5
  <2>8. Outstanding' = ReqsOf(pending) \cup ReqsOf(Tail(done)) \cup ({workerJob.req, pushing} \ {0})
    BY <2>4 DEF Outstanding, ReqsOf
  <2>9. h.req \notin Outstanding'
    <3>1. h.req \notin ReqsOf(pending) /\ h.req \notin ReqsOf(Tail(done))
      BY <2>2, <2>3, <2>7 DEF QueueOrder
    <3>2. h.req \notin {workerJob.req, pushing} \ {0}
      BY <2>2, <2>7 DEF QueueOrder
    <3>3. QED  BY <2>8, <3>1, <3>2
  <2>10. Outstanding' = Outstanding \ {h.req} /\ h.req \in Outstanding
    BY <2>2, <2>8, <2>9 DEF Outstanding
  <2>11. \A o \in Outstanding : h.req <= o
    BY <2>5, <2>6, QueueTypes DEF Jobs
  <2>12. Abstract!Answer
    BY <2>4, <2>5, <2>10, <2>11 DEF Abstract!Answer, Reply, Abstract!Reply
  <2>13. QED  BY <2>12 DEF Abstract!TNext
<1>5. CASE UNCHANGED <<made, answered, pending, done, workerJob, pushing>>
  BY <1>5 DEF Abstract!tvars, Outstanding, ReqsOf
<1>6. QED
  BY <1>1, <1>2, <1>3, <1>4, <1>5
  DEF Next, Game, NotifyStore, NotifyClaim, NotifySpawn, Request, RaThread,
      CallbackReturn, DrainEmpty, FrameEnd, Worker, vars

LEMMA InitMaps == Init => Abstract!TInit
  BY DEF Init, Abstract!TInit, Outstanding, ReqsOf, NoJob

\* The two threads and their queues implement the transport that rc_client
\* expects: each request answered once, in the order of the requests, and the
\* refused ones at once.
THEOREM HttpImplementsTransport == Spec => Abstract!TSpec
<1>1. QED
  BY InitMaps, StepMaps, TypeCorrect, OrderCorrect, PTL DEF Spec, Abstract!TSpec

-----------------------------------------------------------------------------
(***************************************************************************)
(* What follows for the callbacks, from the steps of RaTransport alone.    *)
(***************************************************************************)

LogInv ==
  /\ Outstanding \subseteq 1 .. made
  /\ \A i \in DOMAIN answered : answered[i].req \in 1 .. made
  /\ \A i \in DOMAIN answered, r \in Outstanding : answered[i].queued => answered[i].req < r
  /\ AnsweredOnce
  /\ AnswersInOrder

LEMMA LogStep ==
  TypeOK /\ TypeOK' /\ LogInv /\ [Abstract!TNext]_(Abstract!tvars) => LogInv'
<1> SUFFICES ASSUME TypeOK, TypeOK', LogInv, [Abstract!TNext]_(Abstract!tvars)
             PROVE  LogInv'
  OBVIOUS
<1> USE DEF LogInv
<1> DEFINE n == Len(answered)
<1>1. answered \in Seq(ReplyRec) /\ made \in Nat /\ n \in Nat /\ DOMAIN answered = 1 .. n
  BY HttpAssumption DEF TypeOK
<1>2. ASSUME NEW e \in ReplyRec, answered' = Append(answered, e)
      PROVE  /\ DOMAIN answered' = 1 .. n + 1
             /\ \A i \in 1 .. n : answered'[i] = answered[i]
             /\ answered'[n + 1] = e
             /\ ReqsOf(answered') = ReqsOf(answered) \cup {e.req}
  BY <1>1, <1>2, AppendProperties, PushReqs
<1> HIDE DEF n
<1>3. \A i \in 1 .. n : answered[i].req \in ReqsOf(answered)
  BY <1>1 DEF ReqsOf
<1>4. \A r \in ReqsOf(answered) : r \in 1 .. made
  BY DEF ReqsOf
<1>5. CASE Abstract!Accept
  <2>1. Outstanding' = Outstanding \cup {made + 1} /\ made' = made + 1 /\ answered' = answered
    BY <1>5 DEF Abstract!Accept
  <2>2. ReqsOf(answered') = ReqsOf(answered)  BY <2>1 DEF ReqsOf
  <2>3. AnsweredOnce'
    BY <1>1, <1>4, <2>1, <2>2 DEF AnsweredOnce
  <2>4. \A i \in DOMAIN answered : answered[i].req < made + 1
    BY <1>1
  <2>5. QED  BY <1>1, <2>1, <2>3, <2>4 DEF AnswersInOrder
<1>6. CASE Abstract!Refuse
  <2> DEFINE e == Reply(made + 1, 0, FALSE)
  <2>1. Outstanding' = Outstanding /\ made' = made + 1 /\ answered' = Append(answered, e)
    BY <1>6 DEF Abstract!Refuse, Reply, Abstract!Reply
  <2>2. e \in ReplyRec /\ e.req = made + 1 /\ e.queued = FALSE
    <3>1. made + 1 \in Jobs  BY <1>1, <1>6, HttpAssumption DEF Abstract!Refuse, Jobs
    <3>2. QED  BY <3>1, HttpAssumption DEF Reply, ReplyRec
  <2> HIDE DEF e
  <2>3. /\ DOMAIN answered' = 1 .. n + 1
        /\ \A i \in 1 .. n : answered'[i] = answered[i]
        /\ answered'[n + 1] = e
        /\ ReqsOf(answered') = ReqsOf(answered) \cup {made + 1}
    BY <1>2, <2>1, <2>2
  <2>4. made + 1 \notin ReqsOf(answered) /\ made + 1 \notin Outstanding
    BY <1>1, <1>4
  <2>5. \A i \in DOMAIN answered' : answered'[i].req \in 1 .. made'
    BY <1>1, <2>1, <2>2, <2>3
  <2>6. \A i \in DOMAIN answered', r \in Outstanding' :
           answered'[i].queued => answered'[i].req < r
    BY <1>1, <2>1, <2>2, <2>3
  <2>7. AnsweredOnce'
    <3>1. \A r \in 1 .. made' : r \in Outstanding' \/ r \in ReqsOf(answered')
      BY <1>1, <2>1, <2>3 DEF AnsweredOnce
    <3>2. \A r \in ReqsOf(answered') : r \notin Outstanding'
      BY <2>1, <2>3, <2>4 DEF AnsweredOnce
    <3>3. \A i, k \in DOMAIN answered' : answered'[i].req = answered'[k].req => i = k
      BY <1>1, <1>3, <2>2, <2>3, <2>4 DEF AnsweredOnce
    <3>4. QED  BY <3>1, <3>2, <3>3 DEF AnsweredOnce
  <2>8. AnswersInOrder'
    BY <1>1, <2>2, <2>3 DEF AnswersInOrder
  <2>9. Outstanding' \subseteq 1 .. made'
    BY <1>1, <2>1
  <2>10. QED  BY <2>5, <2>6, <2>7, <2>8, <2>9
<1>7. CASE Abstract!Answer
  <2>1. PICK r \in Outstanding, s \in Statuses :
           /\ \A o \in Outstanding : r <= o
           /\ Outstanding' = Outstanding \ {r}
           /\ answered' = Append(answered, Reply(r, s, TRUE))
           /\ made' = made
    BY <1>7 DEF Abstract!Answer, Reply, Abstract!Reply
  <2> DEFINE e == Reply(r, s, TRUE)
  <2>2. e \in ReplyRec /\ e.req = r /\ e.queued = TRUE /\ r \in 1 .. made
    BY <1>1, QueueTypes DEF Reply, ReplyRec
  <2> HIDE DEF e
  <2>3. /\ DOMAIN answered' = 1 .. n + 1
        /\ \A i \in 1 .. n : answered'[i] = answered[i]
        /\ answered'[n + 1] = e
        /\ ReqsOf(answered') = ReqsOf(answered) \cup {r}
    BY <1>2, <2>1, <2>2 DEF e
  <2>4. r \notin ReqsOf(answered)  BY DEF AnsweredOnce
  <2>5. \A i \in DOMAIN answered' : answered'[i].req \in 1 .. made'
    <3>1. \A i \in 1 .. n : answered'[i].req \in 1 .. made'
      BY <1>1, <2>1, <2>3
    <3>2. answered'[n + 1].req \in 1 .. made'
      BY <2>1, <2>2, <2>3
    <3>3. QED  BY <1>1, <2>3, <3>1, <3>2
  <2>6. \A o \in Outstanding' : r < o
    <3> SUFFICES ASSUME NEW o \in Outstanding' PROVE r < o
      OBVIOUS
    <3>1. r <= o /\ r # o /\ o \in Outstanding  BY <2>1
    <3>2. o \in Nat /\ r \in Nat  BY <2>2, <3>1, QueueTypes DEF Jobs
    <3>3. QED  BY <3>1, <3>2
  <2>7. \A i \in DOMAIN answered', o \in Outstanding' :
           answered'[i].queued => answered'[i].req < o
    <3> SUFFICES ASSUME NEW i \in DOMAIN answered', NEW o \in Outstanding', answered'[i].queued
                 PROVE  answered'[i].req < o
      OBVIOUS
    <3>1. CASE i \in 1 .. n
      BY <1>1, <2>1, <2>3, <3>1
    <3>2. CASE i = n + 1
      BY <2>2, <2>3, <2>6, <3>2
    <3>3. QED  BY <1>1, <2>3, <3>1, <3>2
  <2>8. AnsweredOnce'
    <3>1. \A q \in 1 .. made' : q \in Outstanding' \/ q \in ReqsOf(answered')
      BY <2>1, <2>3 DEF AnsweredOnce
    <3>2. \A q \in ReqsOf(answered') : q \notin Outstanding'
      BY <2>1, <2>3 DEF AnsweredOnce
    <3>3. \A i, k \in DOMAIN answered' : answered'[i].req = answered'[k].req => i = k
      BY <1>1, <1>3, <2>2, <2>3, <2>4 DEF AnsweredOnce
    <3>4. QED  BY <3>1, <3>2, <3>3 DEF AnsweredOnce
  <2>9. AnswersInOrder'
    BY <1>1, <2>2, <2>3 DEF AnswersInOrder
  <2>10. Outstanding' \subseteq 1 .. made'
    BY <2>1
  <2>11. QED  BY <2>5, <2>7, <2>8, <2>9, <2>10
<1>8. CASE UNCHANGED Abstract!tvars
  <2>1. Outstanding' = Outstanding /\ made' = made /\ answered' = answered
    BY <1>8 DEF Abstract!tvars
  <2>2. ReqsOf(answered') = ReqsOf(answered)  BY <2>1 DEF ReqsOf
  <2>3. QED  BY <2>1, <2>2 DEF AnsweredOnce, AnswersInOrder
<1>9. QED  BY <1>5, <1>6, <1>7, <1>8 DEF Abstract!TNext

\* No request is lost and no callback is called twice, and the answers of the
\* queued requests come in the order of the requests, for any number of both.
THEOREM CallbacksCorrect == Spec => []AnsweredInTurn
<1>1. Init => LogInv
  <2> SUFFICES ASSUME Init PROVE LogInv
    OBVIOUS
  <2>1. ReqsOf(done) = {} /\ ReqsOf(pending) = {} /\ workerJob.req = 0 /\ pushing = 0
    BY DEF Init, ReqsOf, NoJob
  <2>2. Outstanding = {}  BY <2>1 DEF Outstanding
  <2>3. DOMAIN answered = {} /\ ReqsOf(answered) = {}
    BY DEF Init, ReqsOf
  <2>4. 1 .. made = {}  BY DEF Init
  <2>5. AnsweredOnce /\ AnswersInOrder
    BY <2>3, <2>4 DEF AnsweredOnce, AnswersInOrder
  <2>6. QED  BY <2>2, <2>3, <2>5 DEF LogInv
<1>2. TypeOK /\ TypeOK' /\ QueueOrder /\ LogInv /\ [Next]_vars => LogInv'
  BY StepMaps, LogStep
<1>3. QED
  BY <1>1, <1>2, TypeCorrect, OrderCorrect, PTL DEF Spec, LogInv, AnsweredInTurn

-----------------------------------------------------------------------------
(* The audio queue.                                                         *)

AudioInv == AudioTypeOK /\ Paced

-----------------------------------------------------------------------------
\* Rounding down leaves at most the whole.
LEMMA DivBelow ==
  ASSUME NEW a \in Nat, NEW b \in Nat \ {0}
  PROVE  a \div b \in Nat /\ (a \div b) * b <= a
<1>1. a \div b \in Nat  OBVIOUS
<1>2. a = b * (a \div b) + (a % b) /\ a % b \in 0..(b - 1)  OBVIOUS
<1>3. (a \div b) * b = b * (a \div b) /\ b * (a \div b) \in Nat  BY <1>1
<1>4. QED  BY <1>1, <1>2, <1>3

LEMMA ProductIsNat == ASSUME NEW a \in Nat, NEW b \in Nat PROVE a * b \in Nat
OBVIOUS

LEMMA ZeroTimes == ASSUME NEW a \in Nat PROVE 0 * a = 0
OBVIOUS

\* A look leaves no less than what an exact clock would.
LEMMA DrainedLeaves ==
  ASSUME AudioTypeOK, looked
  PROVE  /\ Drained \in Nat
         /\ virtualFrames * Second <= Drained * Second + since * rate
<1>1. virtualFrames \in Nat /\ since \in Nat /\ rate \in Nat /\ Second \in Nat \ {0}
  BY AudioAssumption DEF AudioTypeOK
<1> DEFINE q == (since * rate) \div Second
<1>2. q \in Nat /\ q * Second <= since * rate /\ since * rate \in Nat
  BY <1>1, DivBelow, ProductIsNat
<1>3. Drained = IF q >= virtualFrames THEN 0 ELSE virtualFrames - q
  BY DEF Drained, Less
<1> HIDE DEF q
<1>4. CASE q >= virtualFrames
  <2>1. PICK k \in Nat : q = virtualFrames + k
    <3>1. q - virtualFrames \in Nat /\ q = virtualFrames + (q - virtualFrames)  BY <1>1, <1>2, <1>4
    <3>2. QED  BY <3>1
  <2>2. q * Second = virtualFrames * Second + k * Second  BY <2>1, <1>1
  <2>3. k * Second \in Nat /\ virtualFrames * Second \in Nat  BY <2>1, <1>1, ProductIsNat
  <2>4. Drained = 0  BY <1>3, <1>4
  <2>5. QED  BY <1>1, <1>2, <2>2, <2>3, <2>4
<1>5. CASE ~(q >= virtualFrames)
  <2>1. PICK k \in Nat : virtualFrames = q + k
    <3>1. virtualFrames - q \in Nat /\ virtualFrames = q + (virtualFrames - q)  BY <1>1, <1>2, <1>5
    <3>2. QED  BY <3>1
  <2>2. Drained = k  BY <1>2, <1>3, <1>5, <2>1
  <2>3. virtualFrames * Second = q * Second + k * Second  BY <2>1, <1>1, <1>2
  <2>4. k * Second \in Nat /\ q * Second \in Nat  BY <2>1, <1>1, <1>2, ProductIsNat
  <2>5. QED  BY <1>2, <2>1, <2>2, <2>3, <2>4
<1>6. QED  BY <1>4, <1>5

LEMMA DrainedIsNat == AudioTypeOK => Drained \in Nat
<1> SUFFICES ASSUME AudioTypeOK PROVE Drained \in Nat
  OBVIOUS
<1>1. CASE looked  BY <1>1, DrainedLeaves
<1>2. CASE ~looked  BY <1>2 DEF Drained, AudioTypeOK
<1>3. QED  BY <1>1, <1>2

\* What remains after a look is no less than the ideal.
LEMMA DrainedPaced ==
  ASSUME AudioInv
  PROVE  Drained * Second >= ideal /\ Drained * Second \in Nat
<1>0. Drained \in Nat /\ Second \in Nat  BY DrainedIsNat, AudioAssumption DEF AudioInv
<1>1. Drained * Second \in Nat  BY <1>0, ProductIsNat
<1>2. ideal \in Nat  BY DEF AudioInv, AudioTypeOK
<1>3. CASE ideal = 0  BY <1>1, <1>2, <1>3
<1>4. CASE ideal > 0
  <2>1. looked /\ ideal + since * rate <= virtualFrames * Second  BY <1>4 DEF AudioInv, Paced
  <2>2. virtualFrames * Second <= Drained * Second + since * rate
    BY <2>1, DrainedLeaves DEF AudioInv
  <2>3. since * rate \in Nat /\ virtualFrames * Second \in Nat
    BY AudioAssumption, ProductIsNat DEF AudioInv, AudioTypeOK
  <2>4. QED  BY <1>1, <1>2, <2>1, <2>2, <2>3
<1>5. QED  BY <1>2, <1>3, <1>4

-----------------------------------------------------------------------------
\* The types, which no step disturbs.
LEMMA TypesKept == AudioTypeOK /\ [AudioNext]_audioVars => AudioTypeOK'
<1> SUFFICES ASSUME AudioTypeOK, [AudioNext]_audioVars PROVE AudioTypeOK'
  OBVIOUS
<1>0. /\ Drained \in Nat /\ Batch \in Nat /\ Second \in Nat /\ Rates \subseteq Nat
      /\ Batch * Second \in Nat
  BY DrainedIsNat, AudioAssumption, ProductIsNat
<1> USE DEF AudioTypeOK
<1> HIDE DEF AudioTypeOK
<1>L. ASSUME Looked PROVE looked' \in BOOLEAN /\ since' \in Nat
  <2>1. CASE device  BY <1>L, <2>1 DEF Looked, AudioTypeOK
  <2>2. CASE ~device  BY <1>L, <2>2 DEF Looked
  <2>3. QED  BY <2>1, <2>2
<1>1. CASE GetFramesRemaining
  <2>1. UNCHANGED <<device, rate, requested, queued, ideal>> /\ Looked
    BY <1>1 DEF GetFramesRemaining
  <2>2. virtualFrames' = virtualFrames \/ virtualFrames' = Drained
    BY <1>1 DEF GetFramesRemaining
  <2>3. virtualFrames' \in Nat  BY <1>0, <2>2 DEF AudioTypeOK
  <2>4. QED  BY <1>L, <2>1, <2>3 DEF AudioTypeOK
<1>2. CASE QueueSamples
  <2>1. UNCHANGED <<device, rate, requested>> /\ Looked
    BY <1>2 DEF QueueSamples
  <2>2. /\ queued' = queued \/ queued' = queued + Batch
        /\ virtualFrames' = virtualFrames \/ virtualFrames' = Drained + Batch
        /\ ideal' = ideal \/ ideal' = ideal + Batch * Second
    BY <1>2 DEF QueueSamples
  <2>3. queued' \in Nat /\ virtualFrames' \in Nat /\ ideal' \in Nat
    BY <1>0, <2>2 DEF AudioTypeOK
  <2>4. QED  BY <1>L, <2>1, <2>3 DEF AudioTypeOK
<1> USE DEF AudioTypeOK
<1>3. ASSUME NEW freq \in Rates, SetFrequency(freq) PROVE AudioTypeOK'
  <2>1. CASE Opened(freq)  BY <1>3, <2>1 DEF SetFrequency, Opened
  <2>2. CASE NotOpened(freq)
    <3>1. ideal' \in Nat
      <4>1. CASE device \/ freq < rate  BY <2>2, <4>1 DEF NotOpened
      <4>2. CASE ~(device \/ freq < rate)
        <5>1. freq - rate \in Nat  BY <1>0, <4>2
        <5>2. since * (freq - rate) \in Nat  BY <5>1, ProductIsNat
        <5>3. QED  BY <2>2, <4>2, <5>2 DEF NotOpened, Less
      <4>3. QED  BY <4>1, <4>2
    <3>2. QED  BY <1>3, <2>2, <3>1 DEF SetFrequency, NotOpened
  <2>3. QED  BY <1>3, <2>1, <2>2 DEF SetFrequency
<1>4. CASE Tick  BY <1>0, <1>4 DEF Tick, Less
<1>5. CASE DevicePlays  BY <1>5 DEF DevicePlays
<1>6. CASE UNCHANGED audioVars  BY <1>6 DEF audioVars
<1>7. QED  BY <1>1, <1>2, <1>3, <1>4, <1>5, <1>6 DEF AudioNext

\* After a look nothing is owed for the time before it.
LEMMA LookKeepsPace ==
  ASSUME AudioInv, AudioTypeOK', ~device, ~device', Looked,
         NEW n \in Nat, virtualFrames' = Drained + n, ideal' = ideal + n * Second
  PROVE  Paced'
<1>1. looked' = TRUE /\ since' = 0  BY DEF Looked
<1>2. Drained * Second >= ideal /\ Drained * Second \in Nat  BY DrainedPaced
<1>3. Drained \in Nat /\ Second \in Nat  BY DrainedIsNat, AudioAssumption DEF AudioInv
<1>4. virtualFrames' * Second = Drained * Second + n * Second  BY <1>3
<1>5. n * Second \in Nat  BY <1>3, ProductIsNat
<1>6. since' * rate' = 0
  <2>1. PICK r \in Nat : r = rate'  BY AudioAssumption DEF AudioTypeOK
  <2>2. 0 * r = 0  BY ZeroTimes
  <2>3. QED  BY <1>1, <2>1, <2>2
<1>7. ideal \in Nat  BY DEF AudioInv, AudioTypeOK
<1>8. ideal' + since' * rate' <= virtualFrames' * Second
  BY <1>2, <1>4, <1>5, <1>6, <1>7
<1>9. QED  BY <1>1, <1>8 DEF Paced

\* A device that is lost or not found: the time nobody looked at is charged at the new rate.
LEMMA NotOpenedKeepsPace ==
  ASSUME AudioInv, NEW freq \in Rates, NotOpened(freq), AudioTypeOK'
  PROVE  Paced'
<1> SUFFICES ASSUME ideal' > 0 PROVE Paced'
  BY DEF Paced
<1>1. /\ freq \in Nat /\ rate \in Nat /\ since \in Nat /\ ideal \in Nat /\ virtualFrames \in Nat
      /\ Second \in Nat
  BY AudioAssumption DEF AudioInv, AudioTypeOK
<1>2. /\ ~device' /\ rate' = freq /\ virtualFrames' = virtualFrames
      /\ looked' = looked /\ since' = since
  BY DEF NotOpened
<1>3. since * rate \in Nat /\ since * freq \in Nat /\ virtualFrames * Second \in Nat
  BY <1>1, ProductIsNat
<1>4. CASE device \/ freq < rate
  <2>1. ideal' = ideal  BY <1>4 DEF NotOpened
  <2>2. ~device /\ looked /\ ideal + since * rate <= virtualFrames * Second
    BY <2>1 DEF AudioInv, Paced
  <2>3. PICK k \in Nat : rate = freq + k
    <3>1. rate - freq \in Nat /\ rate = freq + (rate - freq)  BY <1>1, <1>4, <2>2
    <3>2. QED  BY <3>1
  <2>4. since * rate = since * freq + since * k  BY <1>1, <2>3
  <2>5. since * k \in Nat  BY <1>1, <2>3, ProductIsNat
  <2>6. ideal + since * freq <= virtualFrames * Second
    BY <1>1, <1>3, <2>2, <2>4, <2>5
  <2>7. QED  BY <1>2, <2>1, <2>2, <2>6 DEF Paced
<1>5. CASE ~(device \/ freq < rate)
  <2>1. PICK k \in Nat : freq = rate + k /\ k = freq - rate
    <3>1. freq - rate \in Nat /\ freq = rate + (freq - rate)  BY <1>1, <1>5
    <3>2. QED  BY <3>1
  <2>2. ideal' = Less(ideal, since * k)  BY <1>5, <2>1 DEF NotOpened
  <2>3. since * k \in Nat  BY <1>1, <2>1, ProductIsNat
  <2>4. ideal' = ideal - since * k /\ ideal > 0
    BY <1>1, <2>2, <2>3 DEF Less
  <2>5. looked /\ ideal + since * rate <= virtualFrames * Second
    BY <2>4 DEF AudioInv, Paced
  <2>6. since * freq = since * rate + since * k  BY <1>1, <2>1
  <2>7. ideal' + since * freq <= virtualFrames * Second
    BY <1>1, <1>3, <2>3, <2>4, <2>5, <2>6
  <2>8. QED  BY <1>2, <2>5, <2>7 DEF Paced
<1>6. QED  BY <1>4, <1>5

LEMMA TickKeepsPace ==
  ASSUME AudioInv, Tick, AudioTypeOK'
  PROVE  Paced'
<1> SUFFICES ASSUME ideal' > 0 PROVE Paced'
  BY DEF Paced
<1>1. /\ rate \in Nat /\ since \in Nat /\ ideal \in Nat
      /\ since * rate \in Nat /\ virtualFrames * Second \in Nat
  BY AudioAssumption, ProductIsNat DEF AudioInv, AudioTypeOK
<1>2. UNCHANGED <<device, rate, looked, virtualFrames>> /\ since' = since + 1  BY DEF Tick
<1>3. ~device /\ looked /\ ideal + since * rate <= virtualFrames * Second
  <2>1. ideal > 0  BY <1>1 DEF Tick, Less
  <2>2. QED  BY <2>1 DEF AudioInv, Paced
<1>4. ideal' = ideal - rate  BY <1>1, <1>3 DEF Tick, Less
<1>5. since' * rate = since * rate + rate  BY <1>1, <1>2
<1>6. ideal' + since' * rate <= virtualFrames * Second  BY <1>1, <1>3, <1>4, <1>5
<1>7. QED  BY <1>2, <1>3, <1>6 DEF Paced

-----------------------------------------------------------------------------
LEMMA StepKeeps == AudioInv /\ [AudioNext]_audioVars => AudioInv'
<1> SUFFICES ASSUME AudioInv, [AudioNext]_audioVars PROVE AudioInv'
  OBVIOUS
<1>0. AudioTypeOK'  BY TypesKept DEF AudioInv
<1>D. ASSUME device, ideal' = ideal PROVE Paced'
  <2>1. ~(ideal > 0)  BY <1>D DEF AudioInv, Paced
  <2>2. QED  BY <1>D, <2>1 DEF Paced
<1>1. ASSUME GetFramesRemaining PROVE Paced'
  <2>1. CASE device
    <3>1. ideal' = ideal  BY <1>1 DEF GetFramesRemaining
    <3>2. QED  BY <1>D, <2>1, <3>1
  <2>2. CASE ~device
    <3>1. Drained \in Nat /\ ideal \in Nat /\ Second \in Nat
      BY DrainedIsNat, AudioAssumption DEF AudioInv, AudioTypeOK
    <3>2. virtualFrames' = Drained + 0 /\ ideal' = ideal + 0 * Second
      BY <1>1, <2>2, <3>1 DEF GetFramesRemaining
    <3>3. ~device' /\ Looked  BY ZenonT(30), <1>1, <2>2 DEF GetFramesRemaining
    <3>4. QED  BY <1>0, <2>2, <3>2, <3>3, LookKeepsPace
  <2>3. QED  BY <2>1, <2>2
<1>2. ASSUME QueueSamples PROVE Paced'
  <2>1. CASE device
    <3>1. ideal' = ideal  BY <1>2, <2>1 DEF QueueSamples
    <3>2. QED  BY <1>D, <2>1, <3>1
  <2>2. CASE ~device
    <3>1. virtualFrames' = Drained + Batch /\ ideal' = ideal + Batch * Second /\ ~device' /\ Looked
      BY <1>2, <2>2 DEF QueueSamples
    <3>2. Batch \in Nat  BY AudioAssumption
    <3>3. QED  BY <1>0, <2>2, <3>1, <3>2, LookKeepsPace
  <2>3. QED  BY <2>1, <2>2
<1>3. ASSUME NEW freq \in Rates, SetFrequency(freq) PROVE Paced'
  <2>1. CASE Opened(freq)
    <3>1. ~(ideal' > 0)  BY <2>1 DEF Opened
    <3>2. QED  BY <3>1 DEF Paced
  <2>2. CASE NotOpened(freq)  BY <1>0, <2>2, NotOpenedKeepsPace
  <2>3. QED  BY <1>3, <2>1, <2>2 DEF SetFrequency
<1>4. ASSUME Tick PROVE Paced'  BY <1>0, <1>4, TickKeepsPace
<1>5. ASSUME DevicePlays PROVE Paced'
  <2>1. device /\ ideal' = ideal  BY <1>5 DEF DevicePlays
  <2>2. QED  BY <1>D, <2>1
<1>6. ASSUME UNCHANGED audioVars PROVE Paced'
  BY <1>6 DEF audioVars, AudioInv, Paced
<1>7. QED  BY <1>0, <1>1, <1>2, <1>3, <1>4, <1>5, <1>6 DEF AudioNext, AudioInv

\* At whatever rates the game asks for sound, whenever it looks and whatever device comes and goes:
\* without one it is never told of fewer frames than exact time would have left (virtual_drain,
\* get_frames_remaining, queue_samples, reset_audio).
THEOREM NeverAhead == AudioSpec => []NeverAheadOfTime
<1>1. AudioInit => AudioInv
  <2> SUFFICES ASSUME AudioInit PROVE AudioInv
    OBVIOUS
  <2>1. AudioTypeOK  BY DEF AudioInit, AudioTypeOK
  <2>2. ~(ideal > 0)  BY DEF AudioInit
  <2>3. QED  BY <2>1, <2>2 DEF AudioInv, Paced
<1>2. AudioInv => NeverAheadOfTime
  BY DrainedPaced DEF NeverAheadOfTime
<1>3. QED  BY <1>1, <1>2, StepKeeps, PTL DEF AudioSpec

-----------------------------------------------------------------------------
(* The mods.                                                                *)

\* Whatever the loop has passed is of this release, and at the end it has passed everything.
CopiedSoFar ==
  /\ phase # "off" /\ ~trouble => \A m \in DOMAIN bundle \ todo : folder[m] = bundle[m]
  /\ phase # "copying" => todo = {}

ModsInv == ModsTypeOK /\ CopiedSoFar

LEMMA ModsTypesKept ==
  ASSUME ModsInv, [ModsNext]_modVars
  PROVE  ModsTypeOK'
<1> DEFINE C == Contents \cup {UserFile, Partial, Missing}
<1>1. \A b \in Releases : \A m \in DOMAIN b : b[m] \in C  BY DEF Contents
<1>2. UserFile \in C /\ Partial \in C /\ Missing \in C  OBVIOUS
<1>3. \A m \in ModNames, x \in C : [folder EXCEPT ![m] = x] \in [ModNames -> C]
  BY DEF ModsInv, ModsTypeOK
<1>4. /\ bundle \in Releases
      /\ folder \in [ModNames -> C]
      /\ todo \subseteq DOMAIN bundle
      /\ phase \in {"off", "copying", "running"} /\ trouble \in BOOLEAN
  BY DEF ModsInv, ModsTypeOK
<1>5. ModsTypeOK' <=> /\ bundle' \in Releases
                      /\ folder' \in [ModNames -> C]
                      /\ todo' \subseteq DOMAIN bundle'
                      /\ phase' \in {"off", "copying", "running"} /\ trouble' \in BOOLEAN
  BY DEF ModsTypeOK
<1> HIDE DEF C
<1>6. CASE Start  BY <1>4, <1>5, <1>6 DEF Start
<1>7. CASE Installed  BY <1>4, <1>5, <1>7 DEF Installed
<1>8. CASE Quit
  <2>1. folder' = folder \/ \E m \in todo : folder' = [folder EXCEPT ![m] = Partial]
    BY <1>8 DEF Quit
  <2>2. folder' \in [ModNames -> C]  BY <1>2, <1>3, <1>4, <2>1
  <2>3. QED  BY <1>4, <1>5, <1>8, <2>2 DEF Quit
<1>9. CASE Upgrade
  <2>1. todo = {} /\ todo' = {}  BY <1>9 DEF Upgrade, ModsInv, CopiedSoFar
  <2>2. QED  BY <1>4, <1>5, <1>9, <2>1 DEF Upgrade
<1>10. ASSUME NEW m \in ModNames, Install(m)  PROVE ModsTypeOK'
  <2>1. bundle[m] \in C  BY <1>1, <1>4, <1>10 DEF Install
  <2>2. folder' \in {folder, [folder EXCEPT ![m] = bundle[m]], [folder EXCEPT ![m] = Partial]}
    BY <1>10 DEF Install
  <2>3. folder' \in [ModNames -> C]  BY <1>2, <1>3, <1>4, <2>1, <2>2
  <2>4. trouble' \in BOOLEAN /\ todo' \subseteq todo /\ UNCHANGED <<bundle, phase>>
    BY <1>4, <1>10 DEF Install
  <2>5. QED  BY <1>4, <1>5, <2>3, <2>4
<1>11. ASSUME NEW m \in ModNames, UserChanges(m)  PROVE ModsTypeOK'
  <2>1. folder' \in [ModNames -> C]  BY <1>2, <1>3, <1>4, <1>11 DEF UserChanges
  <2>2. QED  BY <1>4, <1>5, <1>11, <2>1 DEF UserChanges
<1>12. CASE UNCHANGED modVars  BY <1>4, <1>5, <1>12 DEF modVars
<1>13. QED  BY <1>6, <1>7, <1>8, <1>9, <1>10, <1>11, <1>12 DEF ModsNext

LEMMA CopiedKept == ModsInv /\ [ModsNext]_modVars => ModsInv'
<1> SUFFICES ASSUME ModsInv, [ModsNext]_modVars  PROVE CopiedSoFar'
  BY ModsTypesKept DEF ModsInv
<1>1. /\ bundle \in Releases /\ DOMAIN folder = ModNames /\ DOMAIN bundle \subseteq ModNames
      /\ phase \in {"off", "copying", "running"}
  BY ModsAssumption DEF ModsInv, ModsTypeOK
<1>2. /\ phase # "off" /\ ~trouble => \A m \in DOMAIN bundle \ todo : folder[m] = bundle[m]
      /\ phase # "copying" => todo = {}
  BY DEF ModsInv, CopiedSoFar
<1>3. CASE Start  BY <1>3 DEF Start, CopiedSoFar
<1>4. CASE Installed  BY <1>2, <1>4 DEF Installed, CopiedSoFar
<1>5. CASE Quit  BY <1>5 DEF Quit, CopiedSoFar
<1>6. CASE Upgrade  BY <1>2, <1>6 DEF Upgrade, CopiedSoFar
<1>7. ASSUME NEW m \in ModNames, Install(m)  PROVE CopiedSoFar'
  <2> SUFFICES ASSUME ~trouble', NEW n \in DOMAIN bundle, n \notin todo \/ n = m
               PROVE  folder'[n] = bundle[n]
    BY <1>7 DEF Install, CopiedSoFar
  <2>1. phase = "copying"  BY <1>7 DEF Install
  <2>2. CASE UpToDate(m) /\ UNCHANGED <<folder, trouble>>  BY <1>2, <2>1, <2>2 DEF UpToDate
  <2>3. CASE folder' = [folder EXCEPT ![m] = bundle[m]] /\ UNCHANGED trouble
    BY <1>1, <1>2, <2>1, <2>3
  <2>4. QED  BY <1>7, <2>2, <2>3 DEF Install
<1>8. ASSUME NEW m \in ModNames, UserChanges(m)  PROVE CopiedSoFar'
  BY <1>2, <1>8 DEF UserChanges, CopiedSoFar
<1>9. CASE UNCHANGED modVars  BY <1>2, <1>9 DEF modVars, CopiedSoFar
<1>10. QED  BY <1>3, <1>4, <1>5, <1>6, <1>7, <1>8, <1>9 DEF ModsNext

\* Whatever releases are installed one after another, whatever the user does to the folder and
\* wherever a start is killed: once a start has gone through its mods and could copy, they are
\* those of its release (install_bundled_mods).
THEOREM ModsAlwaysCurrent == ModsSpec => []BundledModsCurrent
<1>1. ModsInit => ModsInv  BY DEF ModsInit, ModsInv, ModsTypeOK, CopiedSoFar
<1>2. ModsInv => BundledModsCurrent  BY DEF ModsInv, CopiedSoFar, BundledModsCurrent
<1>3. QED  BY <1>1, <1>2, CopiedKept, PTL DEF ModsSpec

-----------------------------------------------------------------------------
(* The rotation.                                                            *)

LEMMA DirsAre ==
  /\ Dirs[1] = <<1, 0>> /\ Dirs[2] = <<1, 1>> /\ Dirs[3] = <<0, 1>> /\ Dirs[4] = <<-1, 1>>
  /\ Dirs[5] = <<-1, 0>> /\ Dirs[6] = <<-1, -1>> /\ Dirs[7] = <<0, -1>> /\ Dirs[8] = <<1, -1>>
BY DEF Dirs

LEMMA DirsDiffer ==
  ASSUME NEW i \in 0 .. 7, NEW j \in 0 .. 7, Dirs[i + 1] = Dirs[j + 1]
  PROVE  i = j
<1> DEFINE x(d) == d[1]
           y(d) == d[2]
<1>1. \A k \in 0 .. 7 : k = 0 \/ k = 1 \/ k = 2 \/ k = 3 \/ k = 4 \/ k = 5 \/ k = 6 \/ k = 7
  OBVIOUS
<1>2. /\ x(Dirs[1]) = 1 /\ y(Dirs[1]) = 0 /\ x(Dirs[2]) = 1 /\ y(Dirs[2]) = 1
      /\ x(Dirs[3]) = 0 /\ y(Dirs[3]) = 1 /\ x(Dirs[4]) = -1 /\ y(Dirs[4]) = 1
      /\ x(Dirs[5]) = -1 /\ y(Dirs[5]) = 0 /\ x(Dirs[6]) = -1 /\ y(Dirs[6]) = -1
      /\ x(Dirs[7]) = 0 /\ y(Dirs[7]) = -1 /\ x(Dirs[8]) = 1 /\ y(Dirs[8]) = -1
  BY DirsAre
<1>3. x(Dirs[i + 1]) = x(Dirs[j + 1]) /\ y(Dirs[i + 1]) = y(Dirs[j + 1])  OBVIOUS
<1> HIDE DEF x, y
<1>4. QED  BY <1>1, <1>2, <1>3

\* The angle of an octant, and the buttons that stand for it.
LEMMA AngleOfOctant ==
  ASSUME NEW o \in 0 .. 7
  PROVE  /\ Atan2(Dirs[o + 1]) = IF o > 4 THEN o - 8 ELSE o
         /\ Direction(Held(Dirs[o + 1])) = Dirs[o + 1]
         /\ Dirs[o + 1] # <<0, 0>>
<1> DEFINE chosen == CHOOSE i \in 0 .. 7 : Dirs[i + 1] = Dirs[o + 1]
<1>1. chosen \in 0 .. 7 /\ Dirs[chosen + 1] = Dirs[o + 1]  OBVIOUS
<1> HIDE DEF chosen
<1>2. chosen = o  BY <1>1, DirsDiffer
<1>3. Atan2(Dirs[o + 1]) = IF o > 4 THEN o - 8 ELSE o  BY <1>2 DEF Atan2, chosen
<1>4. /\ Direction(Held(<<1, 0>>)) = <<1, 0>> /\ Direction(Held(<<1, 1>>)) = <<1, 1>>
      /\ Direction(Held(<<0, 1>>)) = <<0, 1>> /\ Direction(Held(<<-1, 1>>)) = <<-1, 1>>
  BY DEF Direction, Held, Axis
<1>5. /\ Direction(Held(<<-1, 0>>)) = <<-1, 0>> /\ Direction(Held(<<-1, -1>>)) = <<-1, -1>>
      /\ Direction(Held(<<0, -1>>)) = <<0, -1>> /\ Direction(Held(<<1, -1>>)) = <<1, -1>>
  BY DEF Direction, Held, Axis
<1>6. \/ o + 1 = 1 \/ o + 1 = 2 \/ o + 1 = 3 \/ o + 1 = 4 
      \/ o + 1 = 5 \/ o + 1 = 6 \/ o + 1 = 7 \/ o + 1 = 8
  OBVIOUS
<1>7. Direction(Held(Dirs[o + 1])) = Dirs[o + 1]  BY <1>4, <1>5, <1>6, DirsAre
<1>8. Dirs[o + 1] # <<0, 0>>  BY <1>6, DirsAre
<1>9. QED  BY <1>3, <1>7, <1>8

\* A d-pad that points anywhere points into an octant.
LEMMA PointsIntoOctant ==
  ASSUME NEW held, Direction(held) # <<0, 0>>
  PROVE  \E o \in 0 .. 7 : Direction(held) = Dirs[o + 1]
<1> DEFINE x == Axis("right", "left", held)
           y == Axis("up", "down", held)
<1>1. (x = -1 \/ x = 0 \/ x = 1) /\ (y = -1 \/ y = 0 \/ y = 1)  BY DEF Axis
<1>2. Direction(held) = <<x, y>>  BY DEF Direction
<1> HIDE DEF x, y
<1>3. ~(x = 0 /\ y = 0)  BY <1>2
<1>4. \E k \in 1 .. 8 : <<x, y>> = Dirs[k]
  <2>1. CASE x = 1  BY <1>1, <2>1, DirsAre
  <2>2. CASE x = 0  BY <1>1, <1>3, <2>2, DirsAre
  <2>3. CASE x = -1  BY <1>1, <2>3, DirsAre
  <2>4. QED  BY <1>1, <2>1, <2>2, <2>3
<1>5. PICK k \in 1 .. 8 : <<x, y>> = Dirs[k]  BY <1>4
<1>6. k - 1 \in 0 .. 7 /\ (k - 1) + 1 = k  OBVIOUS
<1>7. QED  BY <1>2, <1>5, <1>6

\* Rounding leaves at most half a unit.
LEMMA LRoundIsNearest ==
  ASSUME NEW n \in Int, NEW d \in Nat \ {0}
  PROVE  /\ LRound(n, d) \in Int
         /\ 2 * (d * LRound(n, d)) - 2 * n <= d /\ 2 * n - 2 * (d * LRound(n, d)) <= d
<1>1. ASSUME NEW a \in Nat
      PROVE  \E q \in Nat : (2 * a + d) \div (2 * d) = q /\ 2 * (d * q) - 2 * a <= d /\ 2 * a - 2 * (d * q) <= d
  <2> DEFINE t == 2 * a + d
             e == 2 * d
             q == t \div e
             r == t % e
  <2>1. t \in Nat /\ e \in Nat \ {0}  OBVIOUS
  <2> HIDE DEF t, e
  <2>2. q \in Nat /\ r \in 0 .. (e - 1) /\ t = e * q + r  BY <2>1
  <2> HIDE DEF q, r
  <2>3. e * q = 2 * (d * q) /\ d * q \in Nat  BY <2>2 DEF e
  <2>4. r \in Nat /\ r < 2 * d  BY <2>2 DEF e
  <2>5. 2 * a + d = 2 * (d * q) + r  BY <2>2, <2>3 DEF t
  <2>6. QED  BY <2>2, <2>3, <2>4, <2>5 DEF q, t, e
<1>2. CASE n >= 0
  <2>1. n \in Nat /\ LRound(n, d) = (2 * n + d) \div (2 * d)  BY <1>2 DEF LRound
  <2>2. QED  BY <1>1, <2>1
<1>3. CASE ~(n >= 0)
  <2>1. -n \in Nat  BY <1>3
  <2>2. PICK q \in Nat : (2 * (-n) + d) \div (2 * d) = q /\ 2 * (d * q) - 2 * (-n) <= d /\ 2 * (-n) - 2 * (d * q) <= d
    BY <1>1, <2>1
  <2>3. LRound(n, d) = -q  BY <1>3, <2>2 DEF LRound
  <2>4. d * (-q) = -(d * q) /\ d * q \in Nat  BY <2>2
  <2>5. QED  BY <2>2, <2>3, <2>4
<1>4. QED  BY <1>2, <1>3

\* Whole turns are taken off.
LEMMA TurnsTakenOff ==
  ASSUME NEW M \in Nat \ {0}, NEW k \in Int, NEW e \in 0 .. (M - 1)
  PROVE  (k * M + e) % M = e
<1> DEFINE a == k * M + e
           q == a \div M
           r == a % M
<1>1. a \in Int /\ k * M \in Int  OBVIOUS
<1>2. q \in Int /\ r \in 0 .. (M - 1) /\ a = M * q + r  BY <1>1
<1>3. a = k * M + e  OBVIOUS
<1> HIDE DEF a, q, r
<1>4. (k - q) * M = r - e
  <2>1. (k - q) * M = k * M - M * q /\ M * q \in Int  BY <1>2
  <2>2. QED  BY <1>1, <1>2, <1>3, <2>1
<1>5. k - q = 0
  <2> DEFINE j == k - q
  <2>1. j \in Int  BY <1>2
  <2>2. j * M < M /\ -M < j * M  BY <1>2, <1>4
  <2> HIDE DEF j
  <2>3. CASE j >= 1
    <3>1. PICK i \in Nat : j = i + 1
      <4>1. j - 1 \in Nat /\ j = (j - 1) + 1  BY <2>1, <2>3
      <4>2. QED  BY <4>1
    <3>2. j * M = i * M + M /\ i * M \in Nat  BY <3>1
    <3>3. QED  BY <2>2, <3>2
  <2>4. CASE j <= -1
    <3>1. PICK i \in Nat : j = -1 - i
      <4>1. -1 - j \in Nat /\ j = -1 - (-1 - j)  BY <2>1, <2>4
      <4>2. QED  BY <4>1
    <3>2. j * M = -M - i * M /\ i * M \in Nat  BY <3>1
    <3>3. QED  BY <2>2, <3>2
  <2>5. QED  BY <2>1, <2>3, <2>4 DEF j
<1>6. r = e
  <2>1. (k - q) * M = 0  BY <1>5
  <2>2. QED  BY <1>2, <1>4, <2>1
<1>7. QED  BY <1>6 DEF r, a

\* Two angles less than half an octant apart, but for whole turns.
LEMMA ApartIs ==
  ASSUME NEW a \in Int, NEW b \in Int, NEW k \in Int, NEW e \in Int,
         a - b = k * (8 * Fine) + e, 2 * e <= Fine, -Fine <= 2 * e
  PROVE  2 * Apart(a, b) <= Fine
<1> DEFINE M == 8 * Fine
           d == (a - b) % M
<1>1. Fine \in Nat \ {0} /\ M \in Nat \ {0}  BY InputAssumption
<1>2. CASE e >= 0
  <2>1. e \in 0 .. (M - 1)  BY <1>1, <1>2
  <2>2. a - b = k * M + e  OBVIOUS
  <2> HIDE DEF M
  <2>3. d = e  BY <1>1, <2>1, <2>2, TurnsTakenOff
  <2>4. ~(2 * e > M)  BY <1>1, <1>2 DEF M
  <2>5. Apart(a, b) = e  BY <2>3, <2>4 DEF Apart, M
  <2>6. QED  BY <2>5
<1>3. CASE e < 0
  <2>1. M + e \in 0 .. (M - 1)  BY <1>1, <1>3
  <2>2. a - b = (k - 1) * M + (M + e) /\ k - 1 \in Int
    <3>1. a - b = k * M + e  OBVIOUS
    <3> HIDE DEF M
    <3>2. k * M = (k - 1) * M + M /\ k * M \in Int /\ (k - 1) * M \in Int  BY <1>1
    <3>3. QED  BY <1>1, <3>1, <3>2
  <2> HIDE DEF M
  <2>3. d = M + e  BY ZenonT(60), <1>1, <2>1, <2>2, TurnsTakenOff
  <2>4. 2 * (M + e) > M  BY <1>1, <1>3 DEF M
  <2>5. Apart(a, b) = M - (M + e)  BY <2>3, <2>4 DEF Apart, M
  <2>6. QED  BY <1>1, <2>5
<1>4. QED  BY <1>2, <1>3

\* What the game is given, when the pad is turned.
LEMMA TurnedIsNearest ==
  ASSUME NEW held, NEW turn \in Int, turn # 0, Direction(held) # <<0, 0>>
  PROVE  LET given == Rotated(held, turn)
         IN  /\ Direction(given) # <<0, 0>> /\ given = Held(Direction(given))
             /\ 2 * Apart(Angle(given), Angle(held) + turn) <= Fine
<1>1. PICK p \in 0 .. 7 : Direction(held) = Dirs[p + 1]  BY PointsIntoOctant
<1> DEFINE at == Atan2(Direction(held))
           n == at * Fine + turn
           octant == LRound(n, Fine)
           o == octant % 8
           given == Rotated(held, turn)
<1>2. Fine \in Nat \ {0}  BY InputAssumption
<1>3. at \in Int
  <2>1. at = IF p > 4 THEN p - 8 ELSE p  BY <1>1, AngleOfOctant
  <2>2. QED  BY <2>1
<1>4. n \in Int
  <2>1. at * Fine \in Int  BY <1>2, <1>3
  <2>2. QED  BY <2>1
<1>5. /\ octant \in Int
      /\ 2 * (Fine * octant) - 2 * n <= Fine /\ 2 * n - 2 * (Fine * octant) <= Fine
  BY <1>2, <1>4, LRoundIsNearest
<1>6. given = Held(Dirs[1 + o])  BY Zenon DEF Rotated
<1> HIDE DEF n, octant, at, given
<1>7. o \in 0 .. 7 /\ octant = 8 * (octant \div 8) + o /\ octant \div 8 \in Int  BY <1>5
<1> HIDE DEF o
<1>8. 1 + o = o + 1  BY <1>7
<1>9. /\ Atan2(Dirs[o + 1]) = IF o > 4 THEN o - 8 ELSE o
      /\ Direction(given) = Dirs[o + 1] /\ Dirs[o + 1] # <<0, 0>>
  BY <1>6, <1>7, <1>8, AngleOfOctant
<1>10. Direction(given) # <<0, 0>> /\ given = Held(Direction(given))  BY <1>6, <1>8, <1>9
<1>11. PICK k \in Int : Atan2(Dirs[o + 1]) = octant + 8 * k
  <2>1. CASE o > 4
    <3>1. Atan2(Dirs[o + 1]) = octant + 8 * (-(octant \div 8) - 1)  BY <1>5, <1>7, <1>9, <2>1
    <3>2. -(octant \div 8) - 1 \in Int  BY <1>7
    <3>3. QED  BY <3>1, <3>2
  <2>2. CASE ~(o > 4)
    <3>1. Atan2(Dirs[o + 1]) = octant + 8 * (-(octant \div 8))  BY <1>5, <1>7, <1>9, <2>2
    <3>2. -(octant \div 8) \in Int  BY <1>7
    <3>3. QED  BY <3>1, <3>2
  <2>3. QED  BY <2>1, <2>2
<1>12. /\ Angle(given) = Fine * (octant + 8 * k)
       /\ Angle(held) + turn = n
  <2>1. Angle(given) = Fine * (octant + 8 * k)  BY <1>9, <1>11 DEF Angle
  <2>2. Angle(held) = Fine * at  BY DEF Angle, at
  <2>3. Fine * at = at * Fine  BY <1>2, <1>3
  <2>4. QED  BY <2>1, <2>2, <2>3 DEF n
<1> DEFINE e == Fine * octant - n
<1>13. Fine * octant \in Int /\ e \in Int /\ Angle(given) \in Int
  <2>1. Fine * octant \in Int /\ Fine * (octant + 8 * k) \in Int  BY <1>2, <1>5
  <2>2. QED  BY <1>4, <1>12, <2>1
<1>14. Angle(given) = Fine * octant + k * (8 * Fine) /\ k * (8 * Fine) \in Int
  <2>1. Fine * (octant + 8 * k) = Fine * octant + k * (8 * Fine)  BY <1>2, <1>5
  <2>2. k * (8 * Fine) \in Int  BY <1>2
  <2>3. QED  BY <1>12, <2>1, <2>2
<1>15. Angle(given) - n = k * (8 * Fine) + e  BY <1>4, <1>13, <1>14
<1>16. 2 * e <= Fine /\ -Fine <= 2 * e  BY <1>2, <1>4, <1>5, <1>13
<1> HIDE DEF e
<1>17. 2 * Apart(Angle(given), n) <= Fine  BY <1>4, <1>13, <1>15, <1>16, ApartIs
<1>18. QED  BY <1>10, <1>12, <1>17 DEF given

\* `seen` is what the d-pad and the rotation give, once the game has asked.
Answers ==
  /\ rotation \in Rotations \cup {0}
  /\ caughtUp = TRUE => seen = Rotated(pressed, rotation)

\* Whatever direction is held and however far around a mod turns it, the game is given the nearest
\* of the eight (get_n64_input_for_mods), whatever fraction of an octant is the unit.
THEOREM RotationAlwaysNearest == InputSpec => []RotationIsNearest
<1>1. InputInit => Answers
  <2> SUFFICES ASSUME InputInit  PROVE Answers
    OBVIOUS
  <2>1. rotation = 0 /\ pressed = {} /\ seen = {}  BY DEF InputInit
  <2>2. Rotated({}, 0) = {}  BY DEF Rotated
  <2>3. QED  BY <2>1, <2>2 DEF Answers
<1>2. Answers /\ [InputNext]_inputVars => Answers'
  <2> SUFFICES ASSUME Answers, [InputNext]_inputVars  PROVE Answers'
    OBVIOUS
  <2>1. CASE SetRotation  BY <2>1 DEF SetRotation, Answers
  <2>2. CASE Press  BY <2>2 DEF Press, Answers
  <2>3. CASE GetInput  BY <2>3, Zenon DEF GetInput, Answers
  <2>4. CASE UNCHANGED inputVars  BY <2>4 DEF inputVars, Answers
  <2>5. QED  BY <2>1, <2>2, <2>3, <2>4 DEF InputNext
<1>3. Answers => RotationIsNearest
  <2> SUFFICES ASSUME Answers, caughtUp, rotation # 0, Direction(pressed) # <<0, 0>>
               PROVE  /\ Direction(seen) # <<0, 0>> /\ seen = Held(Direction(seen))
                      /\ 2 * Apart(Angle(seen), Angle(pressed) + rotation) <= Fine
    BY DEF RotationIsNearest
  <2>1. caughtUp = TRUE => seen = Rotated(pressed, rotation)  BY DEF Answers
  <2>2. rotation \in Int  BY InputAssumption DEF Answers
  <2>3. QED  BY <2>1, <2>2, TurnedIsNearest
<1>4. QED  BY <1>1, <1>2, <1>3, PTL DEF InputSpec
=============================================================================
