-------------------------- MODULE RcUnlocksProofs --------------------------
(***************************************************************************)
(* That unlocks are sent when they are due, that the user is told of the   *)
(* connection as it is, and that an unlock counts once, for any number of  *)
(* achievements, entries, users and failed requests.                       *)
(*                                                                         *)
(* The queue is reasoned about as the set of its entries: QueueOK says     *)
(* that it is ordered and holds a callback once at most, and a lemma for   *)
(* each of its operations says what becomes of the set.  SentInv then ties *)
(* the entries, the requests and the answers to the state of each job,     *)
(* ConnectionInv the connection state to the queue, and CreditInv the      *)
(* scores on their way to what the server has recorded.                    *)
(***************************************************************************)
EXTENDS RcUnlocks, SequenceTheorems, FiniteSetTheorems, WellFoundedInduction, TLAPS

QueueEntry == [cb : Callbacks, left : Nat]
Entered(q) == {q[i] : i \in DOMAIN q}

\* A queue in the order in which its callbacks are due, each of them there once.
QueueOK(q) ==
  /\ q \in Seq(QueueEntry)
  /\ \A i, k \in DOMAIN q : i < k => q[i].left <= q[k].left
  /\ \A i, k \in DOMAIN q : q[i].cb = q[k].cb => i = k

IsQueued(q, cb) == \E e \in Entered(q) : e.cb = cb

JobStates == {"fresh", "flight", "queued", "done", "dropped", "lost"}
Requested == [job : Jobs, account : Accounts]
Response == [job : Jobs, outcome : Outcomes, score : Nat, complete : BOOLEAN]

\* What is in the queue is what waits: the jobs that failed twice or more, each of which has waited
\* for what its delay has left over; the ping of the game; and the timer of the indicator, which is
\* only ever put off.  (s, l, h, r and w are st, loaded, hideArmed, retries and waited.)
WaitsOK(q, s, l, h, r, w) ==
  /\ QueueOK(q)
  /\ s \in [Jobs -> JobStates] /\ r \in [Jobs -> Nat] /\ w \in [Jobs -> Nat]
  /\ \A j \in Jobs : IsQueued(q, j) <=> s[j] = "queued"
  /\ IsQueued(q, "ping") <=> l
  /\ IsQueued(q, "hide") <=> h
  /\ \A e \in Entered(q) : e.cb = "hide" => e.left <= HideAfter
  /\ \A e \in Entered(q) : e.cb \in Jobs => r[e.cb] >= 2 /\ w[e.cb] + e.left = Delay(r[e.cb])

Has(q, j) == \E i \in DOMAIN q : q[i].job = j
Once(q) == \A i, k \in DOMAIN q : q[i].job = q[k].job => i = k

\* A job in flight has one request or one answer.  (w, a and s are wire, answers and st.)
NetOK(w, a, s) ==
  /\ w \in Seq(Requested) /\ a \in Seq(Response) /\ s \in [Jobs -> JobStates]
  /\ Once(w) /\ Once(a)
  /\ \A j \in Jobs : ~(Has(w, j) /\ Has(a, j))
  /\ \A j \in Jobs : s[j] = "flight" <=> Has(w, j) \/ Has(a, j)

RestTyped ==
  /\ account \in Accounts \cup {NoAccount} /\ loaded \in BOOLEAN
  /\ mastery \in {"none", "pending", "shown"}
  /\ score \in Nat
  /\ hideArmed \in BOOLEAN /\ idling \in BOOLEAN
  /\ disconnect \in {"hidden", "visible", "show", "hide"}
  /\ recorded \in [Accounts -> SUBSET Jobs]
  /\ told \in {"disconnected", "reconnected"}
  /\ raised \subseteq {"DISCONNECTED", "RECONNECTED", "SERVER_ERROR", "SCOREBOARD",
                       "GAME_COMPLETED", "PROGRESS_SHOW", "PROGRESS_UPDATE", "PROGRESS_HIDE"}
  /\ fault \in {"none", "award", "mastery", "ping", "hide"}

SentInv ==
  /\ RestTyped
  /\ WaitsOK(queue, st, loaded, hideArmed, retries, waited)
  /\ NetOK(wire, answers, st)

\* The connection state is visible to the user until RECONNECTED is raised.
ConnectionInv ==
  /\ told = "disconnected" <=> disconnect \in {"visible", "hide"}
  /\ DisconnectedMeansPending
  /\ QueuedMeansDisconnected

Credited(u) == Cardinality(recorded[u] \cap Awards)
IsOk(e) == e.job \in Awards /\ e.outcome = "ok"
InDoubt(q, j) == \E i \in DOMAIN q : q[i].job = j /\ q[i].outcome # "ok"

\* There is an achievement whose unlock the server may have recorded without rc_client being about
\* to learn of it.  (s, w and q are st, wire and answers.)
Unsure(s, w, q) ==
  \E j \in Awards : s[j] \in {"queued", "dropped", "lost"} \/ Has(w, j) \/ InDoubt(q, j)

\* The last of the scores among the answers is n, or when there is none the score is n already.
Arriving(q, now, n) ==
  /\ \A i \in DOMAIN q :
       IsOk(q[i]) /\ (\A k \in DOMAIN q : k > i => ~IsOk(q[k])) => q[i].score = n
  /\ (\A i \in DOMAIN q : ~IsOk(q[i])) => now = n

\* Requests are those of the user who is logged in, and unless there is more to come the last of the
\* scores on their way is the one on the server.
Theirs(w) == \A i \in DOMAIN w : w[i].account = account
ScoresInv ==
  account # NoAccount =>
    /\ Theirs(wire)
    /\ Unsure(st, wire, answers) \/ Arriving(answers, score, Credited(account))

IsComplete == \E u \in Accounts : Awards \subseteq recorded[u]

\* Nobody hears of a completed game before there is one.
MasteryInv ==
  /\ \A i \in DOMAIN answers : answers[i].complete => IsComplete
  /\ mastery \in {"pending", "shown"} => IsComplete

CreditInv == ScoresInv /\ MasteryInv

-----------------------------------------------------------------------------
(* The operations of the queue, as what they do to the set of its entries.  *)

\* A set of numbers has a least one.
LEMMA LeastOf ==
  ASSUME NEW T \in SUBSET Nat, T # {}
  PROVE  \E i \in T : \A j \in T : i <= j
<1>1. IsWellFoundedOn(OpToRel(<, Nat), Nat)  BY NatLessThanWellFounded
<1>2. \E i \in T : \A j \in T : ~(<<j, i>> \in OpToRel(<, Nat))  BY <1>1, WFMin
<1>3. PICK i \in T : \A j \in T : ~(<<j, i>> \in OpToRel(<, Nat))  BY <1>2
<1>4. SUFFICES ASSUME NEW j \in T PROVE i <= j  OBVIOUS
<1>5. i \in Nat /\ j \in Nat /\ <<j, i>> \in Nat \X Nat  OBVIOUS
<1>6. ~(j < i)  BY <1>3, <1>5 DEF OpToRel
<1>7. QED  BY <1>5, <1>6

\* An element inserted into a sequence.
LEMMA InsertedAt ==
  ASSUME NEW S, NEW s \in Seq(S), NEW p \in 1 .. Len(s) + 1, NEW e \in S
  PROVE  /\ InsertAt(s, p, e) \in Seq(S)
         /\ Len(InsertAt(s, p, e)) = Len(s) + 1
         /\ \A i \in 1 .. Len(s) + 1 :
              InsertAt(s, p, e)[i] = IF i < p THEN s[i] ELSE IF i = p THEN e ELSE s[i - 1]
<1> DEFINE a == SubSeq(s, 1, p - 1)
           b == SubSeq(s, p, Len(s))
           m == a \o <<e>>
           c == m \o b
<1>0. Len(s) \in Nat /\ p \in Nat  BY LenProperties
<1>1. a \in Seq(S) /\ Len(a) = p - 1 /\ \A i \in 1 .. p - 1 : a[i] = s[i]
  BY SubSeqProperties
<1>2. b \in Seq(S) /\ Len(b) = Len(s) - p + 1 /\ \A i \in 1 .. Len(s) - p + 1 : b[i] = s[p + i - 1]
  BY SubSeqProperties
<1> HIDE DEF a, b
<1>3. m \in Seq(S) /\ Len(m) = p /\ \A i \in 1 .. p : m[i] = IF i < p THEN s[i] ELSE e
  BY <1>1
<1> HIDE DEF m
<1>4. InsertAt(s, p, e) = c  BY DEF InsertAt, m, a, b
<1>5. /\ c \in Seq(S) /\ Len(c) = Len(s) + 1
      /\ \A i \in 1 .. Len(s) + 1 : c[i] = IF i <= p THEN m[i] ELSE b[i - p]
  BY <1>0, <1>2, <1>3, ConcatProperties
<1> HIDE DEF c
<1>6. ASSUME NEW i \in 1 .. Len(s) + 1
      PROVE  c[i] = IF i < p THEN s[i] ELSE IF i = p THEN e ELSE s[i - 1]
  <2>1. CASE i <= p  BY <1>0, <1>3, <1>5, <2>1
  <2>2. CASE i > p
    <3>1. i - p \in 1 .. Len(s) - p + 1  BY <1>0, <2>2
    <3>2. b[i - p] = s[p + (i - p) - 1]  BY <1>0, <1>2, <3>1
    <3>3. p + (i - p) - 1 = i - 1  BY <1>0
    <3>4. QED  BY <1>0, <1>5, <2>2, <3>2, <3>3
  <2>3. QED  BY <1>0, <2>1, <2>2
<1>7. QED  BY <1>4, <1>5, <1>6

\* An element removed from a sequence.
LEMMA RemovedAt ==
  ASSUME NEW S, NEW s \in Seq(S), NEW p \in 1 .. Len(s)
  PROVE  /\ RemoveAt(s, p) \in Seq(S)
         /\ Len(RemoveAt(s, p)) = Len(s) - 1
         /\ \A i \in 1 .. Len(s) - 1 : RemoveAt(s, p)[i] = IF i < p THEN s[i] ELSE s[i + 1]
<1> DEFINE a == SubSeq(s, 1, p - 1)
           b == SubSeq(s, p + 1, Len(s))
           c == a \o b
<1>0. Len(s) \in Nat /\ p \in Nat  BY LenProperties
<1>1. a \in Seq(S) /\ Len(a) = p - 1 /\ \A i \in 1 .. p - 1 : a[i] = s[i]
  BY SubSeqProperties
<1>2. b \in Seq(S) /\ Len(b) = Len(s) - p /\ \A i \in 1 .. Len(s) - p : b[i] = s[p + i]
  <2>1. \A i \in 1 .. Len(s) - p : (p + 1) + i - 1 = p + i  OBVIOUS
  <2>2. QED  BY <2>1, SubSeqProperties
<1> HIDE DEF a, b
<1>3. RemoveAt(s, p) = c  BY DEF RemoveAt, a, b
<1>4. /\ c \in Seq(S) /\ Len(c) = Len(a) + Len(b) /\ Len(a) + Len(b) = Len(s) - 1
      /\ \A i \in 1 .. Len(s) - 1 : c[i] = IF i < p THEN a[i] ELSE b[i - (p - 1)]
  <2>1. Len(a) + Len(b) = Len(s) - 1 /\ Len(a) = p - 1  BY <1>0, <1>1, <1>2
  <2>2. /\ c \in Seq(S) /\ Len(c) = Len(a) + Len(b)
        /\ \A i \in 1 .. Len(a) + Len(b) : c[i] = IF i <= Len(a) THEN a[i] ELSE b[i - Len(a)]
    BY <1>1, <1>2, ConcatProperties
  <2> HIDE DEF c
  <2>3. QED  BY <1>0, <2>1, <2>2
<1> HIDE DEF c
<1>5. ASSUME NEW i \in 1 .. Len(s) - 1
      PROVE  c[i] = IF i < p THEN s[i] ELSE s[i + 1]
  <2>1. CASE i < p  BY <1>0, <1>1, <1>4, <2>1
  <2>2. CASE i >= p
    <3>1. i - (p - 1) \in 1 .. Len(s) - p  BY <1>0, <2>2
    <3>2. b[i - (p - 1)] = s[p + (i - (p - 1))]  BY <1>2, <3>1
    <3>3. p + (i - (p - 1)) = i + 1  BY <1>0
    <3>4. QED  BY <1>0, <1>4, <2>2, <3>2, <3>3
  <2>3. QED  BY <1>0, <2>1, <2>2
<1>6. QED  BY <1>3, <1>4, <1>5

LEMMA QueueTyped ==
  ASSUME NEW q, QueueOK(q)
  PROVE  /\ q \in Seq(QueueEntry) /\ Len(q) \in Nat /\ DOMAIN q = 1 .. Len(q)
         /\ \A i \in 1 .. Len(q) : q[i] \in QueueEntry /\ q[i].left \in Nat /\ q[i].cb \in Callbacks
<1>1. q \in Seq(QueueEntry)  BY DEF QueueOK
<1>2. /\ Len(q) \in Nat /\ DOMAIN q = 1 .. Len(q)
      /\ \A i \in 1 .. Len(q) : q[i] \in QueueEntry
  BY <1>1
<1>3. \A e \in QueueEntry : e.left \in Nat /\ e.cb \in Callbacks  BY DEF QueueEntry
<1>4. QED  BY <1>1, <1>2, <1>3

\* rc_client_schedule_callback keeps the order, for a callback that is not in the queue.
LEMMA Inserting ==
  ASSUME NEW q, QueueOK(q), NEW e \in QueueEntry, ~IsQueued(q, e.cb)
  PROVE  /\ QueueOK(Insert(q, e))
         /\ Entered(Insert(q, e)) = Entered(q) \cup {e}
<1> DEFINE T == {k \in 1 .. Len(q) + 1 : k <= Len(q) => e.left < q[k].left}
           Good(k) == /\ \A i \in 1 .. k - 1 : q[i].left <= e.left
                      /\ k <= Len(q) => e.left < q[k].left
           p == CHOOSE k \in 1 .. Len(q) + 1 : Good(k)
           r == InsertAt(q, p, e)
<1>1. /\ q \in Seq(QueueEntry) /\ Len(q) \in Nat /\ DOMAIN q = 1 .. Len(q)
      /\ \A i \in 1 .. Len(q) : q[i] \in QueueEntry /\ q[i].left \in Nat /\ q[i].cb # e.cb
  <2>1. \A i \in DOMAIN q : q[i].cb # e.cb  BY DEF IsQueued, Entered
  <2>2. QED  BY <2>1, QueueTyped
<1>2. e.left \in Nat  BY DEF QueueEntry
<1>3. \E k \in 1 .. Len(q) + 1 : Good(k)
  <2>1. T \in SUBSET Nat /\ Len(q) + 1 \in T  BY <1>1
  <2>2. PICK k \in T : \A j \in T : k <= j
    <3> HIDE DEF T
    <3>1. QED  BY <2>1, LeastOf
  <2>3. k \in 1 .. Len(q) + 1 /\ (k <= Len(q) => e.left < q[k].left)  BY <2>2
  <2>4. ASSUME NEW i \in 1 .. k - 1 PROVE q[i].left <= e.left
    <3>1. i \in 1 .. Len(q) /\ i < k  BY <1>1, <2>3
    <3>2. i \notin T  BY <1>1, <2>2, <3>1
    <3>3. ~(e.left < q[i].left)  BY <1>1, <3>1, <3>2
    <3>4. QED  BY <1>1, <1>2, <3>1, <3>3
  <2>5. QED  BY <2>3, <2>4
<1>4. p \in 1 .. Len(q) + 1 /\ Good(p)
  <2> HIDE DEF Good
  <2>1. QED  BY <1>3
<1>5. Insert(q, e) = r  BY DEF Insert
<1> HIDE DEF p, T
<1>6. /\ r \in Seq(QueueEntry) /\ Len(r) = Len(q) + 1 /\ DOMAIN r = 1 .. Len(q) + 1
      /\ \A i \in 1 .. Len(q) + 1 : r[i] = IF i < p THEN q[i] ELSE IF i = p THEN e ELSE q[i - 1]
  <2>1. /\ r \in Seq(QueueEntry) /\ Len(r) = Len(q) + 1
        /\ \A i \in 1 .. Len(q) + 1 : r[i] = IF i < p THEN q[i] ELSE IF i = p THEN e ELSE q[i - 1]
    BY <1>1, <1>4, InsertedAt, SMTT(60)
  <2> HIDE DEF r
  <2>2. DOMAIN r = 1 .. Len(r)  BY <2>1, LenProperties
  <2>3. QED  BY <2>1, <2>2
<1> HIDE DEF r
<1>7. \A i, k \in DOMAIN q : i < k => q[i].left <= q[k].left  BY DEF QueueOK
<1>8. \A i, k \in DOMAIN q : q[i].cb = q[k].cb => i = k  BY DEF QueueOK
<1>9. ASSUME NEW i \in DOMAIN r, NEW k \in DOMAIN r, i < k
      PROVE  r[i].left <= r[k].left
  <2>1. CASE i < p /\ k < p  BY <1>1, <1>4, <1>6, <1>7, <1>9, <2>1
  <2>2. CASE i < p /\ k = p
    <3>1. i \in 1 .. p - 1  BY <1>1, <1>4, <1>6, <2>2
    <3>2. QED  BY <1>4, <1>6, <2>2, <3>1
  <2>3. CASE i < p /\ k > p
    <3>1. i \in DOMAIN q /\ k - 1 \in DOMAIN q /\ i < k - 1  BY <1>1, <1>4, <1>6, <2>3
    <3>2. r[i] = q[i] /\ r[k] = q[k - 1]  BY <1>1, <1>4, <1>6, <2>3
    <3>3. QED  BY <1>7, <3>1, <3>2
  <2>4. CASE i = p
    <3>1. p \in DOMAIN q /\ k - 1 \in DOMAIN q /\ (p = k - 1 \/ p < k - 1)
      BY <1>1, <1>4, <1>6, <1>9, <2>4
    <3>2. r[i] = e /\ r[k] = q[k - 1]  BY <1>1, <1>4, <1>6, <1>9, <2>4
    <3>3. e.left < q[p].left /\ q[p].left \in Nat /\ q[k - 1].left \in Nat  BY <1>1, <1>4, <3>1
    <3>4. q[p].left <= q[k - 1].left  BY <1>7, <3>1, <3>3
    <3>5. QED  BY <1>2, <3>2, <3>3, <3>4
  <2>5. CASE i > p
    <3>1. i - 1 \in DOMAIN q /\ k - 1 \in DOMAIN q /\ i - 1 < k - 1  BY <1>1, <1>4, <1>6, <1>9, <2>5
    <3>2. r[i] = q[i - 1] /\ r[k] = q[k - 1]  BY <1>1, <1>4, <1>6, <1>9, <2>5
    <3>3. QED  BY <1>7, <3>1, <3>2
  <2>6. QED  BY <1>1, <1>4, <1>6, <2>1, <2>2, <2>3, <2>4, <2>5
<1>10. ASSUME NEW i \in DOMAIN r, NEW k \in DOMAIN r, r[i].cb = r[k].cb
       PROVE  i = k
  <2> DEFINE At(x) == IF x < p THEN x ELSE x - 1
  <2>1. \A x \in DOMAIN r : x # p => At(x) \in DOMAIN q /\ r[x] = q[At(x)]
    BY <1>1, <1>4, <1>6
  <2>2. r[p] = e  BY <1>1, <1>4, <1>6
  <2>3. CASE i # p /\ k # p
    <3>1. At(i) = At(k)  
      <4> HIDE DEF At
      <4>1. QED  BY <1>8, <1>10, <2>1, <2>3
    <3>2. QED  BY <1>1, <1>4, <1>6, <2>3, <3>1
  <2>4. CASE i = p \/ k = p
    <3> HIDE DEF At
    <3>1. QED  BY <1>1, <1>10, <2>1, <2>2, <2>4
  <2>5. QED  BY <2>3, <2>4
<1>11. Entered(r) = Entered(q) \cup {e}
  <2>1. ASSUME NEW i \in DOMAIN r PROVE r[i] \in Entered(q) \cup {e}
    <3>1. CASE i = p  BY <1>6, <3>1
    <3>2. CASE i < p
      <4>1. i \in DOMAIN q /\ r[i] = q[i]  BY <1>1, <1>4, <1>6, <3>2
      <4>2. QED  BY <4>1 DEF Entered
    <3>3. CASE i > p
      <4>1. i - 1 \in DOMAIN q /\ r[i] = q[i - 1]  BY <1>1, <1>4, <1>6, <3>3
      <4>2. QED  BY <4>1 DEF Entered
    <3>4. QED  BY <1>1, <1>4, <1>6, <3>1, <3>2, <3>3
  <2>2. ASSUME NEW i \in DOMAIN q PROVE q[i] \in Entered(r)
    <3>1. CASE i < p
      <4>1. i \in DOMAIN r /\ r[i] = q[i]  BY <1>1, <1>4, <1>6, <3>1
      <4>2. QED  BY <4>1 DEF Entered
    <3>2. CASE i >= p
      <4>1. i + 1 \in DOMAIN r /\ r[i + 1] = q[i]  BY <1>1, <1>4, <1>6, <3>2
      <4>2. QED  BY <4>1 DEF Entered
    <3>3. QED  BY <1>1, <1>4, <3>1, <3>2
  <2>3. e \in Entered(r)
    <3>1. p \in DOMAIN r /\ r[p] = e  BY <1>1, <1>4, <1>6
    <3>2. QED  BY <3>1 DEF Entered
  <2>4. QED  BY <2>1, <2>2, <2>3 DEF Entered
<1>12. QED  BY <1>5, <1>6, <1>9, <1>10, <1>11 DEF QueueOK

\* Some entries of a queue in their order are a queue.
LEMMA Picking ==
  ASSUME NEW q, QueueOK(q), NEW r \in Seq(QueueEntry), NEW at,
         \A i \in DOMAIN r : at[i] \in DOMAIN q /\ r[i] = q[at[i]],
         \A i, k \in DOMAIN r : i < k => at[i] < at[k]
  PROVE  QueueOK(r)
<1>1. \A i, k \in DOMAIN q : i < k => q[i].left <= q[k].left  BY DEF QueueOK
<1>2. \A i, k \in DOMAIN q : q[i].cb = q[k].cb => i = k  BY DEF QueueOK
<1>3. DOMAIN r \subseteq Nat /\ DOMAIN q \subseteq Nat
  <2>1. DOMAIN r = 1 .. Len(r) /\ Len(r) \in Nat  OBVIOUS
  <2>2. DOMAIN q = 1 .. Len(q) /\ Len(q) \in Nat  BY QueueTyped
  <2>3. QED  BY <2>1, <2>2
<1>4. ASSUME NEW i \in DOMAIN r, NEW k \in DOMAIN r, r[i].cb = r[k].cb
      PROVE  i = k
  <2>1. at[i] = at[k]  BY <1>2, <1>4
  <2>2. ~(i < k) /\ ~(k < i)  BY <1>3, <2>1
  <2>3. QED  BY <1>3, <2>2
<1>5. ASSUME NEW i \in DOMAIN r, NEW k \in DOMAIN r, i < k
      PROVE  r[i].left <= r[k].left
  BY <1>1, <1>5
<1>6. QED  BY <1>4, <1>5 DEF QueueOK

\* A callback taken out of the queue leaves the others in their order.
LEMMA TakingOut ==
  ASSUME NEW q, QueueOK(q), NEW p \in DOMAIN q
  PROVE  /\ QueueOK(RemoveAt(q, p))
         /\ Entered(RemoveAt(q, p)) = {e \in Entered(q) : e.cb # q[p].cb}
<1> DEFINE r == RemoveAt(q, p)
           At(i) == IF i < p THEN i ELSE i + 1
<1>1. /\ q \in Seq(QueueEntry) /\ Len(q) \in Nat /\ DOMAIN q = 1 .. Len(q) /\ p \in 1 .. Len(q)
  BY QueueTyped, SMTT(60)
<1>2. /\ r \in Seq(QueueEntry) /\ Len(r) = Len(q) - 1
      /\ \A i \in 1 .. Len(q) - 1 : r[i] = IF i < p THEN q[i] ELSE q[i + 1]
  BY <1>1, RemovedAt
<1> HIDE DEF r
<1>3. DOMAIN r = 1 .. Len(q) - 1  BY <1>1, <1>2, LenProperties
<1>4. \A i \in DOMAIN r : At(i) \in DOMAIN q /\ r[i] = q[At(i)] /\ At(i) # p
  BY <1>1, <1>2, <1>3
<1>5. \A i, k \in DOMAIN r : i < k => At(i) < At(k)  BY <1>1, <1>3
<1>6. \A k \in DOMAIN q : k # p => \E i \in DOMAIN r : At(i) = k
  <2>1. ASSUME NEW k \in DOMAIN q, k # p PROVE \E i \in DOMAIN r : At(i) = k
    <3>1. CASE k < p
      <4>1. k \in DOMAIN r /\ At(k) = k  BY <1>1, <1>3, <3>1
      <4>2. QED  BY <4>1
    <3>2. CASE k > p
      <4>1. k - 1 \in DOMAIN r /\ At(k - 1) = k  BY <1>1, <1>3, <3>2
      <4>2. QED  BY <4>1
    <3>3. QED  BY <1>1, <2>1, <3>1, <3>2
  <2>2. QED  BY <2>1
<1>7. QueueOK(r)
  <2> DEFINE at == [i \in DOMAIN r |-> At(i)]
  <2>1. \A i \in DOMAIN r : at[i] = At(i)  OBVIOUS
  <2> HIDE DEF at, At
  <2>2. \A i \in DOMAIN r : at[i] \in DOMAIN q /\ r[i] = q[at[i]]  BY <1>4, <2>1
  <2>3. \A i, k \in DOMAIN r : i < k => at[i] < at[k]  BY <1>5, <2>1
  <2>4. QED  BY <1>2, <2>2, <2>3, Picking, ZenonT(60)
<1> HIDE DEF At
<1>8. \A i, k \in DOMAIN q : q[i].cb = q[k].cb => i = k  BY DEF QueueOK
<1>9. Entered(r) = {e \in Entered(q) : e.cb # q[p].cb}
  <2>1. ASSUME NEW i \in DOMAIN r PROVE r[i] \in Entered(q) /\ r[i].cb # q[p].cb
    BY <1>4, <1>8 DEF Entered
  <2>2. ASSUME NEW k \in DOMAIN q, q[k].cb # q[p].cb PROVE q[k] \in Entered(r)
    BY <1>4, <1>6, <2>2 DEF Entered
  <2>3. QED  BY <2>1, <2>2 DEF Entered
<1>10. QED  BY <1>7, <1>9 DEF r

\* The ping or the timer is taken out, if it is there.
LEMMA Removing ==
  ASSUME NEW q, QueueOK(q), NEW cb
  PROVE  /\ QueueOK(Without(q, cb))
         /\ Entered(Without(q, cb)) = {e \in Entered(q) : e.cb # cb}
<1>1. CASE Positions(q, cb) = {}
  <2>1. \A i \in DOMAIN q : q[i].cb # cb  BY <1>1 DEF Positions
  <2>2. QED  BY <1>1, <2>1 DEF Without, Entered
<1>2. CASE Positions(q, cb) # {}
  <2> DEFINE p == CHOOSE i \in Positions(q, cb) : TRUE
  <2>1. p \in Positions(q, cb)  BY <1>2
  <2>2. Without(q, cb) = RemoveAt(q, p)  BY <1>2 DEF Without
  <2> HIDE DEF p
  <2>3. p \in DOMAIN q /\ q[p].cb = cb  BY <2>1 DEF Positions
  <2>4. QED  BY <2>2, <2>3, TakingOut
<1>3. QED  BY <1>1, <1>2

\* rc_client_idle takes the head of the queue.
LEMMA Popping ==
  ASSUME NEW q, QueueOK(q), q # << >>
  PROVE  /\ QueueOK(Tail(q)) /\ Head(q) \in Entered(q)
         /\ Entered(Tail(q)) = {e \in Entered(q) : e.cb # Head(q).cb}
<1> DEFINE r == Tail(q)
           At(i) == i + 1
<1>1. q \in Seq(QueueEntry) /\ Len(q) \in Nat /\ DOMAIN q = 1 .. Len(q)  BY QueueTyped
<1>2. /\ r \in Seq(QueueEntry) /\ DOMAIN r = 1 .. Len(q) - 1 /\ Len(q) >= 1 /\ Head(q) = q[1]
      /\ \A i \in 1 .. Len(q) - 1 : r[i] = q[i + 1]
  <2>1. Len(q) # 0  BY <1>1, EmptySeq
  <2>2. /\ r \in Seq(QueueEntry) /\ Len(r) = Len(q) - 1 /\ Head(q) = q[1]
        /\ \A i \in 1 .. Len(r) : r[i] = q[i + 1]
    BY <1>1, HeadTailProperties
  <2> HIDE DEF r
  <2>3. DOMAIN r = 1 .. Len(r)  BY <2>2, LenProperties
  <2>4. QED  BY <1>1, <2>1, <2>2, <2>3
<1> HIDE DEF r
<1>3. \A i \in DOMAIN r : At(i) \in DOMAIN q /\ r[i] = q[At(i)] /\ At(i) # 1  BY <1>1, <1>2
<1>4. \A i, k \in DOMAIN r : i < k => At(i) < At(k)  BY <1>1, <1>2
<1>5. \A k \in DOMAIN q : k # 1 => k - 1 \in DOMAIN r /\ At(k - 1) = k  BY <1>1, <1>2
<1>6. QueueOK(r)
  <2> DEFINE at == [i \in DOMAIN r |-> At(i)]
  <2>1. \A i \in DOMAIN r : at[i] = At(i)  OBVIOUS
  <2> HIDE DEF at, At
  <2>2. \A i \in DOMAIN r : at[i] \in DOMAIN q /\ r[i] = q[at[i]]  BY <1>3, <2>1
  <2>3. \A i, k \in DOMAIN r : i < k => at[i] < at[k]  BY <1>4, <2>1
  <2>4. QED  BY <1>2, <2>2, <2>3, Picking, ZenonT(60)
<1> HIDE DEF At
<1>7. \A i, k \in DOMAIN q : q[i].cb = q[k].cb => i = k  BY DEF QueueOK
<1>8. 1 \in DOMAIN q  BY <1>1, <1>2
<1>9. Entered(r) = {e \in Entered(q) : e.cb # q[1].cb}
  <2>1. ASSUME NEW i \in DOMAIN r PROVE r[i] \in Entered(q) /\ r[i].cb # q[1].cb
    BY <1>3, <1>7, <1>8 DEF Entered
  <2>2. ASSUME NEW k \in DOMAIN q, q[k].cb # q[1].cb PROVE q[k] \in Entered(r)
    BY <1>3, <1>5, <2>2 DEF Entered
  <2>3. QED  BY <2>1, <2>2 DEF Entered
<1>10. q[1] \in Entered(q)  BY <1>8 DEF Entered
<1>11. QED  BY <1>2, <1>6, <1>9, <1>10 DEF r

\* An entry of a queue is put off within its place, or stays: the rest is unchanged.
LEMMA PuttingOff ==
  ASSUME NEW q, QueueOK(q), NEW p \in DOMAIN q, NEW left \in Nat, q[p].left <= left,
         p = Len(q) \/ left < q[p + 1].left,
         NEW r, r = [k \in DOMAIN q |-> IF k = p THEN [cb |-> q[p].cb, left |-> left] ELSE q[k]]
  PROVE  /\ QueueOK(r)
         /\ Entered(r) = {e \in Entered(q) : e.cb # q[p].cb} \cup {[cb |-> q[p].cb, left |-> left]}
<1> DEFINE x == [cb |-> q[p].cb, left |-> left]
<1>1. /\ q \in Seq(QueueEntry) /\ Len(q) \in Nat /\ DOMAIN q = 1 .. Len(q)
      /\ \A i \in 1 .. Len(q) : q[i] \in QueueEntry /\ q[i].left \in Nat /\ q[i].cb \in Callbacks
  BY QueueTyped
<1>2. \A i, k \in DOMAIN q : i < k => q[i].left <= q[k].left  BY DEF QueueOK
<1>3. \A i, k \in DOMAIN q : q[i].cb = q[k].cb => i = k  BY DEF QueueOK
<1>4. x \in QueueEntry /\ x.left = left /\ x.cb = q[p].cb  BY <1>1 DEF QueueEntry
<1>5. DOMAIN r = DOMAIN q /\ \A k \in DOMAIN q : r[k] = IF k = p THEN x ELSE q[k]  OBVIOUS
<1> HIDE DEF x
<1>6. r \in Seq(QueueEntry)
  <2>1. \A k \in DOMAIN q : r[k] \in QueueEntry  BY <1>1, <1>4, <1>5
  <2>2. r \in [1 .. Len(q) -> QueueEntry]  BY <1>1, <2>1
  <2>3. QED  BY <1>1, <2>2, IsASeq
<1>7. ASSUME NEW i \in DOMAIN r, NEW k \in DOMAIN r, i < k
      PROVE  r[i].left <= r[k].left
  <2>1. i \in DOMAIN q /\ k \in DOMAIN q /\ i \in Nat /\ k \in Nat  BY <1>1, <1>5
  <2>2. q[i].left <= q[k].left /\ q[i].left \in Nat /\ q[k].left \in Nat  BY <1>1, <1>2, <1>7, <2>1
  <2>3. CASE i # p /\ k # p  BY <1>5, <2>1, <2>2, <2>3
  <2>4. CASE k = p
    <3>1. r[i] = q[i] /\ r[k] = x  BY <1>5, <1>7, <2>1, <2>4
    <3>2. QED  BY <1>1, <1>4, <2>2, <2>4, <3>1
  <2>5. CASE i = p
    <3>1. r[i] = x /\ r[k] = q[k]  BY <1>5, <1>7, <2>1, <2>5
    <3>2. p + 1 \in DOMAIN q /\ (p + 1 = k \/ p + 1 < k) /\ p # Len(q)
      BY <1>1, <1>7, <2>1, <2>5
    <3>3. q[p + 1].left <= q[k].left /\ q[p + 1].left \in Nat  BY <1>1, <1>2, <2>1, <2>2, <3>2
    <3>4. QED  BY <1>4, <2>2, <3>1, <3>2, <3>3
  <2>6. QED  BY <2>3, <2>4, <2>5
<1>8. \A k \in DOMAIN q : r[k].cb = q[k].cb  BY <1>4, <1>5
<1>9. QueueOK(r)  BY <1>3, <1>5, <1>6, <1>7, <1>8 DEF QueueOK
<1>10. Entered(r) = {e \in Entered(q) : e.cb # q[p].cb} \cup {x}
  <2>1. ASSUME NEW k \in DOMAIN q, k # p PROVE r[k] = q[k] /\ q[k].cb # q[p].cb
    BY <1>3, <1>5, <2>1
  <2>2. r[p] = x  BY <1>5
  <2>3. QED  BY <1>5, <2>1, <2>2 DEF Entered
<1>11. QED  BY <1>9, <1>10 DEF x

\* rc_client_reschedule_callback puts a callback off, or schedules it.
LEMMA Rescheduling ==
  ASSUME NEW q, QueueOK(q), NEW cb \in Callbacks, NEW left \in Nat,
         \A e \in Entered(q) : e.cb = cb => e.left <= left
  PROVE  /\ QueueOK(Reschedule(q, cb, left))
         /\ Entered(Reschedule(q, cb, left)) =
              {e \in Entered(q) : e.cb # cb} \cup {[cb |-> cb, left |-> left]}
<1> DEFINE x == [cb |-> cb, left |-> left]
           r == [i \in DOMAIN q |-> IF q[i].cb = cb THEN [q[i] EXCEPT !.left = left] ELSE q[i]]
           stays == \E i \in Positions(q, cb) : i = Len(q) \/ left < q[i + 1].left
<1>1. /\ \A i \in DOMAIN q : q[i] \in QueueEntry
      /\ \A i, k \in DOMAIN q : q[i].cb = q[k].cb => i = k
  BY QueueTyped DEF QueueOK
<1>2. CASE stays
  <2>1. PICK p \in Positions(q, cb) : p = Len(q) \/ left < q[p + 1].left  BY <1>2
  <2>2. p \in DOMAIN q /\ q[p].cb = cb  BY DEF Positions
  <2>3. [q[p] EXCEPT !.left = left] = [cb |-> q[p].cb, left |-> left]
    BY <1>1, <2>2 DEF QueueEntry
  <2>4. r = [k \in DOMAIN q |-> IF k = p THEN [cb |-> q[p].cb, left |-> left] ELSE q[k]]
    <3>1. \A k \in DOMAIN q : q[k].cb = cb <=> k = p  BY <1>1, <2>2
    <3>2. QED  BY <2>3, <3>1
  <2>5. q[p].left <= left  BY <2>2 DEF Entered
  <2>6. Reschedule(q, cb, left) = r  BY <1>2 DEF Reschedule
  <2> HIDE DEF r
  <2>7. QueueOK(r) /\ Entered(r) = {e \in Entered(q) : e.cb # q[p].cb} \cup {[cb |-> q[p].cb, left |-> left]}
    BY <2>1, <2>2, <2>4, <2>5, PuttingOff
  <2>8. QED  BY <2>2, <2>6, <2>7
<1>3. CASE ~stays
  <2>1. Reschedule(q, cb, left) = Insert(Without(q, cb), x)  BY <1>3 DEF Reschedule
  <2>2. QueueOK(Without(q, cb)) /\ Entered(Without(q, cb)) = {e \in Entered(q) : e.cb # cb}
    BY Removing
  <2>3. x \in QueueEntry /\ x.cb = cb  BY DEF QueueEntry
  <2> HIDE DEF x
  <2>4. ~IsQueued(Without(q, cb), x.cb)  BY <2>2, <2>3 DEF IsQueued
  <2>5. /\ QueueOK(Insert(Without(q, cb), x))
        /\ Entered(Insert(Without(q, cb), x)) = Entered(Without(q, cb)) \cup {x}
    BY <2>2, <2>3, <2>4, Inserting
  <2>6. QED  BY <2>1, <2>2, <2>5 DEF x
<1>4. QED  BY <1>2, <1>3

\* A second goes by for every entry.
OneSecond(left) == IF left = 0 THEN 0 ELSE left - 1

LEMMA Passing ==
  ASSUME NEW q, QueueOK(q), NEW r,
         r = [i \in DOMAIN q |-> [q[i] EXCEPT !.left = IF @ = 0 THEN 0 ELSE @ - 1]]
  PROVE  /\ QueueOK(r)
         /\ \A e \in Entered(r) : \E f \in Entered(q) :
               e.cb = f.cb /\ f.left \in Nat /\ e.left = OneSecond(f.left)
         /\ \A f \in Entered(q) : \E e \in Entered(r) : e.cb = f.cb
<1>1. /\ q \in Seq(QueueEntry) /\ Len(q) \in Nat /\ DOMAIN q = 1 .. Len(q)
      /\ \A i \in 1 .. Len(q) : q[i] \in QueueEntry /\ q[i].left \in Nat /\ q[i].cb \in Callbacks
  BY QueueTyped
<1>2. \A i, k \in DOMAIN q : i < k => q[i].left <= q[k].left  BY DEF QueueOK
<1>3. \A i, k \in DOMAIN q : q[i].cb = q[k].cb => i = k  BY DEF QueueOK
<1>4. /\ DOMAIN r = DOMAIN q
      /\ \A i \in DOMAIN q : /\ r[i] \in QueueEntry /\ r[i].cb = q[i].cb
                             /\ r[i].left = OneSecond(q[i].left)
  <2>1. ASSUME NEW i \in DOMAIN q
        PROVE  /\ r[i] \in QueueEntry /\ r[i].cb = q[i].cb
               /\ r[i].left = OneSecond(q[i].left)
    <3>1. r[i] = [q[i] EXCEPT !.left = OneSecond(q[i].left)]  BY DEF OneSecond
    <3>2. OneSecond(q[i].left) \in Nat  BY <1>1 DEF OneSecond
    <3>3. q[i] \in QueueEntry  BY <1>1
    <3>4. QED  BY <3>1, <3>2, <3>3 DEF QueueEntry
  <2>2. QED  BY <2>1
<1>5. r \in Seq(QueueEntry)
  <2>1. r \in [1 .. Len(q) -> QueueEntry]  BY <1>1, <1>4
  <2>2. QED  BY <1>1, <2>1, IsASeq
<1>6. \A m, n \in Nat : m <= n => OneSecond(m) <= OneSecond(n)  BY DEF OneSecond
<1>7. ASSUME NEW i \in DOMAIN r, NEW k \in DOMAIN r, i < k
      PROVE  r[i].left <= r[k].left
  BY <1>1, <1>2, <1>4, <1>6, <1>7, SMTT(60)
<1>8. \A i, k \in DOMAIN r : r[i].cb = r[k].cb => i = k
  <2>1. ASSUME NEW i \in DOMAIN r, NEW k \in DOMAIN r, r[i].cb = r[k].cb PROVE i = k
    <3>1. r[i].cb = q[i].cb /\ r[k].cb = q[k].cb /\ i \in DOMAIN q /\ k \in DOMAIN q  BY <1>4
    <3>2. QED  BY <1>3, <2>1, <3>1
  <2>2. QED  BY <2>1
<1>9. QueueOK(r)  BY <1>5, <1>7, <1>8 DEF QueueOK
<1>10. \A e \in Entered(r) : \E f \in Entered(q) :
               e.cb = f.cb /\ f.left \in Nat /\ e.left = OneSecond(f.left)
  <2>1. ASSUME NEW e \in Entered(r)
        PROVE  \E f \in Entered(q) :
                  e.cb = f.cb /\ f.left \in Nat /\ e.left = OneSecond(f.left)
    <3>1. PICK i \in DOMAIN q : e = r[i]  BY <1>4 DEF Entered
    <3>2. q[i] \in Entered(q) /\ q[i].left \in Nat  BY <1>1 DEF Entered
    <3>3. e.cb = q[i].cb /\ e.left = OneSecond(q[i].left)  BY <1>4, <3>1
    <3>4. QED  BY <3>2, <3>3
  <2>2. QED  BY <2>1
<1>11. \A f \in Entered(q) : \E e \in Entered(r) : e.cb = f.cb
  BY ZenonT(60), <1>4 DEF Entered
<1>12. QED  BY <1>9, <1>10, <1>11

-----------------------------------------------------------------------------
(* Where each job is: the type and the queue, step by step.                 *)

\* The documented delays are what the shifts of the code come to.
LEMMA DelayIs ==
  ASSUME NEW n \in Nat, n >= 2
  PROVE  Delay(n) \in Nat /\ Delay(n) = Schedule[IF n > 8 THEN 8 ELSE n - 1]
<1>1. CASE n > 8  BY <1>1 DEF Delay, Schedule
<1>2. CASE n = 2
  <2>1. 2 ^ (n - 2) = 1  BY <1>2
  <2>2. QED  BY <1>2, <2>1 DEF Delay, Schedule
<1>3. CASE n = 3
  <2>1. 2 ^ (n - 2) = 2  BY <1>3
  <2>2. QED  BY <1>3, <2>1 DEF Delay, Schedule
<1>4. CASE n = 4
  <2>1. 2 ^ (n - 2) = 4  BY <1>4
  <2>2. QED  BY <1>4, <2>1 DEF Delay, Schedule
<1>5. CASE n = 5
  <2>1. 2 ^ (n - 2) = 8  BY <1>5
  <2>2. QED  BY <1>5, <2>1 DEF Delay, Schedule
<1>6. CASE n = 6
  <2>1. 2 ^ (n - 2) = 16  BY <1>6
  <2>2. QED  BY <1>6, <2>1 DEF Delay, Schedule
<1>7. CASE n = 7
  <2>1. 2 ^ (n - 2) = 32  BY <1>7
  <2>2. QED  BY <1>7, <2>1 DEF Delay, Schedule
<1>8. CASE n = 8
  <2>1. 2 ^ (n - 2) = 64  BY <1>8
  <2>2. QED  BY <1>8, <2>1 DEF Delay, Schedule
<1>9. QED  BY <1>1, <1>2, <1>3, <1>4, <1>5, <1>6, <1>7, <1>8

\* No job is one of the two other callbacks.
LEMMA JobNames ==
  /\ "ping" \notin Jobs /\ "hide" \notin Jobs
  /\ Callbacks = Jobs \cup {"ping", "hide"}
  BY UnlocksAssumption DEF Callbacks

\* A queue has a callback once or not at all.
LEMMA CountOf ==
  ASSUME NEW q, QueueOK(q), NEW cb
  PROVE  Cardinality(Positions(q, cb)) = IF IsQueued(q, cb) THEN 1 ELSE 0
<1>1. CASE IsQueued(q, cb)
  <2>1. PICK i \in DOMAIN q : q[i].cb = cb  BY <1>1 DEF IsQueued, Entered
  <2>2. Positions(q, cb) = {i}  BY <2>1 DEF QueueOK, Positions
  <2>3. QED  BY <1>1, <2>2, FS_Singleton
<1>2. CASE ~IsQueued(q, cb)
  <2>1. Positions(q, cb) = {}  BY <1>2 DEF IsQueued, Entered, Positions
  <2>2. QED  BY <1>2, <2>1, FS_EmptySet
<1>3. QED  BY <1>1, <1>2

\* What SentInv is for: the types, the order, and that each job is in one place.
LEMMA SentImplies == SentInv => TypeOK /\ QueueSorted /\ OnePlace
<1> SUFFICES ASSUME SentInv PROVE TypeOK /\ QueueSorted /\ OnePlace  OBVIOUS
<1>0. /\ QueueOK(queue)
      /\ \A j \in Jobs : IsQueued(queue, j) <=> st[j] = "queued"
      /\ (IsQueued(queue, "ping") <=> loaded) /\ (IsQueued(queue, "hide") <=> hideArmed)
  BY DEF SentInv, WaitsOK
<1>1. QueueSorted  BY <1>0 DEF QueueOK, QueueSorted
<1>2. \A cb : Cardinality(Positions(queue, cb)) = IF IsQueued(queue, cb) THEN 1 ELSE 0
  BY <1>0, CountOf
<1>3. ASSUME NEW j \in Jobs
      PROVE  Cardinality(Requests(j)) + Cardinality(Responses(j)) = IF st[j] = "flight" THEN 1 ELSE 0
  <2>1. CASE Has(wire, j)
    <3>1. PICK i \in DOMAIN wire : wire[i].job = j  BY <2>1 DEF Has
    <3>2. Requests(j) = {i}  BY <3>1 DEF SentInv, NetOK, Once, Requests
    <3>3. Responses(j) = {} /\ st[j] = "flight"  BY <2>1 DEF SentInv, NetOK, Responses, Has
    <3>4. Cardinality(Requests(j)) = 1 /\ Cardinality(Responses(j)) = 0
      BY <3>2, <3>3, FS_Singleton, FS_EmptySet
    <3>5. QED  BY <3>3, <3>4
  <2>2. CASE Has(answers, j)
    <3>1. PICK i \in DOMAIN answers : answers[i].job = j  BY <2>2 DEF Has
    <3>2. Responses(j) = {i}  BY <3>1 DEF SentInv, NetOK, Once, Responses
    <3>3. Requests(j) = {} /\ st[j] = "flight"  BY <2>2 DEF SentInv, NetOK, Requests, Has
    <3>4. Cardinality(Requests(j)) = 0 /\ Cardinality(Responses(j)) = 1
      BY <3>2, <3>3, FS_Singleton, FS_EmptySet
    <3>5. QED  BY <3>3, <3>4
  <2>3. CASE ~Has(wire, j) /\ ~Has(answers, j)
    <3>1. Requests(j) = {} /\ Responses(j) = {} /\ st[j] # "flight"
      BY <2>3 DEF SentInv, NetOK, Requests, Responses, Has
    <3>2. Cardinality(Requests(j)) = 0 /\ Cardinality(Responses(j)) = 0  BY <3>1, FS_EmptySet
    <3>3. QED  BY <3>1, <3>2
  <2>4. QED  BY <2>1, <2>2, <2>3
<1>4. OnePlace  BY <1>0, <1>2, <1>3 DEF OnePlace
<1>5. TypeOK
  <2>1. queue \in Seq([cb : Callbacks, left : Nat])  BY <1>0 DEF QueueOK, QueueEntry
  <2>2. /\ wire \in Seq([job : Jobs, account : Accounts])
        /\ answers \in Seq([job : Jobs, outcome : Outcomes, score : Nat, complete : BOOLEAN])
    BY DEF SentInv, NetOK, Requested, Response
  <2>3. /\ st \in [Jobs -> {"fresh", "flight", "queued", "done", "dropped", "lost"}]
        /\ retries \in [Jobs -> Nat] /\ waited \in [Jobs -> Nat]
    BY DEF SentInv, WaitsOK, JobStates
  <2>4. QED  BY <2>1, <2>2, <2>3 DEF SentInv, RestTyped, TypeOK
<1>6. QED  BY <1>1, <1>4, <1>5

\* A job that does not wait changes its state and goes on not waiting.
LEMMA NotWaiting ==
  ASSUME NEW q, NEW s, NEW l, NEW h, NEW r, NEW w, WaitsOK(q, s, l, h, r, w),
         NEW j \in Jobs, s[j] # "queued", NEW x \in JobStates \ {"queued"}, NEW n \in Nat
  PROVE  WaitsOK(q, [s EXCEPT ![j] = x], l, h, [r EXCEPT ![j] = n], w)
<1> DEFINE s2 == [s EXCEPT ![j] = x]
           r2 == [r EXCEPT ![j] = n]
<1>1. s2 \in [Jobs -> JobStates] /\ \A k \in Jobs : s2[k] = IF k = j THEN x ELSE s[k]
  BY DEF WaitsOK
<1>2. r2 \in [Jobs -> Nat] /\ \A k \in Jobs : r2[k] = IF k = j THEN n ELSE r[k]
  BY DEF WaitsOK
<1> HIDE DEF s2, r2
<1>3. \A k \in Jobs : IsQueued(q, k) <=> s2[k] = "queued"  BY <1>1 DEF WaitsOK
<1>4. \A e \in Entered(q) : e.cb \in Jobs => e.cb # j  BY DEF WaitsOK, IsQueued
<1>5. \A e \in Entered(q) : e.cb \in Jobs => r2[e.cb] >= 2 /\ w[e.cb] + e.left = Delay(r2[e.cb])
  BY <1>2, <1>4 DEF WaitsOK
<1>6. WaitsOK(q, s2, l, h, r2, w)  BY <1>1, <1>2, <1>3, <1>5 DEF WaitsOK
<1>7. QED  BY <1>6 DEF s2, r2

\* A job that failed again is scheduled.
LEMMA Scheduling ==
  ASSUME NEW q, NEW s, NEW l, NEW h, NEW r, NEW w, WaitsOK(q, s, l, h, r, w),
         NEW j \in Jobs, s[j] # "queued", r[j] # 0
  PROVE  WaitsOK(Insert(q, [cb |-> j, left |-> Delay(r[j] + 1)]), [s EXCEPT ![j] = "queued"], l, h,
                 [r EXCEPT ![j] = @ + 1], [w EXCEPT ![j] = 0])
<1> DEFINE n == r[j] + 1
           e == [cb |-> j, left |-> Delay(n)]
           s2 == [s EXCEPT ![j] = "queued"]
           r2 == [r EXCEPT ![j] = n]
           w2 == [w EXCEPT ![j] = 0]
           p == Insert(q, e)
<1>1. n \in Nat /\ n >= 2 /\ Delay(n) \in Nat
  <2>1. r[j] \in Nat /\ r[j] # 0  BY DEF WaitsOK
  <2>2. n \in Nat /\ n >= 2  BY <2>1
  <2>3. QED  BY <2>2, DelayIs
<1> HIDE DEF n
<1>2. e \in QueueEntry /\ e.cb = j /\ e.left = Delay(n)  BY <1>1, JobNames DEF QueueEntry
<1> HIDE DEF e
<1>3. ~IsQueued(q, e.cb)  BY <1>2 DEF WaitsOK
<1>4. QueueOK(p) /\ Entered(p) = Entered(q) \cup {e}  BY <1>2, <1>3, Inserting DEF WaitsOK
<1> HIDE DEF p
<1>5. \A x : IsQueued(p, x) <=> IsQueued(q, x) \/ x = j  BY <1>2, <1>4 DEF IsQueued
<1>6. s2 \in [Jobs -> JobStates] /\ \A k \in Jobs : s2[k] = IF k = j THEN "queued" ELSE s[k]
  BY DEF WaitsOK, JobStates
<1>7. r2 \in [Jobs -> Nat] /\ \A k \in Jobs : r2[k] = IF k = j THEN n ELSE r[k]
  BY <1>1 DEF WaitsOK
<1>8. w2 \in [Jobs -> Nat] /\ \A k \in Jobs : w2[k] = IF k = j THEN 0 ELSE w[k]
  BY DEF WaitsOK
<1>9. r2 = [r EXCEPT ![j] = @ + 1]  BY DEF n
<1> HIDE DEF s2, r2, w2
<1>10. \A k \in Jobs : IsQueued(p, k) <=> s2[k] = "queued"  BY <1>5, <1>6 DEF WaitsOK
<1>11. (IsQueued(p, "ping") <=> l) /\ (IsQueued(p, "hide") <=> h)  BY <1>5, JobNames DEF WaitsOK
<1>12. \A x \in Entered(q) : x.cb # j  BY <1>2, <1>3 DEF IsQueued
<1>13. \A x \in Entered(p) : x.cb = "hide" => x.left <= HideAfter
  BY <1>2, <1>4, JobNames DEF WaitsOK
<1>14. ASSUME NEW x \in Entered(p), x.cb \in Jobs
       PROVE  r2[x.cb] >= 2 /\ w2[x.cb] + x.left = Delay(r2[x.cb])
  <2>1. CASE x = e
    <3>1. r2[j] = n /\ w2[j] = 0  BY <1>7, <1>8
    <3>2. QED  BY <1>1, <1>2, <2>1, <3>1
  <2>2. CASE x \in Entered(q)
    <3>1. x.cb # j /\ r2[x.cb] = r[x.cb] /\ w2[x.cb] = w[x.cb]  BY <1>7, <1>8, <1>12, <1>14, <2>2
    <3>2. QED  BY <1>14, <2>2, <3>1 DEF WaitsOK
  <2>3. QED  BY <1>4, <2>1, <2>2
<1>15. WaitsOK(p, s2, l, h, r2, w2)
  BY <1>4, <1>6, <1>7, <1>8, <1>10, <1>11, <1>13, <1>14 DEF WaitsOK
<1>16. QED  BY <1>9, <1>15 DEF s2, w2, p, e, n

\* Of a queue without one callback nothing else is lost: a job,
LEMMA WithoutJob ==
  ASSUME NEW q, NEW s, NEW l, NEW h, NEW r, NEW w, WaitsOK(q, s, l, h, r, w),
         NEW j \in Jobs, NEW p, QueueOK(p), Entered(p) = {e \in Entered(q) : e.cb # j},
         NEW x \in JobStates \ {"queued"}
  PROVE  WaitsOK(p, [s EXCEPT ![j] = x], l, h, r, w)
<1> DEFINE s2 == [s EXCEPT ![j] = x]
<1>1. \A y : IsQueued(p, y) <=> IsQueued(q, y) /\ y # j  BY DEF IsQueued
<1>2. s2 \in [Jobs -> JobStates] /\ \A k \in Jobs : s2[k] = IF k = j THEN x ELSE s[k]
  BY DEF WaitsOK
<1> HIDE DEF s2
<1>3. \A k \in Jobs : IsQueued(p, k) <=> s2[k] = "queued"  BY <1>1, <1>2 DEF WaitsOK
<1>4. (IsQueued(p, "ping") <=> l) /\ (IsQueued(p, "hide") <=> h)
  BY <1>1, JobNames DEF WaitsOK
<1>5. Entered(p) \subseteq Entered(q)  OBVIOUS
<1>6. WaitsOK(p, s2, l, h, r, w)  BY <1>2, <1>3, <1>4, <1>5 DEF WaitsOK
<1>7. QED  BY <1>6 DEF s2

\* the ping,
LEMMA WithoutPing ==
  ASSUME NEW q, NEW s, NEW l, NEW h, NEW r, NEW w, WaitsOK(q, s, l, h, r, w),
         NEW p, QueueOK(p), Entered(p) = {e \in Entered(q) : e.cb # "ping"}
  PROVE  WaitsOK(p, s, FALSE, h, r, w)
<1>1. \A y : IsQueued(p, y) <=> IsQueued(q, y) /\ y # "ping"  BY DEF IsQueued
<1>2. \A k \in Jobs : IsQueued(p, k) <=> s[k] = "queued"  BY <1>1, JobNames DEF WaitsOK
<1>3. ~IsQueued(p, "ping") /\ (IsQueued(p, "hide") <=> h)  BY <1>1 DEF WaitsOK
<1>4. Entered(p) \subseteq Entered(q)  OBVIOUS
<1>5. QED  BY <1>2, <1>3, <1>4 DEF WaitsOK

\* or the timer.
LEMMA WithoutTimer ==
  ASSUME NEW q, NEW s, NEW l, NEW h, NEW r, NEW w, WaitsOK(q, s, l, h, r, w),
         NEW p, QueueOK(p), Entered(p) = {e \in Entered(q) : e.cb # "hide"}
  PROVE  WaitsOK(p, s, l, FALSE, r, w)
<1>1. \A y : IsQueued(p, y) <=> IsQueued(q, y) /\ y # "hide"  BY DEF IsQueued
<1>2. \A k \in Jobs : IsQueued(p, k) <=> s[k] = "queued"  BY <1>1, JobNames DEF WaitsOK
<1>3. ~IsQueued(p, "hide") /\ (IsQueued(p, "ping") <=> l)  BY <1>1 DEF WaitsOK
<1>4. Entered(p) \subseteq Entered(q)  OBVIOUS
<1>5. QED  BY <1>2, <1>3, <1>4 DEF WaitsOK

\* The timer is taken out while it is there.
LEMMA Unscheduling ==
  ASSUME NEW q, NEW s, NEW l, NEW h, NEW r, NEW w, WaitsOK(q, s, l, h, r, w), h
  PROVE  /\ WaitsOK(Unschedule(q, "hide"), s, l, FALSE, r, w)
         /\ Entered(Unschedule(q, "hide")) = {e \in Entered(q) : e.cb # "hide"}
<1> DEFINE p == Without(q, "hide")
<1>1. IsQueued(q, "hide")  BY DEF WaitsOK
<1>2. Unschedule(q, "hide") = p  BY <1>1 DEF Unschedule, IsQueued, Entered, Positions
<1>3. QueueOK(p) /\ Entered(p) = {e \in Entered(q) : e.cb # "hide"}  BY Removing DEF WaitsOK
<1> HIDE DEF p
<1>4. WaitsOK(p, s, l, FALSE, r, w)  BY <1>3, WithoutTimer
<1>5. QED  BY <1>2, <1>3, <1>4

\* The ping is scheduled.
LEMMA Pinging ==
  ASSUME NEW q, NEW s, NEW h, NEW r, NEW w, WaitsOK(q, s, FALSE, h, r, w), NEW n \in Nat
  PROVE  WaitsOK(Insert(q, [cb |-> "ping", left |-> n]), s, TRUE, h, r, w)
<1> DEFINE e == [cb |-> "ping", left |-> n]
           p == Insert(q, e)
<1>1. e \in QueueEntry /\ e.cb = "ping"  BY JobNames DEF QueueEntry
<1> HIDE DEF e
<1>2. ~IsQueued(q, e.cb)  BY <1>1 DEF WaitsOK
<1>3. QueueOK(p) /\ Entered(p) = Entered(q) \cup {e}  BY <1>1, <1>2, Inserting DEF WaitsOK
<1> HIDE DEF p
<1>4. \A x : IsQueued(p, x) <=> IsQueued(q, x) \/ x = "ping"  BY <1>1, <1>3 DEF IsQueued
<1>5. \A j \in Jobs : IsQueued(p, j) <=> s[j] = "queued"  BY <1>4, JobNames DEF WaitsOK
<1>6. IsQueued(p, "ping") /\ (IsQueued(p, "hide") <=> h)  BY <1>4 DEF WaitsOK
<1>7. \A x \in Entered(p) : x.cb = "hide" => x.left <= HideAfter  BY <1>1, <1>3 DEF WaitsOK
<1>8. \A x \in Entered(p) : x.cb \in Jobs => r[x.cb] >= 2 /\ w[x.cb] + x.left = Delay(r[x.cb])
  BY <1>1, <1>3, JobNames DEF WaitsOK
<1>9. WaitsOK(p, s, TRUE, h, r, w)  BY <1>3, <1>5, <1>6, <1>7, <1>8 DEF WaitsOK
<1>10. QED  BY <1>9 DEF p, e

\* The timer is started or put off.
LEMMA Timing ==
  ASSUME NEW q, NEW s, NEW l, NEW h, NEW r, NEW w, WaitsOK(q, s, l, h, r, w)
  PROVE  WaitsOK(Reschedule(q, "hide", HideAfter), s, l, TRUE, r, w)
<1> DEFINE e == [cb |-> "hide", left |-> HideAfter]
           p == Reschedule(q, "hide", HideAfter)
<1>1. HideAfter \in Nat /\ "hide" \in Callbacks  BY UnlocksAssumption, JobNames
<1>2. QueueOK(p) /\ Entered(p) = {x \in Entered(q) : x.cb # "hide"} \cup {e}
  BY <1>1, Rescheduling DEF WaitsOK
<1>3. e.cb = "hide" /\ e.left = HideAfter  OBVIOUS
<1> HIDE DEF p, e
<1>4. \A x : IsQueued(p, x) <=> IsQueued(q, x) \/ x = "hide"  BY <1>2, <1>3 DEF IsQueued
<1>5. \A j \in Jobs : IsQueued(p, j) <=> s[j] = "queued"  BY <1>4, JobNames DEF WaitsOK
<1>6. IsQueued(p, "hide") /\ (IsQueued(p, "ping") <=> l)  BY <1>4 DEF WaitsOK
<1>7. \A x \in Entered(p) : x.cb = "hide" => x.left <= HideAfter  BY <1>1, <1>2, <1>3
<1>8. \A x \in Entered(p) : x.cb \in Jobs => r[x.cb] >= 2 /\ w[x.cb] + x.left = Delay(r[x.cb])
  BY <1>2, <1>3, JobNames DEF WaitsOK
<1>9. WaitsOK(p, s, l, TRUE, r, w)  BY <1>2, <1>5, <1>6, <1>7, <1>8 DEF WaitsOK
<1>10. QED  BY <1>9 DEF p

\* A second goes by.
LEMMA Waiting ==
  ASSUME NEW q, NEW s, NEW l, NEW h, NEW r, NEW w, WaitsOK(q, s, l, h, r, w)
  PROVE  WaitsOK([i \in DOMAIN q |-> [q[i] EXCEPT !.left = IF @ = 0 THEN 0 ELSE @ - 1]], s, l, h, r,
                 [j \in Jobs |-> IF s[j] = "queued" /\ w[j] < Delay(r[j]) THEN w[j] + 1 ELSE w[j]])
<1> DEFINE p == [i \in DOMAIN q |-> [q[i] EXCEPT !.left = IF @ = 0 THEN 0 ELSE @ - 1]]
           w2 == [j \in Jobs |-> IF s[j] = "queued" /\ w[j] < Delay(r[j]) THEN w[j] + 1 ELSE w[j]]
<1>1. /\ QueueOK(p)
      /\ \A e \in Entered(p) : \E f \in Entered(q) :
            e.cb = f.cb /\ f.left \in Nat /\ e.left = OneSecond(f.left)
      /\ \A f \in Entered(q) : \E e \in Entered(p) : e.cb = f.cb
  BY Passing DEF WaitsOK
<1>2. /\ w2 \in [Jobs -> Nat]
      /\ \A j \in Jobs : w2[j] = IF s[j] = "queued" /\ w[j] < Delay(r[j]) THEN w[j] + 1 ELSE w[j]
  BY DEF WaitsOK
<1> HIDE DEF p, w2
<1>3. \A x : IsQueued(p, x) <=> IsQueued(q, x)  BY <1>1 DEF IsQueued
<1>4. ASSUME NEW e \in Entered(p)
      PROVE  /\ e.cb = "hide" => e.left <= HideAfter
             /\ e.cb \in Jobs => r[e.cb] >= 2 /\ w2[e.cb] + e.left = Delay(r[e.cb])
  <2>1. PICK f \in Entered(q) : e.cb = f.cb /\ f.left \in Nat /\ e.left = OneSecond(f.left)
    BY <1>1
  <2>2. CASE e.cb = "hide"
    <3>1. f.left <= HideAfter /\ HideAfter \in Nat  BY <2>1, <2>2, UnlocksAssumption DEF WaitsOK
    <3>2. e.left <= HideAfter  BY <2>1, <3>1 DEF OneSecond
    <3>3. QED  BY <2>2, <3>2, JobNames
  <2>3. CASE e.cb \in Jobs
    <3> DEFINE j == e.cb
    <3>1. r[j] >= 2 /\ w[j] + f.left = Delay(r[j]) /\ r[j] \in Nat /\ w[j] \in Nat
      BY <2>1, <2>3 DEF WaitsOK
    <3>2. s[j] = "queued"  BY <2>1, <2>3 DEF WaitsOK, IsQueued
    <3>3. Delay(r[j]) \in Nat  BY <3>1, DelayIs
    <3>4. w2[j] = IF w[j] < Delay(r[j]) THEN w[j] + 1 ELSE w[j]  BY <1>2, <2>3, <3>2
    <3>5. e.left = IF f.left = 0 THEN 0 ELSE f.left - 1  BY <2>1 DEF OneSecond
    <3> HIDE DEF j
    <3>6. w2[j] + e.left = Delay(r[j])  BY <2>1, <3>1, <3>3, <3>4, <3>5
    <3>7. QED  BY <2>3, <3>1, <3>6, JobNames DEF j
  <2>4. QED  BY <2>2, <2>3
<1>5. WaitsOK(p, s, l, h, r, w2)  BY <1>1, <1>2, <1>3, <1>4 DEF WaitsOK
<1>6. QED  BY <1>5 DEF p, w2

-----------------------------------------------------------------------------
(* Requests and answers, step by step.                                      *)

\* A sequence of records, each about one job.
LEMMA OneMore ==
  ASSUME NEW S, NEW q \in Seq(S), NEW e \in S, Once(q), ~Has(q, e.job)
  PROVE  /\ Append(q, e) \in Seq(S) /\ Once(Append(q, e))
         /\ \A j : Has(Append(q, e), j) <=> Has(q, j) \/ j = e.job
<1> DEFINE p == Append(q, e)
<1>1. /\ p \in Seq(S) /\ Len(q) \in Nat /\ DOMAIN q = 1 .. Len(q) /\ DOMAIN p = 1 .. Len(q) + 1
      /\ \A i \in 1 .. Len(q) : p[i] = q[i]
      /\ p[Len(q) + 1] = e
  BY AppendProperties, LenProperties
<1> HIDE DEF p
<1>2. \A i \in DOMAIN p : (i \in DOMAIN q /\ p[i] = q[i]) \/ (i = Len(q) + 1 /\ p[i] = e)
  BY <1>1
<1>3. Once(p)
  <2>1. ASSUME NEW i \in DOMAIN p, NEW k \in DOMAIN p, p[i].job = p[k].job PROVE i = k
    BY <1>2, <2>1 DEF Once, Has
  <2>2. QED  BY <2>1 DEF Once
<1>4. ASSUME NEW j PROVE Has(p, j) <=> Has(q, j) \/ j = e.job
  <2>1. Has(p, j) => Has(q, j) \/ j = e.job  BY <1>2 DEF Has
  <2>2. Has(q, j) => Has(p, j)
    <3>1. \A i \in DOMAIN q : i \in DOMAIN p /\ p[i] = q[i]  BY <1>1
    <3>2. QED  BY <3>1 DEF Has
  <2>3. j = e.job => Has(p, j)
    <3>1. Len(q) + 1 \in DOMAIN p /\ p[Len(q) + 1] = e  BY <1>1
    <3>2. QED  BY <3>1 DEF Has
  <2>4. QED  BY <2>1, <2>2, <2>3
<1>5. QED  BY <1>1, <1>3, <1>4 DEF p

LEMMA OneLess ==
  ASSUME NEW S, NEW q \in Seq(S), q # << >>, Once(q)
  PROVE  /\ Tail(q) \in Seq(S) /\ Once(Tail(q)) /\ Head(q) \in S /\ Has(q, Head(q).job)
         /\ \A j : Has(Tail(q), j) <=> Has(q, j) /\ j # Head(q).job
<1> DEFINE p == Tail(q)
<1>1. /\ p \in Seq(S) /\ Len(q) \in Nat /\ Len(q) >= 1 /\ DOMAIN q = 1 .. Len(q)
      /\ DOMAIN p = 1 .. Len(q) - 1 /\ Head(q) = q[1] /\ q[1] \in S
      /\ \A i \in 1 .. Len(q) - 1 : p[i] = q[i + 1]
  <2>1. Len(q) \in Nat /\ Len(q) # 0 /\ DOMAIN q = 1 .. Len(q)  BY EmptySeq, LenProperties
  <2>2. /\ p \in Seq(S) /\ Len(p) = Len(q) - 1 /\ Head(q) = q[1] /\ Head(q) \in S
        /\ \A i \in 1 .. Len(p) : p[i] = q[i + 1]
    BY HeadTailProperties
  <2> HIDE DEF p
  <2>3. DOMAIN p = 1 .. Len(p)  BY <2>2, LenProperties
  <2>4. QED  BY <2>1, <2>2, <2>3
<1> HIDE DEF p
<1>2. \A i \in DOMAIN p : i + 1 \in DOMAIN q /\ p[i] = q[i + 1] /\ i + 1 # 1  BY <1>1
<1>3. \A i \in DOMAIN q : i # 1 => i - 1 \in DOMAIN p /\ p[i - 1] = q[i]
  <2>1. ASSUME NEW i \in DOMAIN q, i # 1 PROVE i - 1 \in DOMAIN p /\ p[i - 1] = q[i]
    <3>1. i - 1 \in DOMAIN p /\ (i - 1) + 1 = i  BY <1>1, <2>1
    <3>2. QED  BY <1>2, <3>1
  <2>2. QED  BY <2>1
<1>4. Once(p)
  <2>1. ASSUME NEW i \in DOMAIN p, NEW k \in DOMAIN p, p[i].job = p[k].job PROVE i = k
    <3>1. i + 1 = k + 1  BY <1>2, <2>1 DEF Once
    <3>2. i \in Int /\ k \in Int  BY <1>1
    <3>3. QED  BY <3>1, <3>2
  <2>2. QED  BY <2>1 DEF Once
<1>5. 1 \in DOMAIN q  BY <1>1
<1>6. ASSUME NEW j PROVE Has(p, j) <=> Has(q, j) /\ j # q[1].job
  <2>1. Has(p, j) => Has(q, j) /\ j # q[1].job  BY <1>2, <1>5 DEF Has, Once
  <2>2. Has(q, j) /\ j # q[1].job => Has(p, j)  BY <1>3 DEF Has
  <2>3. QED  BY <2>1, <2>2
<1>7. Has(q, q[1].job)  BY <1>5 DEF Has
<1>8. QED  BY <1>1, <1>4, <1>6, <1>7 DEF p

\* A job that is not in flight changes its state, and stays out of it.
LEMMA NotInFlight ==
  ASSUME NEW w, NEW a, NEW s, NetOK(w, a, s), NEW j \in Jobs, s[j] # "flight",
         NEW x \in JobStates \ {"flight"}
  PROVE  NetOK(w, a, [s EXCEPT ![j] = x])
<1> DEFINE s2 == [s EXCEPT ![j] = x]
<1>1. s2 \in [Jobs -> JobStates] /\ \A k \in Jobs : s2[k] = IF k = j THEN x ELSE s[k]
  BY DEF NetOK
<1> HIDE DEF s2
<1>2. \A k \in Jobs : s2[k] = "flight" <=> Has(w, k) \/ Has(a, k)  BY <1>1 DEF NetOK
<1>3. NetOK(w, a, s2)  BY <1>1, <1>2 DEF NetOK
<1>4. QED  BY <1>3 DEF s2

\* A request is made.
LEMMA Asking ==
  ASSUME NEW w, NEW a, NEW s, NetOK(w, a, s), NEW j \in Jobs, s[j] # "flight", NEW u \in Accounts
  PROVE  NetOK(Append(w, [job |-> j, account |-> u]), a, [s EXCEPT ![j] = "flight"])
<1> DEFINE s2 == [s EXCEPT ![j] = "flight"]
           e == [job |-> j, account |-> u]
           w2 == Append(w, e)
<1>1. s2 \in [Jobs -> JobStates] /\ \A k \in Jobs : s2[k] = IF k = j THEN "flight" ELSE s[k]
  BY DEF NetOK, JobStates
<1>2. e \in Requested /\ e.job = j  BY DEF Requested
<1>3. ~Has(w, j) /\ ~Has(a, j)  BY DEF NetOK
<1> HIDE DEF e, s2
<1>4. w2 \in Seq(Requested) /\ Once(w2) /\ \A k : Has(w2, k) <=> Has(w, k) \/ k = j
  BY <1>2, <1>3, OneMore DEF NetOK
<1> HIDE DEF w2
<1>5. NetOK(w2, a, s2)  BY <1>1, <1>3, <1>4 DEF NetOK
<1>6. QED  BY <1>5 DEF w2, e, s2

\* The server takes a request and answers it.
LEMMA Serving ==
  ASSUME NEW w, NEW a, NEW s, NetOK(w, a, s), w # << >>, NEW e \in Response, e.job = Head(w).job
  PROVE  NetOK(Tail(w), Append(a, e), s)
<1> DEFINE w2 == Tail(w)
           a2 == Append(a, e)
           j == Head(w).job
<1>1. /\ w2 \in Seq(Requested) /\ Once(w2) /\ Has(w, j)
      /\ \A k : Has(w2, k) <=> Has(w, k) /\ k # j
      /\ j \in Jobs
  <2>1. w \in Seq(Requested) /\ Once(w)  BY DEF NetOK
  <2>2. Head(w) \in Requested  BY <2>1, OneLess
  <2>3. j \in Jobs  BY <2>2 DEF Requested
  <2>4. QED  BY <2>1, <2>3, OneLess
<1> HIDE DEF w2, j
<1>2. e.job = j  BY DEF j
<1>3. ~Has(a, j)  BY <1>1 DEF NetOK
<1>4. a2 \in Seq(Response) /\ Once(a2) /\ \A k : Has(a2, k) <=> Has(a, k) \/ k = j
  BY <1>2, <1>3, OneMore DEF NetOK
<1> HIDE DEF a2
<1>5. NetOK(w2, a2, s)  BY <1>1, <1>4 DEF NetOK
<1>6. QED  BY <1>5 DEF w2, a2

\* An answer is heard: the job is out of flight, whatever becomes of it.
LEMMA Hearing ==
  ASSUME NEW w, NEW a, NEW s, NetOK(w, a, s), a # << >>, NEW x \in JobStates \ {"flight"}
  PROVE  /\ Head(a) \in Response /\ Head(a).job \in Jobs /\ s[Head(a).job] = "flight"
         /\ NetOK(w, Tail(a), [s EXCEPT ![Head(a).job] = x])
<1> DEFINE a2 == Tail(a)
           j == Head(a).job
           s2 == [s EXCEPT ![j] = x]
<1>1. /\ a2 \in Seq(Response) /\ Once(a2) /\ Has(a, j)
      /\ \A k : Has(a2, k) <=> Has(a, k) /\ k # j
      /\ Head(a) \in Response
  BY OneLess DEF NetOK
<1>2. j \in Jobs  BY <1>1 DEF Response
<1> HIDE DEF a2, j
<1>3. s[j] = "flight" /\ ~Has(w, j)  BY <1>1, <1>2 DEF NetOK
<1>4. s2 \in [Jobs -> JobStates] /\ \A k \in Jobs : s2[k] = IF k = j THEN x ELSE s[k]
  BY <1>2 DEF NetOK
<1> HIDE DEF s2
<1>5. \A k \in Jobs : s2[k] = "flight" <=> Has(w, k) \/ Has(a2, k)  BY <1>1, <1>3, <1>4 DEF NetOK
<1>6. NetOK(w, a2, s2)  BY <1>1, <1>4, <1>5 DEF NetOK
<1>7. QED  BY <1>1, <1>2, <1>3, <1>6 DEF a2, j, s2

\* A job is sent: it is in flight afterwards, or lost when nobody is logged in.
LEMMA Sending ==
  ASSUME NEW a, NEW s, NEW j \in Jobs, NetOK(wire, a, s), s[j] # "flight",
         st \in [Jobs -> JobStates], \A k \in Jobs : k # j => s[k] = st[k],
         Send(j), account \in Accounts \cup {NoAccount}
  PROVE  /\ NetOK(wire', a, st')
         /\ st' = [st EXCEPT ![j] = st'[j]] /\ st'[j] \in {"flight", "lost"}
<1>1. \A x : [s EXCEPT ![j] = x] = [st EXCEPT ![j] = x]
  <2>1. s \in [Jobs -> JobStates]  BY DEF NetOK
  <2>2. QED  BY <2>1
<1>2. CASE account = NoAccount
  <2>1. st' = [st EXCEPT ![j] = "lost"] /\ wire' = wire  BY <1>2 DEF Send
  <2>2. NetOK(wire, a, [s EXCEPT ![j] = "lost"])  BY NotInFlight DEF JobStates
  <2>3. st'[j] = "lost"  BY <2>1
  <2>4. QED  BY <1>1, <2>1, <2>2, <2>3
<1>3. CASE account # NoAccount
  <2>1. /\ st' = [st EXCEPT ![j] = "flight"]
        /\ wire' = Append(wire, [job |-> j, account |-> account])
    BY <1>3 DEF Send
  <2>2. account \in Accounts  BY <1>3
  <2>3. NetOK(Append(wire, [job |-> j, account |-> account]), a, [s EXCEPT ![j] = "flight"])
    BY <2>2, Asking
  <2>4. st'[j] = "flight"  BY <2>1
  <2>5. QED  BY <1>1, <2>1, <2>3, <2>4
<1>4. QED  BY <1>2, <1>3

-----------------------------------------------------------------------------
(* Each step keeps SentInv.                                                 *)

LEMMA Counted ==
  ASSUME NEW R
  PROVE  IsFiniteSet(R \cap Awards) /\ Cardinality(R \cap Awards) \in Nat
<1>1. R \cap Awards \subseteq Jobs  BY DEF Jobs
<1>2. QED  BY <1>1, UnlocksAssumption, FS_Subset, FS_CardinalityType

LEMMA DisconnectTyped ==
  \A now, q : Disconnect(now, q) \in {"hidden", "visible", "show", "hide"}
  BY DEF Disconnect

LEMMA SentInit == Init => SentInv
<1> SUFFICES ASSUME Init PROVE SentInv  OBVIOUS
<1> DEFINE e == [cb |-> "ping", left |-> FirstPing]
<1>1. e \in QueueEntry /\ FirstPing \in Nat  BY UnlocksAssumption, JobNames DEF QueueEntry
<1>2. queue = <<e>> /\ st = [j \in Jobs |-> "fresh"] /\ retries = [j \in Jobs |-> 0]
      /\ waited = [j \in Jobs |-> 0] /\ loaded = TRUE /\ hideArmed = FALSE
      /\ wire = << >> /\ answers = << >>
  BY DEF Init
<1>3. e.cb = "ping"  OBVIOUS
<1> HIDE DEF e
<1>4. <<e>> \in Seq(QueueEntry) /\ DOMAIN <<e>> = {1} /\ <<e>>[1] = e  BY <1>1
<1>5. e.left \in Nat  BY <1>1 DEF QueueEntry
<1>6. QueueOK(queue) /\ Entered(queue) = {e}  BY <1>2, <1>4, <1>5 DEF QueueOK, Entered
<1>7. WaitsOK(queue, st, loaded, hideArmed, retries, waited)
  BY <1>2, <1>3, <1>6, JobNames DEF WaitsOK, IsQueued, JobStates
<1>8. NetOK(wire, answers, st)  BY <1>2 DEF NetOK, Once, Has, JobStates
<1>9. RestTyped  BY DEF Init, RestTyped
<1>10. QED  BY <1>7, <1>8, <1>9 DEF SentInv

LEMMA MakeKeeps ==
  ASSUME SentInv, NEW j \in Jobs, Make(j), score' \in Nat
  PROVE  SentInv'
<1>1. st[j] = "fresh" /\ Send(j)  BY DEF Make
<1>2. WaitsOK(queue, st, loaded, hideArmed, retries, waited) /\ NetOK(wire, answers, st) /\ RestTyped
  BY DEF SentInv
<1>3. st \in [Jobs -> JobStates] /\ retries \in [Jobs -> Nat]  BY <1>2 DEF WaitsOK
<1>4. /\ NetOK(wire', answers, st') /\ st' = [st EXCEPT ![j] = st'[j]]
      /\ st'[j] \in {"flight", "lost"}
  BY <1>1, <1>2, <1>3, Sending DEF RestTyped
<1>5. WaitsOK(queue, [st EXCEPT ![j] = st'[j]], loaded, hideArmed, [retries EXCEPT ![j] = retries[j]], waited)
  BY <1>1, <1>2, <1>3, <1>4, NotWaiting DEF JobStates
<1>6. [retries EXCEPT ![j] = retries[j]] = retries  BY <1>3
<1>7. WaitsOK(queue, st', loaded, hideArmed, retries, waited)  BY <1>4, <1>5, <1>6
<1>8. RestTyped'  BY <1>2 DEF RestTyped, Make, userVars
<1>9. QED  BY <1>4, <1>7, <1>8 DEF SentInv, Make, userVars

LEMMA ServeKeeps ==
  ASSUME SentInv, NEW outcome \in Outcomes, NEW records \in BOOLEAN, Serve(outcome, records)
  PROVE  SentInv'
<1> DEFINE r == Head(wire)
           now == [recorded EXCEPT ![r.account] = IF records THEN @ \cup {r.job} ELSE @]
           e == [job |-> r.job, outcome |-> outcome,
                 score |-> Cardinality(now[r.account] \cap Awards),
                 complete |-> Awards \subseteq now[r.account]]
<1>1. /\ wire # << >> /\ wire' = Tail(wire) /\ recorded' = now /\ answers' = Append(answers, e)
      /\ raised' = {}
      /\ UNCHANGED <<userVars, mastery, score, jobVars, queue, hideArmed, disconnect, idling,
                     told, fault>>
  BY DEF Serve
<1>2. WaitsOK(queue, st, loaded, hideArmed, retries, waited) /\ NetOK(wire, answers, st) /\ RestTyped
  BY DEF SentInv
<1>3. r \in Requested  BY <1>1, <1>2, OneLess DEF NetOK
<1>4. r.job \in Jobs /\ r.account \in Accounts  BY <1>3 DEF Requested
<1>5. now \in [Accounts -> SUBSET Jobs]
  <2> HIDE DEF r
  <2>1. QED  BY <1>2, <1>4 DEF RestTyped
<1> HIDE DEF now
<1>6. e \in Response /\ e.job = r.job  BY <1>4, Counted DEF Response
<1> HIDE DEF e
<1>7. NetOK(wire', answers', st)  BY <1>1, <1>2, <1>6, Serving
<1>8. RestTyped'  BY <1>1, <1>2, <1>5 DEF RestTyped, userVars
<1>9. QED  BY <1>1, <1>2, <1>7, <1>8 DEF SentInv, userVars, jobVars

LEMMA HandleKeeps ==
  ASSUME SentInv, Handle
  PROVE  SentInv'
<1> DEFINE a == Head(answers)
           j == a.job
           rest == Tail(answers)
<1>1. /\ answers # << >> /\ answers' = rest /\ Answered(a)
      /\ UNCHANGED <<userVars, hideArmed, idling, recorded, told>>
  BY DEF Handle
<1>2. WaitsOK(queue, st, loaded, hideArmed, retries, waited) /\ NetOK(wire, answers, st) /\ RestTyped
  BY DEF SentInv
<1>3. st \in [Jobs -> JobStates] /\ retries \in [Jobs -> Nat]  BY <1>2 DEF WaitsOK
<1>4. /\ a \in Response /\ j \in Jobs /\ st[j] = "flight"
      /\ \A x \in JobStates \ {"flight"} : NetOK(wire, rest, [st EXCEPT ![j] = x])
  <2>1. "done" \in JobStates \ {"flight"}  BY DEF JobStates
  <2>2. a \in Response /\ j \in Jobs /\ st[j] = "flight"  BY <1>1, <1>2, <2>1, Hearing
  <2>3. ASSUME NEW x \in JobStates \ {"flight"}
        PROVE  NetOK(wire, rest, [st EXCEPT ![j] = x])
    BY <1>1, <1>2, Hearing
  <2>4. QED  BY <2>2, <2>3
<1>5. a.score \in Nat  BY <1>4 DEF Response
<1> HIDE DEF a, rest
<1>6. \A x \in JobStates \ {"queued"}, n \in Nat :
        WaitsOK(queue, [st EXCEPT ![j] = x], loaded, hideArmed, [retries EXCEPT ![j] = n], waited)
  BY <1>2, <1>4, NotWaiting
<1>7. CASE a.outcome = "transient" /\ Retry(j) /\ raised' = {} /\ UNCHANGED <<score, mastery, fault>>
  <2>1. retries' = [retries EXCEPT ![j] = @ + 1] /\ retries[j] + 1 \in Nat
    BY <1>3, <1>4, <1>7 DEF Retry
  <2>2. CASE retries[j] = 0
    <3>1. Send(j) /\ UNCHANGED <<queue, disconnect, waited>>  BY <1>7, <2>2 DEF Retry
    <3> DEFINE s == [st EXCEPT ![j] = "queued"]
    <3>2. NetOK(wire, rest, s)  BY <1>4 DEF JobStates
    <3>3. s[j] # "flight" /\ \A k \in Jobs : k # j => s[k] = st[k]  BY <1>3, <1>4
    <3> HIDE DEF s
    <3>4. /\ NetOK(wire', rest, st') /\ st' = [st EXCEPT ![j] = st'[j]]
          /\ st'[j] \in {"flight", "lost"}
      BY <1>2, <1>3, <1>4, <3>1, <3>2, <3>3, Sending DEF RestTyped
    <3>5. WaitsOK(queue, st', loaded, hideArmed, retries', waited)
      BY <1>6, <2>1, <3>4 DEF JobStates
    <3>6. RestTyped'  BY <1>1, <1>2, <1>7, <3>1 DEF RestTyped, userVars
    <3>7. QED  BY <1>1, <3>1, <3>4, <3>5, <3>6 DEF SentInv, userVars
  <2>3. CASE retries[j] # 0
    <3>1. /\ st' = [st EXCEPT ![j] = "queued"]
          /\ queue' = Insert(queue, [cb |-> j, left |-> Delay(retries[j] + 1)])
          /\ disconnect' = Disconnect(disconnect, queue')
          /\ waited' = [waited EXCEPT ![j] = 0]
          /\ UNCHANGED wire
      BY <1>7, <2>3 DEF Retry
    <3>2. WaitsOK(queue', st', loaded, hideArmed, retries', waited')
      BY <1>2, <1>4, <2>1, <2>3, <3>1, Scheduling
    <3>3. NetOK(wire, rest, st')  BY <1>4, <3>1 DEF JobStates
    <3>4. RestTyped'  BY <1>1, <1>2, <1>7, <3>1, DisconnectTyped DEF RestTyped, userVars
    <3>5. QED  BY <1>1, <3>1, <3>2, <3>3, <3>4 DEF SentInv, userVars
  <2>4. QED  BY <2>2, <2>3
<1>8. ASSUME NEW end \in {"done", "dropped"}, Finish(j, end), RestTyped'
      PROVE  SentInv'
  <2>1. st' = [st EXCEPT ![j] = end] /\ UNCHANGED <<wire, retries, queue, waited>>
    BY <1>8 DEF Finish
  <2>2. NetOK(wire, rest, st')  BY <1>4, <2>1 DEF JobStates
  <2>3. [retries EXCEPT ![j] = retries[j]] = retries /\ retries[j] \in Nat  BY <1>3, <1>4
  <2>4. WaitsOK(queue, st', loaded, hideArmed, retries, waited)
    BY <1>6, <2>1, <2>3 DEF JobStates
  <2>5. QED  BY <1>1, <1>8, <2>1, <2>2, <2>4 DEF SentInv, userVars
<1>9. \A end : Finish(j, end) => disconnect' \in {"hidden", "visible", "show", "hide"}
  BY <1>2, DisconnectTyped DEF Finish, RestTyped
<1>10. CASE /\ a.outcome = "fatal" /\ Finish(j, "dropped") /\ raised' = {"SERVER_ERROR"}
            /\ UNCHANGED <<score, mastery, fault>>
  <2>1. RestTyped'  BY <1>1, <1>2, <1>9, <1>10 DEF RestTyped, userVars
  <2>2. QED  BY <1>8, <1>10, <2>1
<1>11. CASE /\ a.outcome = "ok" /\ j \in Awards /\ Finish(j, "done")
            /\ score' = ScoreAfter(a) /\ mastery' = MasteryAfter(a)
            /\ fault' = IF a.complete /\ ~loaded THEN "award" ELSE fault
            /\ raised' = {}
  <2>1. score' \in Nat /\ mastery' \in {"none", "pending", "shown"}
    BY <1>2, <1>5, <1>11 DEF ScoreAfter, MasteryAfter, RestTyped
  <2>2. RestTyped'  BY <1>1, <1>2, <1>9, <1>11, <2>1 DEF RestTyped, userVars
  <2>3. QED  BY <1>8, <1>11, <2>2
<1>12. CASE /\ a.outcome = "ok" /\ j \in Entries /\ Finish(j, "done")
            /\ raised' = IF loaded /\ retries[j] < 2 THEN {"SCOREBOARD"} ELSE {}
            /\ UNCHANGED <<score, mastery, fault>>
  <2>1. RestTyped'  BY <1>1, <1>2, <1>9, <1>12 DEF RestTyped, userVars
  <2>2. QED  BY <1>8, <1>12, <2>1
<1>13. QED  BY <1>1, <1>7, <1>10, <1>11, <1>12 DEF Answered

LEMMA FrameKeeps ==
  ASSUME SentInv, ShowProgress \/ HideProgress \/ RaiseMastery
  PROVE  SentInv'
<1>1. WaitsOK(queue, st, loaded, hideArmed, retries, waited) /\ NetOK(wire, answers, st) /\ RestTyped
  BY DEF SentInv
<1>2. CASE ShowProgress
  <2>1. queue' = Reschedule(queue, "hide", HideAfter) /\ hideArmed' = TRUE
    BY <1>2 DEF ShowProgress
  <2>2. WaitsOK(queue', st, loaded, hideArmed', retries, waited)  BY <1>1, <2>1, Timing
  <2>3. RestTyped'  BY <1>1, <1>2 DEF RestTyped, ShowProgress, userVars, netVars
  <2>4. QED  BY <1>1, <1>2, <2>2, <2>3 DEF SentInv, ShowProgress, userVars, jobVars, netVars
<1>3. CASE HideProgress
  <2>1. queue' = Unschedule(queue, "hide") /\ hideArmed /\ hideArmed' = FALSE
    BY <1>3 DEF HideProgress
  <2>2. WaitsOK(queue', st, loaded, hideArmed', retries, waited)  BY <1>1, <2>1, Unscheduling
  <2>3. RestTyped'  BY <1>1, <1>3 DEF RestTyped, HideProgress, userVars, netVars
  <2>4. QED  BY <1>1, <1>3, <2>2, <2>3 DEF SentInv, HideProgress, userVars, jobVars, netVars
<1>4. CASE RaiseMastery
  <2>1. RestTyped'  BY <1>1, <1>4 DEF RestTyped, RaiseMastery, userVars, netVars
  <2>2. QED  BY <1>1, <1>4, <2>1 DEF SentInv, RaiseMastery, userVars, jobVars, netVars
<1>5. QED  BY <1>2, <1>3, <1>4

\* rc_client_idle runs the callback at the head, whose time is up.
LEMMA IdlePopKeeps ==
  ASSUME SentInv, IdlePop
  PROVE  SentInv'
<1> DEFINE cb == Head(queue).cb
           p == Tail(queue)
<1>1. /\ queue # << >> /\ Pop(cb) /\ idling' = TRUE
      /\ UNCHANGED <<userVars, mastery, score, retries, disconnect, answers, recorded, waited, told>>
  BY DEF IdlePop, Due
<1>2. WaitsOK(queue, st, loaded, hideArmed, retries, waited) /\ NetOK(wire, answers, st) /\ RestTyped
  BY DEF SentInv
<1>3. /\ QueueOK(p) /\ Head(queue) \in Entered(queue)
      /\ Entered(p) = {e \in Entered(queue) : e.cb # cb}
  BY <1>1, <1>2, Popping DEF WaitsOK
<1>4. IsQueued(queue, cb)  BY <1>3 DEF IsQueued
<1> HIDE DEF cb, p
<1>5. st \in [Jobs -> JobStates] /\ p = Tail(queue)  BY <1>2 DEF WaitsOK, p
<1>6. CASE /\ cb \in Jobs /\ queue' = p /\ Send(cb) /\ raised' = {}
           /\ UNCHANGED <<hideArmed, fault>>
  <2>1. st[cb] = "queued"  BY <1>2, <1>4, <1>6 DEF WaitsOK
  <2>2. /\ NetOK(wire', answers, st') /\ st' = [st EXCEPT ![cb] = st'[cb]]
        /\ st'[cb] \in {"flight", "lost"}
    BY <1>2, <1>5, <1>6, <2>1, Sending DEF RestTyped
  <2>3. st'[cb] \in JobStates \ {"queued"}  BY <2>2 DEF JobStates
  <2>4. WaitsOK(p, st', loaded, hideArmed, retries, waited)
    BY <1>2, <1>3, <1>6, <2>2, <2>3, WithoutJob
  <2>5. RestTyped'  BY <1>1, <1>2, <1>6 DEF RestTyped, userVars
  <2>6. QED  BY <1>1, <1>6, <2>2, <2>4, <2>5 DEF SentInv, userVars
<1>7. CASE /\ cb = "ping"
           /\ queue' = Insert(p, [cb |-> "ping", left |-> PingPeriod])
           /\ fault' = IF loaded THEN fault ELSE "ping"
           /\ raised' = {}
           /\ UNCHANGED <<st, wire, hideArmed>>
  <2>1. loaded  BY <1>2, <1>4, <1>7 DEF WaitsOK
  <2>2. WaitsOK(p, st, FALSE, hideArmed, retries, waited)
    BY <1>2, <1>3, <1>7, WithoutPing
  <2>3. PingPeriod \in Nat  BY UnlocksAssumption
  <2>4. WaitsOK(queue', st, TRUE, hideArmed, retries, waited)  BY <1>7, <2>2, <2>3, Pinging
  <2>5. loaded' = TRUE  BY <1>1, <1>2, <2>1 DEF RestTyped, userVars
  <2>6. RestTyped'  BY <1>1, <1>2, <1>7 DEF RestTyped, userVars
  <2>7. QED  BY <1>1, <1>2, <1>7, <2>4, <2>5, <2>6 DEF SentInv
<1>8. CASE /\ cb = "hide" /\ queue' = p /\ hideArmed' = FALSE
           /\ fault' = IF loaded THEN fault ELSE "hide"
           /\ raised' = {"PROGRESS_HIDE"}
           /\ UNCHANGED <<st, wire>>
  <2>1. WaitsOK(p, st, loaded, FALSE, retries, waited)
    BY <1>2, <1>3, <1>8, WithoutTimer
  <2>2. RestTyped'  BY <1>1, <1>2, <1>8 DEF RestTyped, userVars
  <2>3. QED  BY <1>1, <1>2, <1>8, <2>1, <2>2 DEF SentInv, userVars
<1>9. QED  BY <1>1, <1>5, <1>6, <1>7, <1>8 DEF Pop

LEMMA IdleEndKeeps ==
  ASSUME SentInv, IdleEnd
  PROVE  SentInv'
<1>1. WaitsOK(queue, st, loaded, hideArmed, retries, waited) /\ NetOK(wire, answers, st) /\ RestTyped
  BY DEF SentInv
<1>2. RestTyped'  BY <1>1 DEF RestTyped, IdleEnd, userVars, netVars
<1>3. QED  BY <1>1, <1>2 DEF SentInv, IdleEnd, userVars, jobVars, netVars

LEMMA TickKeeps ==
  ASSUME SentInv, Tick
  PROVE  SentInv'
<1>1. WaitsOK(queue, st, loaded, hideArmed, retries, waited) /\ NetOK(wire, answers, st) /\ RestTyped
  BY DEF SentInv
<1>2. /\ queue' = [i \in DOMAIN queue |-> [queue[i] EXCEPT !.left = IF @ = 0 THEN 0 ELSE @ - 1]]
      /\ waited' = [j \in Jobs |-> IF st[j] = "queued" /\ waited[j] < Delay(retries[j])
                                   THEN waited[j] + 1 ELSE waited[j]]
  BY DEF Tick
<1>3. WaitsOK(queue', st, loaded, hideArmed, retries, waited')  BY <1>1, <1>2, Waiting
<1>4. RestTyped'  BY <1>1 DEF RestTyped, Tick, userVars, netVars
<1>5. QED  BY <1>1, <1>3, <1>4 DEF SentInv, Tick, userVars, netVars

\* The game is unloaded: neither its ping nor its timer is left.
LEMMA UnloadedKeeps ==
  ASSUME SentInv, Unloaded
  PROVE  /\ WaitsOK(queue', st, loaded', hideArmed', retries, waited)
         /\ Entered(queue') = {e \in Entered(queue) : e.cb \notin {"ping", "hide"}}
<1> DEFINE q == IF hideArmed THEN Unschedule(queue, "hide") ELSE queue
<1>1. WaitsOK(queue, st, loaded, hideArmed, retries, waited)  BY DEF SentInv
<1>2. queue' = Without(q, "ping") /\ loaded' = FALSE /\ hideArmed' = FALSE  BY DEF Unloaded
<1>3. /\ WaitsOK(q, st, loaded, FALSE, retries, waited)
      /\ Entered(q) = {e \in Entered(queue) : e.cb # "hide"}
  <2>1. CASE hideArmed  BY <1>1, <2>1, Unscheduling
  <2>2. CASE ~hideArmed
    <3>1. WaitsOK(queue, st, loaded, FALSE, retries, waited)  BY <1>1, <2>2 DEF WaitsOK
    <3>2. \A e \in Entered(queue) : e.cb # "hide"  BY <3>1 DEF WaitsOK, IsQueued
    <3>3. QED  BY <2>2, <3>1, <3>2
  <2>3. QED  BY <2>1, <2>2
<1> HIDE DEF q
<1>4. QueueOK(queue') /\ Entered(queue') = {e \in Entered(q) : e.cb # "ping"}
  BY <1>2, <1>3, Removing DEF WaitsOK
<1>5. WaitsOK(queue', st, FALSE, FALSE, retries, waited)  BY <1>3, <1>4, WithoutPing
<1>6. QED  BY <1>2, <1>3, <1>4, <1>5

LEMMA UserKeeps ==
  ASSUME SentInv, User
  PROVE  SentInv'
<1>1. WaitsOK(queue, st, loaded, hideArmed, retries, waited) /\ NetOK(wire, answers, st) /\ RestTyped
  BY DEF SentInv
<1>2. Unloaded => /\ loaded' \in BOOLEAN /\ mastery' \in {"none", "pending", "shown"}
                  /\ hideArmed' \in BOOLEAN /\ raised' \subseteq {"PROGRESS_HIDE"}
                  /\ fault' \in {"none", "award", "mastery", "ping", "hide"}
  BY <1>1 DEF Unloaded, RestTyped
<1>3. CASE Unload
  <2>1. Unloaded  BY <1>3 DEF Unload
  <2>2. RestTyped'  BY <1>1, <1>2, <1>3, <2>1 DEF RestTyped, Unload, netVars
  <2>3. QED  BY <1>1, <1>3, <2>1, <2>2, UnloadedKeeps DEF SentInv, Unload, jobVars, netVars
<1>4. CASE Logout
  <2>1. CASE loaded
    <3>1. Unloaded  BY <1>4, <2>1 DEF Logout
    <3>2. RestTyped'  BY <1>1, <1>2, <1>4, <3>1 DEF RestTyped, Logout, netVars
    <3>3. QED  BY <1>1, <1>4, <3>1, <3>2, UnloadedKeeps DEF SentInv, Logout, jobVars, netVars
  <2>2. CASE ~loaded
    <3>1. raised' = {} /\ UNCHANGED <<loaded, mastery, queue, hideArmed, fault>>
      BY <1>4, <2>2 DEF Logout
    <3>2. RestTyped'  BY <1>1, <1>4, <3>1 DEF RestTyped, Logout, netVars
    <3>3. QED  BY <1>1, <1>4, <3>1, <3>2 DEF SentInv, Logout, jobVars, netVars
  <2>3. QED  BY <2>1, <2>2
<1>5. CASE Load
  <2>1. ~loaded /\ loaded' = TRUE /\ queue' = Insert(queue, [cb |-> "ping", left |-> FirstPing])
    BY <1>5 DEF Load
  <2>2. WaitsOK(queue, st, FALSE, hideArmed, retries, waited)  BY <1>1, <2>1 DEF WaitsOK
  <2>3. FirstPing \in Nat  BY UnlocksAssumption
  <2>4. WaitsOK(queue', st, TRUE, hideArmed, retries, waited)  BY <2>1, <2>2, <2>3, Pinging
  <2>5. RestTyped'  BY <1>1, <1>5 DEF RestTyped, Load, netVars
  <2>6. QED  BY <1>1, <1>5, <2>1, <2>4, <2>5 DEF SentInv, Load, jobVars, netVars
<1>6. CASE \E u \in Accounts : Login(u)
  <2>1. PICK u \in Accounts : Login(u)  BY <1>6
  <2>2. Cardinality(recorded[u] \cap Awards) \in Nat  BY Counted
  <2>3. RestTyped'  BY <1>1, <2>1, <2>2 DEF RestTyped, Login, netVars
  <2>4. QED  BY <1>1, <2>1, <2>3 DEF SentInv, Login, jobVars, netVars
<1>7. QED  BY <1>3, <1>4, <1>5, <1>6 DEF User

LEMMA SentNext == SentInv /\ [Next]_vars => SentInv'
<1> SUFFICES ASSUME SentInv, [Next]_vars PROVE SentInv'  OBVIOUS
<1>1. CASE Server  BY <1>1, ServeKeeps DEF Server
<1>2. CASE Handle  BY <1>2, HandleKeeps
<1>3. CASE Frame
  <2>1. CASE \E j \in Jobs : Unlock(j) \/ Submit(j)
    <3>1. PICK j \in Jobs : Unlock(j) \/ Submit(j)  BY <2>1
    <3>2. Make(j) /\ score' \in {score, score + 1}  BY <3>1 DEF Unlock, Submit
    <3>3. score' \in Nat  BY <3>2 DEF SentInv, RestTyped
    <3>4. QED  BY <3>2, <3>3, MakeKeeps
  <2>2. QED  BY <1>3, <2>1, FrameKeeps DEF Frame
<1>4. CASE Idle  BY <1>4, IdlePopKeeps, IdleEndKeeps DEF Idle
<1>5. CASE Tick  BY <1>5, TickKeeps
<1>6. CASE User  BY <1>6, UserKeeps
<1>7. CASE UNCHANGED vars
  BY <1>7 DEF SentInv, RestTyped, vars
<1>8. QED  BY <1>1, <1>2, <1>3, <1>4, <1>5, <1>6, <1>7 DEF Next

LEMMA SentAlways == Spec => []SentInv
<1>1. QED  BY SentInit, SentNext, PTL DEF Spec

\* A job leaves the queue only at the head of it, when its time is up.
LEMMA LeavesWhenDue ==
  ASSUME SentInv, [Next]_vars, NEW j \in Jobs, st[j] = "queued", st'[j] # "queued"
  PROVE  queue # << >> /\ Head(queue).cb = j /\ Head(queue).left = 0
<1>1. st \in [Jobs -> JobStates]  BY DEF SentInv, WaitsOK
<1>2. \A k : Send(k) => \E x : st' = [st EXCEPT ![k] = x]  BY DEF Send
<1>3. ASSUME NEW k \in Jobs, Send(k) PROVE j = k
  BY <1>1, <1>2, <1>3
<1>4. ~Server  BY DEF Server, Serve, jobVars
<1>5. ~Handle
  <2> SUFFICES ASSUME Handle PROVE FALSE  OBVIOUS
  <2> DEFINE k == Head(answers).job
  <2>1. answers # << >> /\ Answered(Head(answers))  BY DEF Handle
  <2>2. k \in Jobs /\ st[k] = "flight"
    <3>1. "done" \in JobStates \ {"flight"}  BY DEF JobStates
    <3>2. QED  BY <2>1, <3>1, Hearing DEF SentInv
  <2> HIDE DEF k
  <2>3. k # j  BY <2>2
  <2>4. Retry(k) \/ \E end : Finish(k, end)  BY <2>1 DEF Answered, k
  <2>5. CASE Retry(k)
    <3>1. Send(k) \/ st' = [st EXCEPT ![k] = "queued"]  BY <2>5 DEF Retry
    <3>2. QED  BY <1>1, <1>3, <2>2, <2>3, <3>1
  <2>6. CASE \E end : Finish(k, end)
    <3>1. PICK end : st' = [st EXCEPT ![k] = end]  BY <2>6 DEF Finish
    <3>2. QED  BY <1>1, <2>2, <2>3, <3>1
  <2>7. QED  BY <2>4, <2>5, <2>6
<1>6. ~Frame
  <2>1. ASSUME NEW k \in Jobs, Make(k) PROVE FALSE  BY <1>3, <2>1 DEF Make
  <2>2. \A k \in Jobs : ~Unlock(k) /\ ~Submit(k)  BY <2>1 DEF Unlock, Submit
  <2>3. QED  BY <2>2 DEF Frame, ShowProgress, HideProgress, RaiseMastery, jobVars
<1>7. ~IdleEnd /\ ~Tick /\ ~User
  BY DEF IdleEnd, Tick, User, Unload, Logout, Load, Login, jobVars
<1>8. ~UNCHANGED vars  BY DEF vars
<1>9. IdlePop  BY <1>4, <1>5, <1>6, <1>7, <1>8 DEF Next, Idle
<1>10. Due /\ Pop(Head(queue).cb)  BY <1>9 DEF IdlePop
<1>11. Head(queue).cb \in Jobs /\ Send(Head(queue).cb)  BY <1>10 DEF Pop
<1>12. QED  BY <1>3, <1>10, <1>11 DEF Due

LEMMA RetriesStep ==
  ASSUME SentInv, [Next]_vars
  PROVE  RetriesOnSchedule
<1> SUFFICES ASSUME NEW j \in Jobs, st[j] = "queued", st'[j] # "queued"
             PROVE  waited[j] >= Schedule[IF retries[j] > 8 THEN 8 ELSE retries[j] - 1]
  BY DEF RetriesOnSchedule
<1> DEFINE e == Head(queue)
<1>1. queue # << >> /\ e.cb = j /\ e.left = 0  BY LeavesWhenDue
<1>2. e \in Entered(queue)  BY <1>1, Popping DEF SentInv, WaitsOK
<1> HIDE DEF e
<1>3. retries[j] >= 2 /\ waited[j] + 0 = Delay(retries[j]) /\ retries[j] \in Nat /\ waited[j] \in Nat
  BY <1>1, <1>2 DEF SentInv, WaitsOK
<1>4. waited[j] = Delay(retries[j]) /\ Delay(retries[j]) \in Nat  BY <1>3, DelayIs
<1>5. waited[j] = Schedule[IF retries[j] > 8 THEN 8 ELSE retries[j] - 1]  BY <1>3, <1>4, DelayIs
<1>6. QED  BY <1>3, <1>5

\* However many jobs fail however often: each is in one place, the queue is ordered, and a job goes
\* out again when as many seconds have gone by as rc_client_award_achievement_callback documents.
THEOREM SentOnSchedule == Spec => OnSchedule
<1>1. SentInv /\ [Next]_vars => RetriesOnSchedule  BY RetriesStep
<1>2. Spec => [][TypeOK' /\ QueueSorted' /\ OnePlace' /\ RetriesOnSchedule]_vars
  BY <1>1, SentAlways, SentImplies, PTL DEF Spec
<1>3. QED  BY <1>2 DEF OnSchedule

-----------------------------------------------------------------------------
(* What the user is told of the connection.                                 *)

\* What rc_client_update_disconnect_state finds in the queue is a job that waits.
LEMMA RetryIsQueued ==
  ASSUME NEW q, NEW s, NEW l, NEW h, NEW r, NEW w, WaitsOK(q, s, l, h, r, w)
  PROVE  /\ HasRetry(q) <=> \E j \in Jobs : s[j] = "queued"
         /\ \A j \in Jobs : s[j] = "queued" => r[j] >= 2
<1>1. \A j \in Jobs : IsQueued(q, j) <=> s[j] = "queued"  BY DEF WaitsOK
<1>2. HasRetry(q) <=> \E j \in Jobs : IsQueued(q, j)  BY DEF HasRetry, IsQueued, Entered
<1>3. \A j \in Jobs : IsQueued(q, j) => r[j] >= 2  BY DEF WaitsOK, IsQueued
<1>4. QED  BY <1>1, <1>2, <1>3

\* The state it comes to is the right one, and is no more visible than it was.
LEMMA DisconnectIs ==
  ASSUME NEW q, NEW now \in {"hidden", "visible", "show", "hide"}
  PROVE  /\ Disconnect(now, q) \in {"visible", "hide"} <=> now \in {"visible", "hide"}
         /\ Disconnect(now, q) \in {"show", "visible"} <=> HasRetry(q)
<1>1. HasRetry(q) \in BOOLEAN  BY DEF HasRetry
<1>2. CASE HasRetry(q)  BY <1>2, <1>1 DEF Disconnect
<1>3. CASE ~HasRetry(q)  BY <1>3, <1>1 DEF Disconnect
<1>4. QED  BY <1>2, <1>3

\* A job in state s that has failed r times may be one of which the user is told.
Trouble(s, r) == s = "lost" \/ (s \in {"flight", "queued"} /\ r > 0)

\* ConnectionInv, with what is in the queue read off the states of the jobs.
LEMMA ConnectionAs ==
  ASSUME SentInv
  PROVE  ConnectionInv <=>
           /\ told = "disconnected" <=> disconnect \in {"visible", "hide"}
           /\ disconnect \in {"show", "visible"} => \E j \in Jobs : Trouble(st[j], retries[j])
           /\ (\E j \in Jobs : st[j] = "queued") => disconnect \in {"show", "visible"}
<1>1. HasRetry(queue) <=> \E j \in Jobs : st[j] = "queued"  BY RetryIsQueued DEF SentInv
<1>2. QED
  BY <1>1 DEF ConnectionInv, DisconnectedMeansPending, QueuedMeansDisconnected,
             Trouble, Pending, Failed

LEMMA ConnectionAfter ==
  ASSUME SentInv', told' = "disconnected" <=> disconnect' \in {"visible", "hide"},
         disconnect' \in {"show", "visible"} => \E j \in Jobs : Trouble(st'[j], retries'[j]),
         (\E j \in Jobs : st'[j] = "queued") => disconnect' \in {"show", "visible"}
  PROVE  ConnectionInv'
<1>1. HasRetry(queue') <=> \E j \in Jobs : st'[j] = "queued"  BY RetryIsQueued DEF SentInv
<1>2. QED
  BY <1>1 DEF ConnectionInv, DisconnectedMeansPending, QueuedMeansDisconnected,
             Trouble, Pending, Failed

LEMMA ConnectionInit == Init => ConnectionInv
<1> SUFFICES ASSUME Init PROVE ConnectionInv  OBVIOUS
<1>1. SentInv  BY SentInit
<1>2. \A j \in Jobs : st[j] # "queued"  BY DEF Init
<1>3. disconnect = "hidden" /\ told = "reconnected"  BY DEF Init
<1>4. QED  BY <1>1, <1>2, <1>3, ConnectionAs

\* The states of some other jobs change, and the connection state does not.
LEMMA ConnectionStays ==
  ASSUME SentInv, ConnectionInv, SentInv', NEW j \in Jobs, NEW x, st' = [st EXCEPT ![j] = x],
         x # "queued", \A k \in Jobs : k # j => retries'[k] = retries[k],
         UNCHANGED <<disconnect, told>>, ~Trouble(st[j], retries[j]) \/ Trouble(st'[j], retries'[j])
  PROVE  ConnectionInv'
<1>1. /\ told = "disconnected" <=> disconnect \in {"visible", "hide"}
      /\ disconnect \in {"show", "visible"} => \E k \in Jobs : Trouble(st[k], retries[k])
      /\ (\E k \in Jobs : st[k] = "queued") => disconnect \in {"show", "visible"}
  BY ConnectionAs
<1>2. st \in [Jobs -> JobStates]  BY DEF SentInv, WaitsOK
<1>3. st'[j] = x /\ \A k \in Jobs : k # j => st'[k] = st[k]  BY <1>2
<1>4. \A k \in Jobs : k # j => (Trouble(st'[k], retries'[k]) <=> Trouble(st[k], retries[k]))
  BY <1>3 DEF Trouble, Pending, Failed
<1>5. disconnect' \in {"show", "visible"} => \E k \in Jobs : Trouble(st'[k], retries'[k])  BY <1>1, <1>4
<1>6. (\E k \in Jobs : st'[k] = "queued") => disconnect' \in {"show", "visible"}  BY <1>1, <1>3
<1>7. told' = "disconnected" <=> disconnect' \in {"visible", "hide"}  BY <1>1
<1>8. QED  BY <1>5, <1>6, <1>7, ConnectionAfter

LEMMA ConnectionHandle ==
  ASSUME SentInv, ConnectionInv, SentInv', Handle
  PROVE  ConnectionInv'
<1> DEFINE j == Head(answers).job
<1>1. answers # << >> /\ Answered(Head(answers)) /\ told' = told  BY DEF Handle
<1>2. j \in Jobs /\ st[j] = "flight"
  <2>1. "done" \in JobStates \ {"flight"}  BY DEF JobStates
  <2>2. QED  BY <1>1, <2>1, Hearing DEF SentInv
<1>3. Retry(j) \/ \E end \in {"done", "dropped"} : Finish(j, end)  BY <1>1 DEF Answered
<1> HIDE DEF j
<1>4. /\ st \in [Jobs -> JobStates] /\ retries \in [Jobs -> Nat]
      /\ disconnect \in {"hidden", "visible", "show", "hide"}
  BY DEF SentInv, WaitsOK, RestTyped
<1>5. /\ told = "disconnected" <=> disconnect \in {"visible", "hide"}
      /\ disconnect \in {"show", "visible"} => \E k \in Jobs : Trouble(st[k], retries[k])
      /\ (\E k \in Jobs : st[k] = "queued") => disconnect \in {"show", "visible"}
  BY ConnectionAs
<1>6. CASE Retry(j)
  <2>1. retries' = [retries EXCEPT ![j] = @ + 1]  BY <1>6 DEF Retry
  <2>2. retries'[j] > 0 /\ \A k \in Jobs : k # j => retries'[k] = retries[k]
    BY <1>2, <1>4, <2>1
  <2>3. CASE retries[j] = 0
    <3>1. Send(j) /\ disconnect' = disconnect  BY <1>6, <2>3 DEF Retry
    <3>2. PICK x \in {"lost", "flight"} : st' = [st EXCEPT ![j] = x]  BY <3>1 DEF Send
    <3>3. Trouble(st'[j], retries'[j])  BY <1>2, <1>4, <2>2, <3>2 DEF Trouble, Pending, Failed
    <3>4. QED  BY <1>1, <1>2, <2>2, <3>1, <3>2, <3>3, ConnectionStays
  <2>4. CASE retries[j] # 0
    <3>1. st' = [st EXCEPT ![j] = "queued"] /\ disconnect' = Disconnect(disconnect, queue')
      BY <1>6, <2>4 DEF Retry
    <3>2. st'[j] = "queued"  BY <1>2, <1>4, <3>1
    <3>3. Trouble(st'[j], retries'[j])  BY <2>2, <3>2 DEF Trouble, Pending, Failed
    <3>4. HasRetry(queue')
      <4>1. WaitsOK(queue, st, loaded, hideArmed, retries, waited)'  BY DEF SentInv
      <4>2. QED  BY <1>2, <3>2, <4>1, RetryIsQueued
    <3>5. /\ disconnect' \in {"show", "visible"}
          /\ disconnect' \in {"visible", "hide"} <=> disconnect \in {"visible", "hide"}
      BY <1>4, <3>1, <3>4, DisconnectIs
    <3>6. QED  BY <1>1, <1>2, <1>5, <3>3, <3>5, ConnectionAfter
  <2>5. QED  BY <2>3, <2>4
<1>7. CASE \E end \in {"done", "dropped"} : Finish(j, end)
  <2>1. PICK end \in {"done", "dropped"} : Finish(j, end)  BY <1>7
  <2>2. st' = [st EXCEPT ![j] = end] /\ UNCHANGED <<retries, queue>>  BY <2>1 DEF Finish
  <2>3. CASE retries[j] = 0
    <3>1. disconnect' = disconnect  BY <2>1, <2>3 DEF Finish
    <3>2. ~Trouble(st[j], retries[j])  BY <1>2, <2>3 DEF Trouble, Failed
    <3>3. QED  BY <1>1, <1>2, <2>2, <3>1, <3>2, ConnectionStays
  <2>4. CASE retries[j] # 0
    <3>1. disconnect' = Disconnect(disconnect, queue)  BY <1>2, <1>4, <2>1, <2>4 DEF Finish
    <3>2. /\ disconnect' \in {"show", "visible"} <=> HasRetry(queue)
          /\ disconnect' \in {"visible", "hide"} <=> disconnect \in {"visible", "hide"}
      BY <1>4, <3>1, DisconnectIs
    <3>3. /\ HasRetry(queue) <=> \E k \in Jobs : st[k] = "queued"
          /\ \A k \in Jobs : st[k] = "queued" => retries[k] >= 2
      BY RetryIsQueued DEF SentInv
    <3>4. \A k \in Jobs : st[k] = "queued" <=> st'[k] = "queued"  BY <1>2, <1>4, <2>2
    <3>5. \A k \in Jobs : st[k] = "queued" => Trouble(st'[k], retries'[k])
      <4>1. \A k \in Jobs : retries[k] >= 2 => retries[k] > 0  BY <1>4
      <4>2. QED  BY <2>2, <3>3, <3>4, <4>1 DEF Trouble, Pending, Failed
    <3>6. QED  BY <1>1, <1>5, <3>2, <3>3, <3>4, <3>5, ConnectionAfter
  <2>5. QED  BY <1>4, <2>3, <2>4
<1>8. QED  BY <1>3, <1>6, <1>7

LEMMA ConnectionNext ==
  ASSUME SentInv, ConnectionInv, SentInv', [Next]_vars
  PROVE  ConnectionInv'
<1>1. /\ told = "disconnected" <=> disconnect \in {"visible", "hide"}
      /\ disconnect \in {"show", "visible"} => \E k \in Jobs : Trouble(st[k], retries[k])
      /\ (\E k \in Jobs : st[k] = "queued") => disconnect \in {"show", "visible"}
  BY ConnectionAs
<1>2. ASSUME UNCHANGED <<st, retries, disconnect, told>> PROVE ConnectionInv'
  BY <1>1, <1>2, ConnectionAfter DEF Trouble, Pending, Failed
<1>3. CASE Server  BY <1>2, <1>3 DEF Server, Serve, jobVars
<1>4. CASE Handle  BY <1>4, ConnectionHandle
<1>5. CASE Frame
  <2>1. CASE \E j \in Jobs : Unlock(j) \/ Submit(j)
    <3>1. PICK j \in Jobs : Make(j)  BY <2>1 DEF Unlock, Submit
    <3>2. /\ st[j] = "fresh" /\ Send(j)
          /\ UNCHANGED <<retries, disconnect, told>>
      BY <3>1 DEF Make
    <3>3. PICK x \in {"lost", "flight"} : st' = [st EXCEPT ![j] = x]  BY <3>2 DEF Send
    <3>4. ~Trouble(st[j], retries[j])  BY <3>2 DEF Trouble, Pending
    <3>5. QED  BY <3>2, <3>3, <3>4, ConnectionStays
  <2>2. QED
    BY <1>2, <1>5, <2>1 DEF Frame, ShowProgress, HideProgress, RaiseMastery, jobVars
<1>6. CASE IdlePop
  <2> DEFINE cb == Head(queue).cb
  <2>1. queue # << >> /\ Pop(cb) /\ UNCHANGED <<retries, disconnect, told>>
    BY <1>6 DEF IdlePop, Due
  <2>2. IsQueued(queue, cb)  BY <2>1, Popping DEF IsQueued, SentInv, WaitsOK
  <2> HIDE DEF cb
  <2>3. CASE st' = st  BY <1>2, <2>1, <2>3
  <2>4. CASE cb \in Jobs /\ Send(cb)
    <3>1. st[cb] = "queued"  BY <2>2, <2>4 DEF SentInv, WaitsOK
    <3>2. retries[cb] >= 2 /\ retries[cb] \in Nat
      <4>1. retries[cb] >= 2  BY <2>4, <3>1, RetryIsQueued DEF SentInv
      <4>2. QED  BY <2>4, <4>1 DEF SentInv, WaitsOK
    <3>3. PICK x \in {"lost", "flight"} : st' = [st EXCEPT ![cb] = x]  BY <2>4 DEF Send
    <3>4. st'[cb] = x
      <4>1. st \in [Jobs -> JobStates]  BY DEF SentInv, WaitsOK
      <4>2. QED  BY <2>4, <3>3, <4>1
    <3>5. Trouble(st'[cb], retries'[cb])  BY <2>1, <3>2, <3>4 DEF Trouble, Pending, Failed
    <3>6. QED  BY <2>1, <2>4, <3>3, <3>5, ConnectionStays
  <2>5. QED  BY <2>1, <2>3, <2>4 DEF Pop
<1>7. CASE IdleEnd
  <2>1. st' = st /\ retries' = retries  BY <1>7 DEF IdleEnd, jobVars
  <2>2. /\ told' = "disconnected" <=> disconnect' \in {"visible", "hide"}
        /\ disconnect' \in {"show", "visible"} <=> disconnect \in {"show", "visible"}
    <3>1. disconnect \in {"hidden", "visible", "show", "hide"}  BY DEF SentInv, RestTyped
    <3>2. CASE disconnect = "show"  BY <1>7, <3>2 DEF IdleEnd
    <3>3. CASE disconnect = "hide"  BY <1>7, <3>3 DEF IdleEnd
    <3>4. CASE disconnect \in {"hidden", "visible"}  BY <1>1, <1>7, <3>4 DEF IdleEnd
    <3>5. QED  BY <3>1, <3>2, <3>3, <3>4
  <2>3. QED  BY <1>1, <2>1, <2>2, ConnectionAfter DEF Trouble, Pending, Failed
<1>8. CASE Tick  BY <1>2, <1>8 DEF Tick
<1>9. CASE User  BY <1>2, <1>9 DEF User, Unload, Logout, Load, Login, jobVars
<1>10. CASE UNCHANGED vars  BY <1>2, <1>10 DEF vars
<1>11. QED  BY <1>3, <1>4, <1>5, <1>6, <1>7, <1>8, <1>9, <1>10 DEF Next, Idle

\* The two events are raised in turn.
LEMMA EventsInOrder ==
  ASSUME SentInv, ConnectionInv, Next
  PROVE  EventsAlternate
<1>1. (told = "disconnected" <=> disconnect \in {"visible", "hide"})
      /\ told \in {"disconnected", "reconnected"}
  BY DEF ConnectionInv, SentInv, RestTyped
<1> DEFINE quiet == "DISCONNECTED" \notin raised' /\ "RECONNECTED" \notin raised'
<1>2. CASE IdleEnd  
  <2>1. "DISCONNECTED" \in raised' => disconnect = "show"  BY <1>2 DEF IdleEnd
  <2>2. "RECONNECTED" \in raised' => disconnect = "hide"  BY <1>2 DEF IdleEnd
  <2>3. QED  BY <1>1, <2>1, <2>2 DEF EventsAlternate
<1>3. CASE quiet  BY <1>3 DEF EventsAlternate
<1>4. Server => quiet  BY DEF Server, Serve
<1>5. Handle => quiet  BY DEF Handle, Answered
<1>6. Frame => quiet
  BY DEF Frame, Unlock, Submit, Make, ShowProgress, HideProgress, RaiseMastery
<1>7. IdlePop => quiet  BY DEF IdlePop, Pop
<1>8. Tick \/ User => quiet  BY DEF Tick, User, Unload, Logout, Unloaded, Load, Login
<1>9. QED  BY <1>2, <1>3, <1>4, <1>5, <1>6, <1>7, <1>8 DEF Next, Idle

LEMMA ConnectionAlways == Spec => []ConnectionInv
<1>1. QED  BY SentAlways, ConnectionInit, ConnectionNext, PTL DEF Spec

\* While the user is shown as disconnected an unlock or entry is pending or lost, while a retry is
\* queued the user is shown so, and DISCONNECTED and RECONNECTED alternate.
THEOREM ConnectionIsTold == Spec => ConnectionTold
<1>1. ConnectionInv => DisconnectedMeansPending /\ QueuedMeansDisconnected
  BY DEF ConnectionInv
<1>2. SentInv /\ ConnectionInv /\ Next => EventsAlternate  BY EventsInOrder
<1>3. Spec => [][DisconnectedMeansPending' /\ QueuedMeansDisconnected' /\ EventsAlternate]_vars
  BY <1>1, <1>2, SentAlways, ConnectionAlways, PTL DEF Spec
<1>4. QED  BY <1>3 DEF ConnectionTold

-----------------------------------------------------------------------------
(* An unlock counts once.                                                   *)

LEMMA Lengthened ==
  ASSUME NEW S, NEW q \in Seq(S), NEW e \in S
  PROVE  /\ \A i \in DOMAIN Append(q, e) :
              \/ i \in DOMAIN q /\ Append(q, e)[i] = q[i]
              \/ i = Len(q) + 1 /\ Append(q, e)[i] = e
         /\ \A i \in DOMAIN q : /\ i \in DOMAIN Append(q, e) /\ Append(q, e)[i] = q[i]
                                /\ Len(q) + 1 > i
         /\ Len(q) + 1 \in DOMAIN Append(q, e) /\ Append(q, e)[Len(q) + 1] = e
         /\ Len(q) + 1 \in Nat /\ DOMAIN Append(q, e) \subseteq Nat
<1> DEFINE p == Append(q, e)
<1>1. /\ p \in Seq(S) /\ Len(q) \in Nat /\ DOMAIN q = 1 .. Len(q) /\ DOMAIN p = 1 .. Len(q) + 1
      /\ \A i \in 1 .. Len(q) : p[i] = q[i]
      /\ p[Len(q) + 1] = e
  BY AppendProperties, LenProperties
<1> HIDE DEF p
<1>2. /\ \A i \in DOMAIN p : (i \in DOMAIN q /\ p[i] = q[i]) \/ (i = Len(q) + 1 /\ p[i] = e)
      /\ \A i \in DOMAIN q : i \in DOMAIN p /\ p[i] = q[i] /\ Len(q) + 1 > i
      /\ Len(q) + 1 \in DOMAIN p /\ p[Len(q) + 1] = e
      /\ Len(q) + 1 \in Nat /\ DOMAIN p \subseteq Nat
  BY <1>1
<1>3. QED  BY <1>2 DEF p

LEMMA Shortened ==
  ASSUME NEW S, NEW q \in Seq(S), q # << >>
  PROVE  /\ \A i \in DOMAIN Tail(q) : /\ i + 1 \in DOMAIN q /\ Tail(q)[i] = q[i + 1]
                                      /\ i + 1 # 1 /\ i \in Nat
         /\ \A i \in DOMAIN q : i # 1 => i - 1 \in DOMAIN Tail(q) /\ Tail(q)[i - 1] = q[i]
         /\ 1 \in DOMAIN q /\ Head(q) = q[1] /\ DOMAIN q \subseteq Nat \ {0}
<1> DEFINE p == Tail(q)
<1>1. /\ Len(q) \in Nat /\ Len(q) >= 1 /\ DOMAIN q = 1 .. Len(q)
      /\ DOMAIN p = 1 .. Len(q) - 1 /\ Head(q) = q[1]
      /\ \A i \in 1 .. Len(q) - 1 : p[i] = q[i + 1]
  <2>1. Len(q) \in Nat /\ Len(q) # 0 /\ DOMAIN q = 1 .. Len(q)  BY EmptySeq, LenProperties
  <2>2. /\ p \in Seq(S) /\ Len(p) = Len(q) - 1 /\ Head(q) = q[1]
        /\ \A i \in 1 .. Len(p) : p[i] = q[i + 1]
    BY HeadTailProperties
  <2> HIDE DEF p
  <2>3. DOMAIN p = 1 .. Len(p)  BY <2>2, LenProperties
  <2>4. QED  BY <2>1, <2>2, <2>3
<1> HIDE DEF p
<1>2. \A i \in DOMAIN p : i + 1 \in DOMAIN q /\ p[i] = q[i + 1] /\ i + 1 # 1 /\ i \in Nat  BY <1>1
<1>3. ASSUME NEW i \in DOMAIN q, i # 1 PROVE i - 1 \in DOMAIN p /\ p[i - 1] = q[i]
  <2>1. i - 1 \in DOMAIN p /\ (i - 1) + 1 = i  BY <1>1, <1>3
  <2>2. QED  BY <1>2, <2>1
<1>4. 1 \in DOMAIN q /\ DOMAIN q \subseteq Nat \ {0}  BY <1>1
<1>5. QED  BY <1>1, <1>2, <1>3, <1>4 DEF p

\* The answer that comes last tells the score.
LEMMA ArrivesLast ==
  ASSUME NEW S, NEW q \in Seq(S), NEW e \in S, IsOk(e), NEW now, NEW n, e.score = n
  PROVE  Arriving(Append(q, e), now, n)
<1> DEFINE p == Append(q, e)
           last == Len(q) + 1
<1>1. /\ \A i \in DOMAIN p : (i \in DOMAIN q /\ p[i] = q[i]) \/ (i = last /\ p[i] = e)
      /\ \A i \in DOMAIN q : last > i
      /\ last \in DOMAIN p /\ p[last] = e
  BY Lengthened
<1> HIDE DEF p, last
<1>2. ASSUME NEW i \in DOMAIN p, \A k \in DOMAIN p : k > i => ~IsOk(p[k])
      PROVE  p[i].score = n
  BY <1>1, <1>2
<1>3. ~(\A i \in DOMAIN p : ~IsOk(p[i]))  BY <1>1
<1>4. Arriving(p, now, n)  BY <1>2, <1>3 DEF Arriving
<1>5. QED  BY <1>4 DEF p

\* Any other answer tells none.
LEMMA ArrivesOther ==
  ASSUME NEW S, NEW q \in Seq(S), NEW e \in S, ~IsOk(e), NEW now, NEW n, Arriving(q, now, n)
  PROVE  Arriving(Append(q, e), now, n)
<1> DEFINE p == Append(q, e)
           last == Len(q) + 1
<1>1. /\ \A i \in DOMAIN p : (i \in DOMAIN q /\ p[i] = q[i]) \/ (i = last /\ p[i] = e)
      /\ \A i \in DOMAIN q : i \in DOMAIN p /\ p[i] = q[i]
  BY Lengthened
<1> HIDE DEF p, last
<1>2. ASSUME NEW i \in DOMAIN p, IsOk(p[i]), \A k \in DOMAIN p : k > i => ~IsOk(p[k])
      PROVE  p[i].score = n
  <2>1. i \in DOMAIN q /\ p[i] = q[i]  BY <1>1, <1>2
  <2>2. \A k \in DOMAIN q : k > i => ~IsOk(q[k])  BY <1>1, <1>2
  <2>3. QED  BY <1>2, <2>1, <2>2 DEF Arriving
<1>3. (\A i \in DOMAIN p : ~IsOk(p[i])) => now = n
  <2>1. (\A i \in DOMAIN p : ~IsOk(p[i])) => \A i \in DOMAIN q : ~IsOk(q[i])  BY <1>1
  <2>2. QED  BY <2>1 DEF Arriving
<1>4. Arriving(p, now, n)  BY <1>2, <1>3 DEF Arriving
<1>5. QED  BY <1>4 DEF p

\* The first answer is taken: when it tells a score, that is the score now.
LEMMA ArrivesNext ==
  ASSUME NEW S, NEW q \in Seq(S), q # << >>, NEW now, NEW n, Arriving(q, now, n), NEW new,
         new = IF IsOk(Head(q)) THEN Head(q).score ELSE now
  PROVE  Arriving(Tail(q), new, n)
<1> DEFINE p == Tail(q)
<1>1. /\ \A i \in DOMAIN p : i + 1 \in DOMAIN q /\ p[i] = q[i + 1] /\ i + 1 # 1 /\ i \in Nat
      /\ \A i \in DOMAIN q : i # 1 => i - 1 \in DOMAIN p /\ p[i - 1] = q[i]
      /\ 1 \in DOMAIN q /\ Head(q) = q[1] /\ DOMAIN q \subseteq Nat \ {0}
  BY Shortened
<1> HIDE DEF p
<1>2. ASSUME NEW i \in DOMAIN p, IsOk(p[i]), \A k \in DOMAIN p : k > i => ~IsOk(p[k])
      PROVE  p[i].score = n
  <2>1. ASSUME NEW k \in DOMAIN q, k > i + 1 PROVE ~IsOk(q[k])
    <3>1. k # 1 /\ k - 1 > i  BY SMTT(60), <1>1, <2>1
    <3>2. k - 1 \in DOMAIN p /\ p[k - 1] = q[k]  BY <1>1, <3>1
    <3>3. QED  BY <1>2, <3>1, <3>2
  <2>2. i + 1 \in DOMAIN q /\ IsOk(q[i + 1])  BY <1>1, <1>2
  <2>3. q[i + 1].score = n  BY <2>1, <2>2 DEF Arriving
  <2>4. QED  BY <1>1, <2>3
<1>3. ASSUME \A i \in DOMAIN p : ~IsOk(p[i]) PROVE new = n
  <2>1. \A k \in DOMAIN q : k # 1 => ~IsOk(q[k])
    <3>1. ASSUME NEW k \in DOMAIN q, k # 1 PROVE ~IsOk(q[k])
      <4>1. k - 1 \in DOMAIN p /\ p[k - 1] = q[k]  BY <1>1, <3>1
      <4>2. QED  BY <1>3, <4>1
    <3>2. QED  BY <3>1
  <2>2. CASE IsOk(q[1])
    <3>1. \A k \in DOMAIN q : k > 1 => ~IsOk(q[k])  BY <1>1, <2>1
    <3>2. q[1].score = n  BY <1>1, <2>2, <3>1 DEF Arriving
    <3>3. QED  BY <1>1, <2>2, <3>2
  <2>3. CASE ~IsOk(q[1])
    <3>1. \A k \in DOMAIN q : ~IsOk(q[k])  BY <2>1, <2>3
    <3>2. now = n  BY <3>1 DEF Arriving
    <3>3. QED  BY <1>1, <2>3, <3>2
  <2>4. QED  BY <2>2, <2>3
<1>4. Arriving(p, new, n)  BY <1>2, <1>3 DEF Arriving
<1>5. QED  BY <1>4 DEF p

LEMMA UnsureStays ==
  ASSUME NEW s, NEW w, NEW q, NEW s2, NEW w2, NEW q2, Unsure(s, w, q),
         \A j \in Awards : s[j] \in {"queued", "dropped", "lost"} => s2[j] = s[j],
         \A j \in Awards : Has(w, j) => Has(w2, j),
         \A j \in Awards : InDoubt(q, j) => InDoubt(q2, j)
  PROVE  Unsure(s2, w2, q2)
BY DEF Unsure

\* A request is the user's, and until it is answered its achievement is unsure.
LEMMA Requesting ==
  ASSUME SentInv, account # NoAccount, Theirs(wire), NEW j \in Jobs, Send(j), ~Has(wire, j)
  PROVE  /\ \A i \in DOMAIN wire' : wire'[i].account = account
         /\ \A k : Has(wire', k) <=> Has(wire, k) \/ k = j
         /\ \A k \in Jobs : k # j => st'[k] = st[k]
<1> DEFINE e == [job |-> j, account |-> account]
<1>1. /\ wire \in Seq(Requested) /\ Once(wire) /\ st \in [Jobs -> JobStates]
      /\ account \in Accounts
  BY DEF SentInv, NetOK, RestTyped
<1>2. st' = [st EXCEPT ![j] = "flight"] /\ wire' = Append(wire, e)  BY DEF Send
<1>3. e \in Requested /\ e.job = j /\ e.account = account  BY <1>1 DEF Requested
<1> HIDE DEF e
<1>4. \A k : Has(wire', k) <=> Has(wire, k) \/ k = j  BY <1>1, <1>2, <1>3, OneMore
<1>5. \A i \in DOMAIN wire' : \/ i \in DOMAIN wire /\ wire'[i] = wire[i]
                              \/ i = Len(wire) + 1 /\ wire'[i] = e
  BY <1>1, <1>2, <1>3, Lengthened
<1>6. \A i \in DOMAIN wire' : wire'[i].account = account  BY <1>3, <1>5 DEF Theirs
<1>7. QED  BY <1>1, <1>2, <1>4, <1>6

\* A job is sent, for the first time or when its delay is over.
LEMMA ScoresSend ==
  ASSUME SentInv, ScoresInv, NEW j \in Jobs, Send(j), st[j] \in {"fresh", "queued"},
         UNCHANGED <<account, answers, recorded>>, j \notin Awards => score' = score
  PROVE  ScoresInv'
<1> SUFFICES ASSUME account # NoAccount
             PROVE  /\ \A i \in DOMAIN wire' : wire'[i].account = account
                    /\ \/ Unsure(st', wire', answers)
                       \/ Arriving(answers, score', Credited(account))
  BY DEF ScoresInv, Theirs, Credited
<1>1. Theirs(wire) /\ (Unsure(st, wire, answers) \/ Arriving(answers, score, Credited(account)))
  BY DEF ScoresInv
<1>2. ~Has(wire, j)  BY DEF SentInv, NetOK
<1>3. /\ \A i \in DOMAIN wire' : wire'[i].account = account
      /\ \A k : Has(wire', k) <=> Has(wire, k) \/ k = j
      /\ \A k \in Jobs : k # j => st'[k] = st[k]
  BY <1>1, <1>2, Requesting
<1>4. CASE j \in Awards
  <2>1. Unsure(st', wire', answers)  BY <1>3, <1>4 DEF Unsure
  <2>2. QED  BY <1>3, <2>1
<1>5. CASE j \notin Awards
  <2>1. \A k \in Awards : st'[k] = st[k]  BY <1>3, <1>5 DEF Jobs
  <2>2. Unsure(st, wire, answers) => Unsure(st', wire', answers)  BY <1>3, <2>1, UnsureStays
  <2>3. QED  BY <1>1, <1>3, <1>5, <2>2
<1>6. QED  BY <1>4, <1>5

\* The server answers a request, with the score it then has.
LEMMA ScoresServe ==
  ASSUME SentInv, ScoresInv, NEW outcome \in Outcomes, NEW records \in BOOLEAN,
         Serve(outcome, records)
  PROVE  ScoresInv'
<1> DEFINE r == Head(wire)
           now == [recorded EXCEPT ![r.account] = IF records THEN @ \cup {r.job} ELSE @]
           e == [job |-> r.job, outcome |-> outcome,
                 score |-> Cardinality(now[r.account] \cap Awards),
                 complete |-> Awards \subseteq now[r.account]]
           n == Cardinality(now[account] \cap Awards)
<1>1. /\ wire # << >> /\ wire' = Tail(wire) /\ recorded' = now /\ answers' = Append(answers, e)
      /\ UNCHANGED <<account, score, st>>
  BY DEF Serve, userVars, jobVars
<1> SUFFICES ASSUME account # NoAccount
             PROVE  /\ \A i \in DOMAIN wire' : wire'[i].account = account
                    /\ Unsure(st, wire', answers') \/ Arriving(answers', score, n)
  BY <1>1 DEF ScoresInv, Theirs, Credited
<1>2. Theirs(wire) /\ (Unsure(st, wire, answers) \/ Arriving(answers, score, Credited(account)))
  BY DEF ScoresInv
<1>3. /\ wire \in Seq(Requested) /\ Once(wire) /\ answers \in Seq(Response)
      /\ recorded \in [Accounts -> SUBSET Jobs]
  BY DEF SentInv, NetOK, RestTyped
<1>4. \A i \in DOMAIN wire' : i + 1 \in DOMAIN wire /\ wire'[i] = wire[i + 1]
  BY <1>1, <1>3, Shortened
<1>5. 1 \in DOMAIN wire /\ r = wire[1]  BY <1>1, <1>3, Shortened
<1>6. r \in Requested /\ \A k : Has(wire', k) <=> Has(wire, k) /\ k # r.job
  BY <1>1, <1>3, OneLess
<1>7. r.account = account /\ r.job \in Jobs /\ account \in Accounts
  BY <1>2, <1>5, <1>6 DEF Theirs, Requested
<1>8. \A i \in DOMAIN wire' : wire'[i].account = account  BY <1>2, <1>4 DEF Theirs
<1> HIDE DEF r
<1>9. now[account] = IF records THEN recorded[account] \cup {r.job} ELSE recorded[account]
  BY <1>3, <1>7
<1> HIDE DEF now
<1>10. e \in Response /\ e.job = r.job /\ e.outcome = outcome /\ e.score = n
  BY <1>7, Counted DEF Response
<1> HIDE DEF e, n
<1>11. /\ \A i \in DOMAIN answers : i \in DOMAIN answers' /\ answers'[i] = answers[i]
       /\ Len(answers) + 1 \in DOMAIN answers' /\ answers'[Len(answers) + 1] = e
  BY <1>1, <1>3, <1>10, Lengthened
<1>12. CASE r.job \in Awards /\ outcome = "ok"
  <2>1. IsOk(e)  BY <1>10, <1>12 DEF IsOk
  <2>2. Arriving(answers', score, n)  BY <1>1, <1>3, <1>10, <2>1, ArrivesLast
  <2>3. QED  BY <1>8, <2>2
<1>13. CASE r.job \in Awards /\ outcome # "ok"
  <2>1. InDoubt(answers', r.job)  BY <1>10, <1>11, <1>13 DEF InDoubt
  <2>2. QED  BY <1>8, <1>13, <2>1 DEF Unsure
<1>14. CASE r.job \notin Awards
  <2>1. now[account] \cap Awards = recorded[account] \cap Awards  BY <1>9, <1>14
  <2>2. n = Credited(account)  BY <2>1 DEF n, Credited
  <2>3. \A k \in Awards : Has(wire, k) => Has(wire', k)  BY <1>6, <1>14
  <2>4. \A k \in Awards : InDoubt(answers, k) => InDoubt(answers', k)  BY <1>11 DEF InDoubt
  <2>5. Unsure(st, wire, answers) => Unsure(st, wire', answers')  BY <2>3, <2>4, UnsureStays
  <2>6. ~IsOk(e)  BY <1>10, <1>14 DEF IsOk
  <2>7. Arriving(answers, score, n) => Arriving(answers', score, n)
    BY <1>1, <1>3, <1>10, <2>6, ArrivesOther
  <2>8. QED  BY <1>2, <1>8, <2>2, <2>5, <2>7
<1>15. QED  BY <1>12, <1>13, <1>14

\* An answer is heard.
LEMMA ScoresHandle ==
  ASSUME SentInv, ScoresInv, Handle
  PROVE  ScoresInv'
<1> DEFINE a == Head(answers)
           j == a.job
<1>1. /\ answers # << >> /\ answers' = Tail(answers) /\ Answered(a)
      /\ UNCHANGED <<account, recorded>>
  BY DEF Handle, userVars
<1> SUFFICES ASSUME account # NoAccount
             PROVE  /\ \A i \in DOMAIN wire' : wire'[i].account = account
                    /\ \/ Unsure(st', wire', answers')
                       \/ Arriving(answers', score', Credited(account))
  BY <1>1 DEF ScoresInv, Theirs, Credited
<1>2. Theirs(wire) /\ (Unsure(st, wire, answers) \/ Arriving(answers, score, Credited(account)))
  BY DEF ScoresInv
<1>3. /\ wire \in Seq(Requested) /\ answers \in Seq(Response)
      /\ st \in [Jobs -> JobStates]
  BY DEF SentInv, NetOK
<1>4. a \in Response /\ j \in Jobs /\ st[j] = "flight" /\ ~Has(wire, j)
  <2>1. Has(answers, j) /\ a \in Response  BY <1>1, OneLess DEF SentInv, NetOK
  <2>2. j \in Jobs  BY <2>1 DEF Response
  <2>3. QED  BY <2>1, <2>2 DEF SentInv, NetOK
<1>5. /\ \A i \in DOMAIN answers : i # 1 => /\ i - 1 \in DOMAIN answers'
                                            /\ answers'[i - 1] = answers[i]
      /\ answers[1] = a
  BY <1>1, <1>3, Shortened
<1>6. ASSUME Arriving(answers, score, Credited(account)),
             (IsOk(a) /\ score' = a.score) \/ (~IsOk(a) /\ score' = score)
      PROVE  Arriving(answers', score', Credited(account))
  BY <1>6, <1>1, <1>3, ArrivesNext
<1> HIDE DEF a
<1>7. \A i \in Awards : InDoubt(answers, i) /\ (i # j \/ a.outcome = "ok") => InDoubt(answers', i)
  BY <1>5 DEF InDoubt
<1> HIDE DEF j
<1>8. CASE IsOk(a)
  <2>1. Finish(j, "done") /\ score' = a.score
    <3>1. a.job \in Awards /\ a.job \notin Entries /\ a.outcome = "ok"
      BY <1>8, UnlocksAssumption DEF IsOk
    <3>2. QED  BY <1>1, <3>1 DEF Answered, ScoreAfter, j
  <2>2. st' = [st EXCEPT ![j] = "done"] /\ wire' = wire  BY <2>1 DEF Finish
  <2>3. \A i \in Jobs : i # j => st'[i] = st[i]  BY <1>3, <2>2
  <2>4. a.outcome = "ok"  BY <1>8 DEF IsOk
  <2>5. \A i \in Awards : st[i] \in {"queued", "dropped", "lost"} => st'[i] = st[i]
    BY <1>4, <2>3 DEF Jobs
  <2>6. Unsure(st, wire, answers) => Unsure(st', wire', answers')
    BY <1>7, <2>2, <2>4, <2>5, UnsureStays
  <2>7. QED  BY <1>2, <1>6, <1>8, <2>1, <2>2, <2>6 DEF Theirs
<1>9. CASE ~IsOk(a)
  <2>1. /\ score' = score
        /\ Retry(j) \/ \E end \in {"done", "dropped"} : Finish(j, end) /\ (j \in Awards => end = "dropped")
    BY <1>1, <1>9, UnlocksAssumption DEF Answered, IsOk, j, Jobs
  <2>2. /\ \A i \in DOMAIN wire' : wire'[i].account = account
        /\ \A i : Has(wire, i) => Has(wire', i)
        /\ \A i \in Jobs : i # j => st'[i] = st[i]
        /\ j \in Awards => Has(wire', j) \/ st'[j] \in {"queued", "dropped"}
    <3>1. CASE Retry(j) /\ retries[j] = 0
      <4>1. Send(j)  BY <3>1 DEF Retry
      <4>2. QED  BY <1>2, <1>4, <4>1, Requesting
    <3>2. CASE Retry(j) /\ retries[j] # 0
      <4>1. st' = [st EXCEPT ![j] = "queued"] /\ wire' = wire  BY <3>2 DEF Retry
      <4>2. QED  BY <1>2, <1>3, <1>4, <4>1 DEF Theirs
    <3>3. ASSUME NEW end \in {"done", "dropped"}, Finish(j, end), j \in Awards => end = "dropped"
          PROVE  /\ \A i \in DOMAIN wire' : wire'[i].account = account
                 /\ \A i : Has(wire, i) => Has(wire', i)
                 /\ \A i \in Jobs : i # j => st'[i] = st[i]
                 /\ j \in Awards => Has(wire', j) \/ st'[j] \in {"queued", "dropped"}
      <4>1. st' = [st EXCEPT ![j] = end] /\ wire' = wire  BY <3>3 DEF Finish
      <4>2. QED  BY <1>2, <1>3, <1>4, <3>3, <4>1 DEF Theirs
    <3>4. QED  BY <2>1, <3>1, <3>2, <3>3
  <2>3. CASE j \in Awards
    <3>1. Unsure(st', wire', answers')  BY <2>2, <2>3 DEF Unsure
    <3>2. QED  BY <2>2, <3>1
  <2>4. CASE j \notin Awards
    <3>1. \A i \in Awards : st'[i] = st[i]  BY <2>2, <2>4 DEF Jobs
    <3>2. \A i \in Awards : InDoubt(answers, i) => InDoubt(answers', i)  BY <1>7, <2>4
    <3>3. Unsure(st, wire, answers) => Unsure(st', wire', answers')
      BY <2>2, <3>1, <3>2, UnsureStays
    <3>4. QED  BY <1>2, <1>6, <1>9, <2>1, <2>2, <3>3
  <2>5. QED  BY <2>3, <2>4
<1>10. QED  BY <1>8, <1>9

LEMMA ScoresInit == Init => ScoresInv
<1> SUFFICES ASSUME Init PROVE ScoresInv  OBVIOUS
<1>1. /\ wire = << >> /\ answers = << >> /\ score = 0 /\ account \in Accounts
      /\ recorded = [u \in Accounts |-> {}]
  BY DEF Init
<1>2. recorded[account] \cap Awards = {}  BY <1>1
<1>3. Credited(account) = 0  BY <1>2, FS_EmptySet DEF Credited
<1>4. Arriving(answers, score, Credited(account))  BY <1>1, <1>3 DEF Arriving
<1>5. QED  BY <1>1, <1>4 DEF ScoresInv, Theirs

LEMMA ScoresNext ==
  ASSUME SentInv, ScoresInv, [Next]_vars
  PROVE  ScoresInv'
<1>1. ASSUME UNCHANGED <<account, score, st, wire, answers, recorded>> PROVE ScoresInv'
  BY <1>1 DEF ScoresInv, Theirs, Credited
<1>2. CASE Server  BY <1>2, ScoresServe DEF Server
<1>3. CASE Handle  BY <1>3, ScoresHandle
<1>4. CASE Frame
  <2>1. ASSUME NEW j \in Jobs, Unlock(j) \/ Submit(j) PROVE ScoresInv'
    <3>1. st[j] = "fresh" /\ Send(j) /\ UNCHANGED <<account, answers, recorded>>
      BY <2>1 DEF Unlock, Submit, Make, userVars
    <3>2. j \notin Awards => score' = score  BY <2>1 DEF Unlock, Submit
    <3>3. QED  BY <3>1, <3>2, ScoresSend
  <2>2. CASE ShowProgress \/ HideProgress \/ RaiseMastery
    BY <1>1, <2>2 DEF ShowProgress, HideProgress, RaiseMastery, userVars, jobVars, netVars
  <2>3. QED  BY <1>4, <2>1, <2>2 DEF Frame
<1>5. CASE IdlePop
  <2> DEFINE cb == Head(queue).cb
  <2>1. queue # << >> /\ Pop(cb) /\ UNCHANGED <<account, score, answers, recorded>>
    BY <1>5 DEF IdlePop, Due, userVars
  <2>2. IsQueued(queue, cb)  BY <2>1, Popping DEF IsQueued, SentInv, WaitsOK
  <2> HIDE DEF cb
  <2>3. CASE cb \in Jobs /\ Send(cb)
    <3>1. st[cb] = "queued"  BY <2>2, <2>3 DEF SentInv, WaitsOK
    <3>2. QED  BY <2>1, <2>3, <3>1, ScoresSend
  <2>4. CASE UNCHANGED <<st, wire>>  BY <1>1, <2>1, <2>4
  <2>5. QED  BY <2>1, <2>3, <2>4 DEF Pop
<1>6. CASE IdleEnd  BY <1>1, <1>6 DEF IdleEnd, userVars, jobVars, netVars
<1>7. CASE Tick  BY <1>1, <1>7 DEF Tick, userVars, netVars
<1>8. CASE Unload \/ Load  BY <1>1, <1>8 DEF Unload, Load, jobVars, netVars
<1>9. CASE Logout  BY <1>9 DEF Logout, ScoresInv
<1>10. ASSUME NEW u \in Accounts, Login(u) PROVE ScoresInv'
  <2>1. /\ account' = u /\ wire' = << >> /\ answers' = << >> /\ recorded' = recorded
        /\ score' = Cardinality(recorded[u] \cap Awards)
    BY <1>10 DEF Login, netVars
  <2>2. Arriving(answers', score', Cardinality(recorded[u] \cap Awards))  BY <2>1 DEF Arriving
  <2>3. QED  BY <2>1, <2>2 DEF ScoresInv, Theirs, Credited
<1>11. CASE UNCHANGED vars  BY <1>1, <1>11 DEF vars
<1>12. QED
  BY <1>2, <1>3, <1>4, <1>5, <1>6, <1>7, <1>8, <1>9, <1>10, <1>11 DEF Next, Idle, User

\* What the server has recorded it keeps.
LEMMA StaysComplete ==
  ASSUME SentInv, [Next]_vars, IsComplete
  PROVE  IsComplete'
<1>1. PICK u \in Accounts : Awards \subseteq recorded[u]  BY DEF IsComplete
<1>2. CASE recorded' = recorded  BY <1>1, <1>2 DEF IsComplete
<1>3. CASE Server
  <2>1. PICK outcome \in Outcomes, records \in BOOLEAN : Serve(outcome, records)
    BY <1>3 DEF Server
  <2> DEFINE r == Head(wire)
  <2>2. recorded' = [recorded EXCEPT ![r.account] = IF records THEN @ \cup {r.job} ELSE @]
    BY <2>1 DEF Serve
  <2> HIDE DEF r
  <2>3. recorded \in [Accounts -> SUBSET Jobs]  BY DEF SentInv, RestTyped
  <2>4. recorded[u] \subseteq recorded'[u]  BY <2>2, <2>3
  <2>5. QED  BY <1>1, <2>4 DEF IsComplete
<1>4. Next => Server \/ recorded' = recorded
  BY DEF Next, Handle, Frame, Unlock, Submit, Make, ShowProgress, HideProgress, RaiseMastery,
         Idle, IdlePop, IdleEnd, Tick, User, Unload, Logout, Load, Login, netVars
<1>5. QED  BY <1>2, <1>3, <1>4 DEF vars

\* Only an answer that says so makes a game complete.
LEMMA MasteryBegins ==
  ASSUME SentInv, Next
  PROVE  \/ mastery' \in {mastery, "none"}
         \/ mastery = "pending" /\ mastery' = "shown"
         \/ answers # << >> /\ Head(answers).complete
<1>1. Handle => mastery' = mastery \/ (answers # << >> /\ Head(answers).complete)
  BY DEF Handle, Answered, MasteryAfter
<1>2. Server => mastery' = mastery  BY DEF Server, Serve
<1>3. Frame => mastery' = mastery \/ (mastery = "pending" /\ mastery' = "shown")
  BY DEF Frame, Unlock, Submit, Make, ShowProgress, HideProgress, RaiseMastery
<1>4. Idle \/ Tick => mastery' = mastery  BY DEF Idle, IdlePop, IdleEnd, Tick
<1>5. User => mastery' \in {mastery, "none"}  BY DEF User, Unload, Logout, Unloaded, Load, Login
<1>6. QED  BY <1>1, <1>2, <1>3, <1>4, <1>5 DEF Next

LEMMA MasteryNext ==
  ASSUME SentInv, MasteryInv, [Next]_vars
  PROVE  MasteryInv'
<1>1. IsComplete => IsComplete'  BY StaysComplete
<1>2. answers \in Seq(Response)  BY DEF SentInv, NetOK
<1>3. \A i \in DOMAIN answers' : answers'[i].complete => IsComplete'
  <2>1. CASE answers' = answers  BY <1>1, <2>1 DEF MasteryInv
  <2>2. CASE Handle
    <3>1. answers # << >> /\ answers' = Tail(answers)  BY <2>2 DEF Handle
    <3>2. \A i \in DOMAIN answers' : i + 1 \in DOMAIN answers /\ answers'[i] = answers[i + 1]
      BY <1>2, <3>1, Shortened
    <3>3. QED  BY <1>1, <3>2 DEF MasteryInv
  <2>3. CASE Server
    <3>1. PICK outcome \in Outcomes, records \in BOOLEAN : Serve(outcome, records)
      BY <2>3 DEF Server
    <3> DEFINE r == Head(wire)
               now == [recorded EXCEPT ![r.account] = IF records THEN @ \cup {r.job} ELSE @]
               e == [job |-> r.job, outcome |-> outcome,
                     score |-> Cardinality(now[r.account] \cap Awards),
                     complete |-> Awards \subseteq now[r.account]]
    <3>2. wire # << >> /\ recorded' = now /\ answers' = Append(answers, e)
      BY <3>1 DEF Serve
    <3>3. r \in Requested  BY <3>2, OneLess DEF SentInv, NetOK
    <3>4. r.job \in Jobs /\ r.account \in Accounts  BY <3>3 DEF Requested
    <3> HIDE DEF r
    <3>5. e.complete => Awards \subseteq now[r.account]  OBVIOUS
    <3> HIDE DEF now
    <3>6. e \in Response  BY <3>4, Counted DEF Response
    <3> HIDE DEF e
    <3>7. \A i \in DOMAIN answers' : \/ i \in DOMAIN answers /\ answers'[i] = answers[i]
                                     \/ i = Len(answers) + 1 /\ answers'[i] = e
      BY <1>2, <3>2, <3>6, Lengthened
    <3>8. e.complete => IsComplete'  BY <3>2, <3>4, <3>5 DEF IsComplete
    <3>9. QED  BY <1>1, <3>7, <3>8 DEF MasteryInv
  <2>4. Next => Server \/ Handle \/ answers' = answers
    BY DEF Next, Frame, Unlock, Submit, Make, ShowProgress, HideProgress, RaiseMastery,
           Idle, IdlePop, IdleEnd, Tick, User, Unload, Logout, Load, Login, netVars
  <2>5. QED  BY <2>1, <2>2, <2>3, <2>4 DEF vars
<1>4. mastery' \in {"pending", "shown"} => IsComplete'
  <2>1. CASE mastery' \in {mastery, "none"}  BY <1>1, <2>1 DEF MasteryInv
  <2>2. CASE mastery = "pending"  BY <1>1, <2>2 DEF MasteryInv
  <2>3. CASE answers # << >> /\ Head(answers).complete
    <3>1. 1 \in DOMAIN answers /\ Head(answers) = answers[1]  BY <1>2, <2>3, Shortened
    <3>2. QED  BY <1>1, <2>3, <3>1 DEF MasteryInv
  <2>4. QED  BY <2>1, <2>2, <2>3, MasteryBegins DEF vars
<1>5. QED  BY <1>3, <1>4 DEF MasteryInv

\* When every achievement is done with and the answers heard, the scores agree.
LEMMA ScoreIsAccurate == SentInv /\ ScoresInv => ScoreAccurate
<1> SUFFICES ASSUME SentInv, ScoresInv, account # NoAccount,
                    \A j \in Awards : st[j] \in {"fresh", "done"}
             PROVE  score = Credited(account)
  BY DEF ScoreAccurate, Credited
<1>1. \A j \in Awards : ~Has(wire, j) /\ ~Has(answers, j)  BY DEF SentInv, NetOK, Jobs
<1>2. ~Unsure(st, wire, answers)
  <2>1. \A j \in Awards : InDoubt(answers, j) => Has(answers, j)  BY DEF InDoubt, Has
  <2>2. \A j \in Awards : st[j] \notin {"queued", "dropped", "lost"}  OBVIOUS
  <2>3. QED  BY <1>1, <2>1, <2>2 DEF Unsure
<1>3. \A i \in DOMAIN answers : ~IsOk(answers[i])  BY <1>1 DEF IsOk, Has
<1>4. Arriving(answers, score, Credited(account))  BY <1>2 DEF ScoresInv
<1>5. QED  BY <1>3, <1>4 DEF Arriving

LEMMA CompletionStep ==
  ASSUME SentInv, MasteryInv, Next
  PROVE  CompletedOnce
<1>1. "GAME_COMPLETED" \in raised' => mastery = "pending"
  <2>1. Server => "GAME_COMPLETED" \notin raised'  BY DEF Server, Serve
  <2>2. Handle => "GAME_COMPLETED" \notin raised'  BY DEF Handle, Answered
  <2>3. Frame => "GAME_COMPLETED" \notin raised' \/ mastery = "pending"
    BY DEF Frame, Unlock, Submit, Make, ShowProgress, HideProgress, RaiseMastery
  <2>4. Idle \/ Tick => "GAME_COMPLETED" \notin raised'  BY DEF Idle, IdlePop, Pop, IdleEnd, Tick
  <2>5. User => "GAME_COMPLETED" \notin raised'
    <3>1. Unloaded => raised' \subseteq {"PROGRESS_HIDE"}  BY DEF Unloaded
    <3>2. User => Unloaded \/ raised' = {}  BY DEF User, Unload, Logout, Load, Login
    <3>3. QED  BY <3>1, <3>2
  <2>6. QED  BY <2>1, <2>2, <2>3, <2>4, <2>5 DEF Next
<1>2. mastery = "shown" => mastery' = "shown" \/ ~loaded'
  <2>1. Handle => mastery' = mastery \/ mastery = "none"  BY DEF Handle, Answered, MasteryAfter
  <2>2. Server => mastery' = mastery  BY DEF Server, Serve
  <2>3. Frame => mastery' = mastery \/ mastery = "pending"
    BY DEF Frame, Unlock, Submit, Make, ShowProgress, HideProgress, RaiseMastery
  <2>4. Idle \/ Tick => mastery' = mastery  BY DEF Idle, IdlePop, IdleEnd, Tick
  <2>5. User => mastery' = mastery \/ loaded' = FALSE
    BY DEF User, Unload, Logout, Unloaded, Load, Login
  <2>6. QED  BY <2>1, <2>2, <2>3, <2>4, <2>5 DEF Next
<1>3. QED  BY <1>1, <1>2 DEF CompletedOnce, MasteryInv, IsComplete

LEMMA CreditAlways == Spec => []CreditInv
<1>1. Init => CreditInv
  <2>1. Init => MasteryInv  BY DEF Init, MasteryInv
  <2>2. QED  BY <2>1, ScoresInit DEF CreditInv
<1>2. SentInv /\ CreditInv /\ [Next]_vars => CreditInv'
  BY ScoresNext, MasteryNext DEF CreditInv
<1>3. QED  BY <1>1, <1>2, SentAlways, PTL DEF Spec

\* Whatever fails, is sent again or is answered after another login: once every achievement is done
\* with, the user's score is the server's, and the game is announced as completed only when the
\* server has all of them, and once.
THEOREM CountedOnce == Spec => CreditedOnce
<1>1. SentInv /\ CreditInv => ScoreAccurate  BY ScoreIsAccurate DEF CreditInv
<1>2. SentInv /\ CreditInv /\ Next => CompletedOnce  BY CompletionStep DEF CreditInv
<1>3. Spec => [][ScoreAccurate' /\ CompletedOnce]_vars
  BY <1>1, <1>2, SentAlways, CreditAlways, PTL DEF Spec
<1>4. QED  BY <1>3 DEF CreditedOnce
=============================================================================
