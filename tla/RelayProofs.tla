---------------------------- MODULE RelayProofs ----------------------------
(***************************************************************************)
(* Proofs about Relay: its types, that what is hidden stays hidden, and    *)
(* that the stem map stays sound, for any number of threads, connections   *)
(* and transactions.                                                       *)
(***************************************************************************)
EXTENDS Relay, TLAPS, SequenceTheorems, FiniteSetTheorems, NaturalsInduction, WellFoundedInduction

-----------------------------------------------------------------------------
(* The threads. *)

AnyJob == [from : Source, txs : SUBSET Tx, how : {"Local", "Forward", "Stem", "Fluff", "Seen"}]

Calls == [jobs : Seq(AnyJob), at : {"begin", "stem", "mend", "fluff", "mark"}, tries : Nat]

(* What a thread is about to mark as relayed went through a stem or out. *)
MarksSent(r) == r.jobs # << >> /\ r.at = "mark" => r.jobs[1].how \in {"Stem", "Fluff"}

ThreadsOK == thread \in [Thread -> Calls] /\ \A h \in Thread : MarksSent(thread[h])

(* A thread is given jobs. *)
LEMMA GiveEffect ==
    ASSUME ThreadsOK, NEW h \in Thread, NEW jobs \in Seq(AnyJob), Give(h, jobs)
    PROVE  /\ ThreadsOK'
           /\ thread'[h].jobs = jobs /\ thread'[h].at = "begin"
           /\ \A g \in Thread \ {h} : thread'[g] = thread[g]
  <1> DEFINE r == [jobs |-> jobs, at |-> "begin", tries |-> 0]
  <1>1. r \in Calls /\ MarksSent(r)
    BY DEF Calls, MarksSent
  <1>2. thread \in [Thread -> Calls] /\ thread' = [thread EXCEPT ![h] = r]
    BY DEF ThreadsOK, Give
  <1>3. r.jobs = jobs /\ r.at = "begin"
    OBVIOUS
  <1> HIDE DEF r
  <1>4. thread' \in [Thread -> Calls] /\ thread'[h] = r /\ \A g \in Thread \ {h} : thread'[g] = thread[g]
    BY <1>1, <1>2
  <1>5. ThreadsOK'
    BY <1>1, <1>4 DEF ThreadsOK
  <1>6. QED
    BY <1>3, <1>4, <1>5

(* The first job is done. *)
LEMMA FinishedEffect ==
    ASSUME ThreadsOK, NEW h \in Thread, Busy(h), Finished(h)
    PROVE  /\ ThreadsOK'
           /\ thread'[h].at = "begin"
           /\ \A k \in DOMAIN thread'[h].jobs :
                 \E l \in DOMAIN thread[h].jobs : thread'[h].jobs[k] = thread[h].jobs[l]
           /\ \A g \in Thread \ {h} : thread'[g] = thread[g]
  <1> DEFINE s == thread[h].jobs
  <1>1. s \in Seq(AnyJob) /\ s # << >>
    BY DEF ThreadsOK, Calls, Busy
  <1>2. Give(h, Tail(s))
    BY DEF Finished
  <1> HIDE DEF s
  <1>3. /\ Tail(s) \in Seq(AnyJob) /\ Len(Tail(s)) = Len(s) - 1
        /\ \A i \in 1..Len(Tail(s)) : Tail(s)[i] = s[i + 1]
    BY <1>1, HeadTailProperties
  <1>4. /\ ThreadsOK' /\ thread'[h].jobs = Tail(s) /\ thread'[h].at = "begin"
        /\ \A g \in Thread \ {h} : thread'[g] = thread[g]
    BY <1>2, <1>3, GiveEffect
  <1>5. ASSUME NEW k \in DOMAIN Tail(s) PROVE \E l \in DOMAIN s : Tail(s)[k] = s[l]
    <2>1. Len(s) \in Nat /\ DOMAIN s = 1..Len(s) /\ DOMAIN Tail(s) = 1..Len(Tail(s))
      BY <1>1, <1>3, LenProperties
    <2>2. k + 1 \in DOMAIN s /\ Tail(s)[k] = s[k + 1]
      BY <1>3, <2>1
    <2>3. QED
      BY <2>2
  <1>6. QED
    BY <1>4, <1>5 DEF s

(* The first job goes on as another, at another step. *)
LEMMA GoOnEffect ==
    ASSUME ThreadsOK, NEW h \in Thread, Busy(h), NEW job \in AnyJob,
           NEW at \in {"stem", "fluff", "mark"}, at = "mark" => job.how \in {"Stem", "Fluff"},
           GoOn(h, job, at)
    PROVE  /\ ThreadsOK'
           /\ thread'[h].at = at
           /\ DOMAIN thread'[h].jobs = DOMAIN thread[h].jobs
           /\ thread'[h].jobs[1] = job
           /\ \A k \in DOMAIN thread[h].jobs : k # 1 => thread'[h].jobs[k] = thread[h].jobs[k]
           /\ \A g \in Thread \ {h} : thread'[g] = thread[g]
  <1> DEFINE s == thread[h].jobs
             u == [s EXCEPT ![1] = job]
             r == [thread[h] EXCEPT !.jobs = u, !.at = at]
  <1>1. s \in Seq(AnyJob) /\ s # << >> /\ thread[h] \in Calls
    BY DEF ThreadsOK, Calls, Busy
  <1>2. 1 \in 1..Len(s) /\ Len(s) \in Nat
    BY <1>1, EmptySeq, LenProperties
  <1>3. thread' = [thread EXCEPT ![h] = r] /\ thread \in [Thread -> Calls]
    BY DEF GoOn, ThreadsOK
  <1>4. /\ u \in Seq(AnyJob) /\ Len(u) = Len(s)
        /\ \A j \in 1..Len(s) : u[j] = IF j = 1 THEN job ELSE s[j]
    <2> HIDE DEF s
    <2>1. QED
      BY <1>1, <1>2, ExceptSeq
  <1> HIDE DEF u
  <1>5. /\ r \in Calls /\ r.jobs = u /\ r.at = at
    BY <1>1, <1>4 DEF Calls
  <1>6. DOMAIN s = 1..Len(s) /\ DOMAIN u = 1..Len(s) /\ u[1] = job
    BY <1>1, <1>2, <1>4, LenProperties
  <1>7. MarksSent(r)
    BY <1>5, <1>6 DEF MarksSent
  <1> HIDE DEF r
  <1>8. thread' \in [Thread -> Calls] /\ thread'[h] = r /\ \A g \in Thread \ {h} : thread'[g] = thread[g]
    BY <1>3, <1>5
  <1>9. ThreadsOK'
    BY <1>7, <1>8 DEF ThreadsOK
  <1>10. QED
    BY <1>4, <1>5, <1>6, <1>8, <1>9

(* Only the step the thread is at changes, and how often it has mended. *)
LEMMA OntoEffect ==
    ASSUME ThreadsOK, NEW h \in Thread, NEW at \in {"stem", "mend", "fluff"},
           \/ Onto(h, at)
           \/ thread' = [thread EXCEPT ![h] = [thread[h] EXCEPT !.tries = @ + 1, !.at = at]]
    PROVE  /\ ThreadsOK'
           /\ thread'[h].at = at /\ thread'[h].jobs = thread[h].jobs
           /\ \A g \in Thread \ {h} : thread'[g] = thread[g]
  <1>1. thread[h] \in Calls /\ thread \in [Thread -> Calls]
    BY DEF ThreadsOK
  <1>2. PICK n \in Nat : thread' = [thread EXCEPT ![h] = [thread[h] EXCEPT !.tries = n, !.at = at]]
    <2>1. CASE Onto(h, at)
      <3>1. thread' = [thread EXCEPT ![h] = [thread[h] EXCEPT !.tries = thread[h].tries, !.at = at]]
            /\ thread[h].tries \in Nat
        BY <1>1, <2>1 DEF Onto, Calls
      <3>2. QED
        BY <3>1
    <2>2. CASE thread' = [thread EXCEPT ![h] = [thread[h] EXCEPT !.tries = @ + 1, !.at = at]]
      <3>1. thread' = [thread EXCEPT ![h] = [thread[h] EXCEPT !.tries = thread[h].tries + 1, !.at = at]]
            /\ thread[h].tries + 1 \in Nat
        BY <1>1, <2>2 DEF Calls
      <3>2. QED
        BY <3>1
    <2>3. QED
      BY <2>1, <2>2
  <1> DEFINE r == [thread[h] EXCEPT !.tries = n, !.at = at]
  <1>3. r \in Calls /\ r.at = at /\ r.jobs = thread[h].jobs /\ MarksSent(r)
    BY <1>1 DEF Calls, MarksSent
  <1>4. thread' = [thread EXCEPT ![h] = r]
    BY <1>2
  <1> HIDE DEF r
  <1>5. thread' \in [Thread -> Calls] /\ thread'[h] = r /\ \A g \in Thread \ {h} : thread'[g] = thread[g]
    BY <1>1, <1>3, <1>4
  <1>6. QED
    BY <1>3, <1>5 DEF ThreadsOK

-----------------------------------------------------------------------------
(* Type correctness. *)

Methods == {"None", "Local", "Forward", "Stem", "Fluff"}

LEMMA RankDomain == DOMAIN Rank = Methods \cup {"absent", "mined"}
  BY DEF Rank, Methods

TypeInv ==
    /\ TypeOK /\ ThreadsOK
    /\ hidden \in BOOLEAN
    /\ arrived \subseteq Tx \X {"Forward", "Fluff"}

LEMMA UpgradedTo ==
    ASSUME NEW t \in Tx, NEW m \in Methods
    PROVE  Upgraded(t, m) \in {m, "Fluff", pool[t]} /\ (m # "Stem" => Upgraded(t, m) \in {m, pool[t]})
  BY DEF Upgraded

(* set_relayed moves a pooled transaction on, or leaves it. *)
LEMMA MarkedTo ==
    ASSUME TypeOK, NEW T \in SUBSET Tx, NEW m \in Methods, Marked(T, m)
    PROVE  /\ pool' \in [Tx -> DOMAIN Rank]
           /\ sent' \subseteq Held'
           /\ \A t \in Tx : pool'[t] = pool[t] \/ (t \in T /\ pool'[t] = m)
  <1>1. \A t \in Tx : pool'[t] = pool[t] \/ (t \in T \cap Held /\ pool'[t] = m)
    BY DEF Marked
  <1>2. pool' \in [Tx -> DOMAIN Rank]
    <2>1. pool' = [t \in Tx |-> pool'[t]]
      BY DEF Marked
    <2>2. \A t \in Tx : pool'[t] \in DOMAIN Rank
      BY <1>1, RankDomain DEF TypeOK
    <2>3. QED
      BY <2>1, <2>2
  <1>3. Held \subseteq Held'
    BY <1>1 DEF Held, Methods
  <1>4. sent' \subseteq Held'
    BY <1>3 DEF Marked, TypeOK
  <1>5. QED
    BY <1>1, <1>2, <1>4

(* One transaction of the pool moves on. *)
LEMMA PooledTo ==
    ASSUME TypeOK, NEW t \in Tx, NEW m \in Methods \cup {pool[t]}, pool' = [pool EXCEPT ![t] = m],
           sent' = sent
    PROVE  pool' \in [Tx -> DOMAIN Rank] /\ sent' \subseteq Held'
  <1>1. pool' \in [Tx -> DOMAIN Rank]
    BY RankDomain DEF TypeOK
  <1>2. Held \subseteq Held'
    BY DEF Held, Methods, TypeOK
  <1>3. QED
    BY <1>1, <1>2 DEF TypeOK

LEMMA JobsType ==
    ASSUME NEW from \in Source, NEW txs \in SUBSET Tx,
           NEW how \in {"Local", "Forward", "Stem", "Fluff", "Seen"}
    PROVE  /\ Job(from, txs, how) \in AnyJob
           /\ <<Job(from, txs, how)>> \in Seq(AnyJob)
           /\ Jobs(from, txs, how) \in Seq(AnyJob)
           /\ << >> \in Seq(AnyJob)
           /\ \A k \in DOMAIN Jobs(from, txs, how) : Jobs(from, txs, how)[k] = Job(from, txs, how)
           /\ \A k \in DOMAIN <<Job(from, txs, how)>> :
                 <<Job(from, txs, how)>>[k] = Job(from, txs, how)
  <1> DEFINE j == Job(from, txs, how)
             js == Jobs(from, txs, how)
  <1>1. j \in AnyJob
    BY DEF Job, AnyJob
  <1>2. js = << >> \/ js = <<j>>
    BY DEF Jobs
  <1> HIDE DEF j, js
  <1>3. <<j>> \in Seq(AnyJob) /\ DOMAIN <<j>> = 1..1 /\ <<j>>[1] = j
    BY <1>1
  <1>4. << >> \in Seq(AnyJob) /\ DOMAIN << >> = {}
    OBVIOUS
  <1>5. \A k \in DOMAIN <<j>> : <<j>>[k] = j
    <2>1. \A k \in 1..1 : k = 1
      OBVIOUS
    <2>2. QED
      BY <1>3, <2>1
  <1>6. js \in Seq(AnyJob) /\ \A k \in DOMAIN js : js[k] = j
    <2>1. CASE js = << >>
      BY <1>4, <2>1
    <2>2. CASE js = <<j>>
      BY <1>3, <1>5, <2>2
    <2>3. QED
      BY <1>2, <2>1, <2>2
  <1>7. QED
    BY <1>1, <1>3, <1>4, <1>5, <1>6 DEF j, js

LEMMA ConcatJobs ==
    ASSUME NEW s \in Seq(AnyJob), NEW u \in Seq(AnyJob)
    PROVE  /\ s \o u \in Seq(AnyJob)
           /\ \A k \in DOMAIN (s \o u) : \/ \E l \in DOMAIN s : (s \o u)[k] = s[l]
                                         \/ \E l \in DOMAIN u : (s \o u)[k] = u[l]
  <1>1. /\ s \o u \in Seq(AnyJob) /\ Len(s \o u) = Len(s) + Len(u)
        /\ \A i \in 1..(Len(s) + Len(u)) :
              (s \o u)[i] = IF i <= Len(s) THEN s[i] ELSE u[i - Len(s)]
    BY ConcatProperties
  <1>2. /\ Len(s) \in Nat /\ Len(u) \in Nat /\ DOMAIN s = 1..Len(s) /\ DOMAIN u = 1..Len(u)
        /\ DOMAIN (s \o u) = 1..(Len(s) + Len(u))
    BY <1>1, LenProperties
  <1>3. ASSUME NEW k \in DOMAIN (s \o u)
        PROVE  (\E l \in DOMAIN s : (s \o u)[k] = s[l]) \/ (\E l \in DOMAIN u : (s \o u)[k] = u[l])
    <2>1. CASE k <= Len(s)
      BY <1>1, <1>2, <2>1
    <2>2. CASE k > Len(s)
      <3>1. k - Len(s) \in DOMAIN u /\ (s \o u)[k] = u[k - Len(s)]
        BY <1>1, <1>2, <2>2
      <3>2. QED
        BY <3>1
    <2>3. QED
      BY <1>2, <2>1, <2>2
  <1>4. QED
    BY <1>1, <1>3

(* The first job of a busy thread. *)
LEMMA CurrentJob ==
    ASSUME ThreadsOK, NEW h \in Thread, Busy(h)
    PROVE  /\ Current(h) \in AnyJob /\ Current(h) = thread[h].jobs[1]
           /\ 1 \in DOMAIN thread[h].jobs /\ thread[h].jobs \in Seq(AnyJob)
           /\ Current(h).txs \in SUBSET Tx /\ Current(h).from \in Source
  <1> DEFINE s == thread[h].jobs
  <1>1. s \in Seq(AnyJob) /\ s # << >>
    BY DEF ThreadsOK, Calls, Busy
  <1> HIDE DEF s
  <1>2. Head(s) \in AnyJob
    BY <1>1, HeadTailProperties
  <1>3. Head(s) = s[1]
    BY <1>1
  <1>4. Len(s) \in Nat /\ Len(s) # 0 /\ DOMAIN s = 1..Len(s)
    BY <1>1, EmptySeq, LenProperties
  <1>5. 1 \in DOMAIN s
    BY <1>4
  <1>6. QED
    BY <1>1, <1>2, <1>3, <1>5 DEF s, Current, AnyJob

(* The parts of the type invariant that have nothing to do with the pool's or
   the threads' steps. *)
Plain ==
    /\ conns \in [Conn -> {"absent", "normal", "behind", "closed", "gone"}]
    /\ embargo \subseteq Tx /\ forward \subseteq Tx
    /\ queued \in [Conn -> SUBSET Tx]
    /\ out \subseteq Tx /\ foreign \subseteq Tx
    /\ events \in 0..MaxEvents
    /\ hidden \in BOOLEAN
    /\ arrived \subseteq Tx \X {"Forward", "Fluff"}

PoolOK == pool \in [Tx -> DOMAIN Rank] /\ sent \subseteq Held

LEMMA TypeInvParts == TypeInv <=> Plain /\ PoolOK /\ ThreadsOK
  <1>1. ThreadsOK => \A h \in Thread : thread[h].at \in {"begin", "stem", "mend", "fluff", "mark"}
    BY DEF ThreadsOK, Calls
  <1>2. QED
    BY <1>1 DEF TypeInv, TypeOK, Plain, PoolOK

LEMMA TypeInvPartsPrime == (TypeInv <=> Plain /\ PoolOK /\ ThreadsOK)'
  BY TypeInvParts, PTL

LEMMA PoolSame == ASSUME PoolOK, UNCHANGED <<pool, sent>> PROVE PoolOK'
  BY DEF PoolOK, Held

LEMMA EventsStep == ASSUME events \in 0..MaxEvents, Event PROVE events' \in 0..MaxEvents
  BY RelayAssumption DEF Event

LEMMA InitType == Init => TypeInv
  <1> SUFFICES ASSUME Init PROVE TypeInv
    OBVIOUS
  <1>1. Plain
    BY RelayAssumption DEF Init, Plain
  <1>2. PoolOK
    BY RankDomain DEF Init, PoolOK
  <1>3. ThreadsOK
    <2>1. Idle \in Calls /\ MarksSent(Idle)
      BY DEF Idle, Calls, MarksSent
    <2>2. QED
      BY <2>1 DEF Init, ThreadsOK
  <1>4. QED
    BY <1>1, <1>2, <1>3, TypeInvParts

(* The steps of relay_txs. *)
LEMMA BeginType ==
    ASSUME TypeInv, NEW h \in Thread, Begin(h)
    PROVE  TypeInv'
  <1> DEFINE j == Current(h)
             T == IF j.how = "Local" THEN j.txs \ embargo ELSE j.txs
  <1>0. Plain /\ PoolOK /\ ThreadsOK /\ TypeOK
    BY TypeInvParts DEF TypeInv
  <1>1. /\ j \in AnyJob /\ T \in SUBSET Tx /\ j.txs \in SUBSET Tx
        /\ Busy(h)
    BY <1>0, CurrentJob DEF Begin
  <1>2. /\ UNCHANGED <<queued, arrived, foreign, conns, hidden, events>>
        /\ \/ forward' = forward \cup T /\ Finished(h) /\ UNCHANGED <<pool, sent, embargo, out>>
           \/ embargo' = embargo \ T /\ Finished(h) /\ UNCHANGED <<pool, sent, forward, out>>
           \/ Finished(h) /\ UNCHANGED <<pool, sent, forward, embargo, out>>
           \/ ToZone(h, T) /\ UNCHANGED <<forward, embargo>>
           \/ ToPeers(h, T) /\ UNCHANGED <<forward, embargo>>
    BY DEF Begin, fixed
  <1> HIDE DEF T
  <1>3. CASE Finished(h) /\ UNCHANGED <<pool, sent, out>>
             /\ forward' \in SUBSET Tx /\ embargo' \in SUBSET Tx
    <2>1. Plain'
      BY <1>0, <1>2, <1>3 DEF Plain
    <2>2. PoolOK'
      BY <1>0, <1>3, PoolSame
    <2>3. ThreadsOK'
      BY <1>0, <1>1, <1>3, FinishedEffect
    <2>4. QED
      BY <2>1, <2>2, <2>3, TypeInvPartsPrime
  <1>4. CASE ToZone(h, T) /\ UNCHANGED <<forward, embargo>>
    <2>1. Plain'
      BY <1>0, <1>1, <1>2, <1>4 DEF Plain, ToZone
    <2>2. PoolOK'
      <3>1. CASE UNCHANGED <<pool, sent>>
        BY <1>0, <3>1, PoolSame
      <3>2. CASE Marked(T, "Local")
        BY <1>0, <1>1, <3>2, MarkedTo DEF Methods, PoolOK
      <3>3. QED
        BY <1>4, <3>1, <3>2 DEF ToZone
    <2>3. ThreadsOK'
      BY <1>0, <1>1, <1>4, FinishedEffect DEF ToZone
    <2>4. QED
      BY <2>1, <2>2, <2>3, TypeInvPartsPrime
  <1>5. CASE ToPeers(h, T) /\ UNCHANGED <<forward, embargo>>
    <2>1. Plain'
      BY <1>0, <1>2, <1>5 DEF Plain, ToPeers
    <2>2. PoolOK'
      BY <1>0, <1>5, PoolSame DEF ToPeers
    <2>3. ThreadsOK'
      <3>1. PICK at \in {"stem", "fluff"} : GoOn(h, [j EXCEPT !.txs = T], at)
        BY <1>5 DEF ToPeers
      <3>2. [j EXCEPT !.txs = T] \in AnyJob
        BY <1>1 DEF AnyJob
      <3>3. QED
        BY <1>0, <1>1, <3>1, <3>2, GoOnEffect
    <2>4. QED
      BY <2>1, <2>2, <2>3, TypeInvPartsPrime
  <1>6. forward \cup T \in SUBSET Tx /\ embargo \ T \in SUBSET Tx /\ forward \in SUBSET Tx /\ embargo \in SUBSET Tx
    BY <1>0, <1>1 DEF Plain
  <1>7. QED
    BY <1>2, <1>3, <1>4, <1>5, <1>6

LEMMA StemType ==
    ASSUME TypeInv, NEW h \in Thread, Stem(h)
    PROVE  TypeInv'
  <1> DEFINE j == Current(h)
             T == Fresh(j)
  <1>0. Plain /\ PoolOK /\ ThreadsOK /\ TypeOK
    BY TypeInvParts DEF TypeInv
  <1>1. j \in AnyJob /\ T \in SUBSET Tx /\ j.from \in Source /\ Busy(h)
    BY <1>0, CurrentJob DEF Stem, Fresh
  <1>2. /\ UNCHANGED <<pool, sent, queued, forward, arrived, out, foreign, conns, hidden, events>>
        /\ \/ Finished(h) /\ UNCHANGED embargo
           \/ embargo' = embargo \cup T /\ GoOn(h, Job(j.from, T, "Stem"), "mark")
           \/ Onto(h, "mend") /\ UNCHANGED embargo
    BY DEF Stem, fixed, seen
  <1>3. Plain'
    BY <1>0, <1>1, <1>2 DEF Plain
  <1>4. PoolOK'
    BY <1>0, <1>2, PoolSame
  <1>5. ThreadsOK'
    <2>1. Job(j.from, T, "Stem") \in AnyJob /\ Job(j.from, T, "Stem").how = "Stem"
      BY <1>1 DEF Job, AnyJob
    <2> HIDE DEF T
    <2>2. CASE Finished(h)
      BY <1>0, <1>1, <2>2, FinishedEffect
    <2>3. CASE GoOn(h, Job(j.from, T, "Stem"), "mark")
      BY <1>0, <1>1, <2>1, <2>3, GoOnEffect
    <2>4. CASE Onto(h, "mend")
      BY <1>0, <2>4, OntoEffect
    <2>5. QED
      BY <1>2, <2>2, <2>3, <2>4
  <1>6. QED
    BY <1>3, <1>4, <1>5, TypeInvPartsPrime

LEMMA MendType ==
    ASSUME TypeInv, NEW h \in Thread, Mend(h)
    PROVE  TypeInv'
  <1>0. Plain /\ PoolOK /\ ThreadsOK /\ TypeOK
    BY TypeInvParts DEF TypeInv
  <1>1. /\ UNCHANGED <<pool, sent, embargo, queued, forward, arrived, out, foreign, conns, hidden, events>>
        /\ \E at \in {"stem", "mend", "fluff"} :
              thread' = [thread EXCEPT ![h] = [thread[h] EXCEPT !.tries = @ + 1, !.at = at]]
    BY DEF Mend, fixed, seen
  <1>2. Plain'
    BY <1>0, <1>1 DEF Plain
  <1>3. PoolOK'
    BY <1>0, <1>1, PoolSame
  <1>4. ThreadsOK'
    BY <1>0, <1>1, OntoEffect
  <1>5. QED
    BY <1>2, <1>3, <1>4, TypeInvPartsPrime

LEMMA FluffType ==
    ASSUME TypeInv, NEW h \in Thread, Fluff(h)
    PROVE  TypeInv'
  <1> DEFINE j == Current(h)
  <1>0. Plain /\ PoolOK /\ ThreadsOK /\ TypeOK
    BY TypeInvParts DEF TypeInv
  <1>1. j \in AnyJob /\ j.txs \in SUBSET Tx /\ Busy(h)
    BY <1>0, CurrentJob DEF Fluff
  <1>2. /\ UNCHANGED <<pool, sent, forward, arrived, out, foreign, conns, hidden, events>>
        /\ embargo' = embargo \ j.txs
        /\ queued' = [c \in Conn |-> IF c \in Targets(j.from) THEN queued[c] \cup j.txs ELSE queued[c]]
        /\ Finished(h) \/ GoOn(h, [j EXCEPT !.how = "Fluff"], "mark")
    BY DEF Fluff, fixed, seen, AfterFluff
  <1>3. Plain'
    BY <1>0, <1>1, <1>2 DEF Plain
  <1>4. PoolOK'
    BY <1>0, <1>2, PoolSame
  <1>5. ThreadsOK'
    <2>1. [j EXCEPT !.how = "Fluff"] \in AnyJob /\ [j EXCEPT !.how = "Fluff"].how = "Fluff"
      BY <1>1 DEF AnyJob
    <2>2. QED
      BY <1>0, <1>1, <1>2, <2>1, FinishedEffect, GoOnEffect
  <1>6. QED
    BY <1>3, <1>4, <1>5, TypeInvPartsPrime

LEMMA MarkType ==
    ASSUME TypeInv, NEW h \in Thread, Mark(h)
    PROVE  TypeInv'
  <1> DEFINE j == Current(h)
  <1>0. Plain /\ PoolOK /\ ThreadsOK /\ TypeOK
    BY TypeInvParts DEF TypeInv
  <1>1. j.txs \in SUBSET Tx /\ Busy(h) /\ j = thread[h].jobs[1]
    BY <1>0, CurrentJob DEF Mark
  <1>2. j.how \in Methods
    BY <1>0, <1>1 DEF Mark, ThreadsOK, MarksSent, Busy, Methods
  <1>3. /\ Marked(j.txs, j.how) /\ Finished(h)
        /\ UNCHANGED <<embargo, queued, forward, arrived, out, foreign, conns, hidden, events>>
    BY DEF Mark, fixed, seen, wire
  <1>4. Plain'
    BY <1>0, <1>3 DEF Plain
  <1>5. PoolOK'
    BY <1>0, <1>1, <1>2, <1>3, MarkedTo DEF PoolOK
  <1>6. ThreadsOK'
    BY <1>0, <1>1, <1>3, FinishedEffect
  <1>7. QED
    BY <1>4, <1>5, <1>6, TypeInvPartsPrime

(* Where transactions come from. *)
LEMMA JobsForType ==
    ASSUME NEW from \in Source, NEW t \in Tx, NEW m
    PROVE  JobsFor(from, t, m) \in Seq(AnyJob)
  <1>1. \A how \in {"Stem", "Fluff"} : <<Job(from, {t}, how)>> \in Seq(AnyJob)
    BY JobsType
  <1>2. << >> \in Seq(AnyJob)
    OBVIOUS
  <1>3. QED
    BY <1>1, <1>2 DEF JobsFor

LEMMA ReceiveType ==
    ASSUME TypeInv, NEW c \in Conn, NEW t \in Tx, NEW fluff \in BOOLEAN, Receive(c, t, fluff)
    PROVE  TypeInv'
  <1> DEFINE m == Upgraded(t, IF fluff THEN "Fluff" ELSE "Stem")
  <1>0. Plain /\ PoolOK /\ ThreadsOK /\ TypeOK
    BY TypeInvParts DEF TypeInv
  <1>1. /\ UNCHANGED <<sent, embargo, queued, forward, arrived, conns, hidden>>
        /\ foreign' = foreign \cup {t} /\ out' = IF fluff THEN out \cup {t} ELSE out
        /\ \/ pool' = pool /\ Give(c, IF fluff THEN <<Job(c, {t}, "Seen")>> ELSE << >>)
           \/ pool' = [pool EXCEPT ![t] = m] /\ Give(c, JobsFor(c, t, m))
    BY DEF Receive, fixed, wire
  <1>2. m \in Methods \cup {pool[t]}
    <2>1. (IF fluff THEN "Fluff" ELSE "Stem") \in Methods
      BY DEF Methods
    <2>2. QED
      BY <2>1, UpgradedTo DEF Methods
  <1>3. Event
    BY DEF Receive
  <1> HIDE DEF m
  <1>4. Plain'
    BY <1>0, <1>1, <1>3, EventsStep DEF Plain
  <1>5. PoolOK'
    BY <1>0, <1>1, <1>2, PooledTo, PoolSame DEF PoolOK
  <1>6. ThreadsOK'
    <2>1. c \in Thread /\ c \in Source
      BY DEF Thread, Source
    <2>2. /\ JobsFor(c, t, m) \in Seq(AnyJob) /\ << >> \in Seq(AnyJob)
          /\ <<Job(c, {t}, "Seen")>> \in Seq(AnyJob)
      BY <2>1, JobsForType, JobsType
    <2>3. PICK js \in Seq(AnyJob) : Give(c, js)
      BY <1>1, <2>2
    <2>4. QED
      BY <1>0, <2>1, <2>3, GiveEffect
  <1>7. QED
    BY <1>4, <1>5, <1>6, TypeInvPartsPrime

LEMMA HiddenReceiveType ==
    ASSUME TypeInv, NEW t \in Tx, NEW fluff \in BOOLEAN, HiddenReceive(t, fluff)
    PROVE  TypeInv'
  <1> DEFINE m == Upgraded(t, IF fluff THEN "Fluff" ELSE "Forward")
  <1>0. Plain /\ PoolOK /\ ThreadsOK /\ TypeOK
    BY TypeInvParts DEF TypeInv
  <1>1. /\ UNCHANGED <<sent, embargo, queued, forward, thread, conns, hidden>>
        /\ foreign' = foreign \cup {t} /\ out' = IF fluff THEN out \cup {t} ELSE out
        /\ pool' = [pool EXCEPT ![t] = m]
        /\ arrived' = arrived \cup {<<t, IF m = "Fluff" THEN "Fluff" ELSE "Forward">>}
    BY DEF HiddenReceive, fixed, wire
  <1>2. m \in Methods \cup {pool[t]}
    <2>1. (IF fluff THEN "Fluff" ELSE "Forward") \in Methods
      BY DEF Methods
    <2>2. QED
      BY <2>1, UpgradedTo DEF Methods
  <1>3. Event
    BY DEF HiddenReceive
  <1> HIDE DEF m
  <1>4. Plain'
    BY <1>0, <1>1, <1>3, EventsStep DEF Plain
  <1>5. PoolOK'
    BY <1>0, <1>1, <1>2, PooledTo DEF PoolOK
  <1>6. ThreadsOK'
    BY <1>0, <1>1 DEF ThreadsOK
  <1>7. QED
    BY <1>4, <1>5, <1>6, TypeInvPartsPrime

LEMMA SubmitType ==
    ASSUME TypeInv, NEW h \in Rpc, NEW t \in Tx, NEW keep \in BOOLEAN, Submit(h, t, keep)
    PROVE  TypeInv'
  <1> DEFINE m == Upgraded(t, IF keep THEN "None" ELSE "Local")
  <1>0. Plain /\ PoolOK /\ ThreadsOK /\ TypeOK
    BY TypeInvParts DEF TypeInv
  <1>1. /\ UNCHANGED <<sent, embargo, queued, forward, arrived, out, foreign, conns, hidden>>
        /\ pool' = [pool EXCEPT ![t] = m]
        /\ Give(h, IF keep THEN << >> ELSE <<Job(Self, {t}, "Local")>>)
    BY DEF Submit, fixed, wire, seen
  <1>2. m \in Methods \cup {pool[t]}
    <2>1. (IF keep THEN "None" ELSE "Local") \in Methods
      BY DEF Methods
    <2>2. QED
      BY <2>1, UpgradedTo DEF Methods
  <1>3. Event
    BY DEF Submit
  <1> HIDE DEF m
  <1>4. Plain'
    BY <1>0, <1>1, <1>3, EventsStep DEF Plain
  <1>5. PoolOK'
    BY <1>0, <1>1, <1>2, PooledTo DEF PoolOK
  <1>6. ThreadsOK'
    <2>1. h \in Thread /\ Self \in Source
      BY DEF Thread, Source
    <2>2. << >> \in Seq(AnyJob) /\ <<Job(Self, {t}, "Local")>> \in Seq(AnyJob)
      BY <2>1, JobsType
    <2>3. PICK js \in Seq(AnyJob) : Give(h, js)
      BY <1>1, <2>2
    <2>4. QED
      BY <1>0, <2>1, <2>3, GiveEffect
  <1>7. QED
    BY <1>4, <1>5, <1>6, TypeInvPartsPrime

LEMMA RelayTxType ==
    ASSUME TypeInv, NEW h \in Rpc, NEW t \in Tx, RelayTx(h, t)
    PROVE  TypeInv'
  <1>0. Plain /\ PoolOK /\ ThreadsOK /\ TypeOK
    BY TypeInvParts DEF TypeInv
  <1>1. /\ UNCHANGED <<pool, sent, embargo, queued, forward, arrived, out, foreign, conns, hidden>>
        /\ Give(h, <<Job(Self, {t}, IF pool[t] = "Fluff" THEN "Fluff" ELSE "Local")>>) /\ Event
    BY DEF RelayTx, fixed, wire, seen
  <1>2. Plain'
    BY <1>0, <1>1, EventsStep DEF Plain
  <1>3. PoolOK'
    BY <1>0, <1>1, PoolSame
  <1>4. ThreadsOK'
    <2>1. h \in Thread /\ Self \in Source
      BY DEF Thread, Source
    <2>2. <<Job(Self, {t}, "Fluff")>> \in Seq(AnyJob) /\ <<Job(Self, {t}, "Local")>> \in Seq(AnyJob)
      BY <2>1, JobsType
    <2>3. PICK js \in Seq(AnyJob) : Give(h, js)
      BY <1>1, <2>2
    <2>4. QED
      BY <1>0, <2>1, <2>3, GiveEffect
  <1>5. QED
    BY <1>2, <1>3, <1>4, TypeInvPartsPrime

(* The ticks that give the ticker something to relay. *)
LEMMA TickJobsType ==
    ASSUME TypeInv, NEW js \in Seq(AnyJob), Give(Ticker, js),
           embargo' \in SUBSET embargo, forward' \in SUBSET forward, arrived' \in SUBSET arrived,
           UNCHANGED <<pool, sent, queued, out, foreign, conns, hidden, events>>
    PROVE  TypeInv'
  <1>0. Plain /\ PoolOK /\ ThreadsOK
    BY TypeInvParts
  <1>1. Plain'
    BY <1>0 DEF Plain
  <1>2. PoolOK'
    BY <1>0, PoolSame
  <1>3. ThreadsOK'
    <2>1. Ticker \in Thread
      BY DEF Thread
    <2>2. QED
      BY <1>0, <2>1, GiveEffect
  <1>4. QED
    BY <1>1, <1>2, <1>3, TypeInvPartsPrime

LEMMA TickArrivedJobs ==
    ASSUME TickArrived
    PROVE  \E js \in Seq(AnyJob) :
              /\ Give(Ticker, js)
              /\ \A k \in DOMAIN js :
                    /\ js[k].how \in {"Forward", "Fluff"}
                    /\ \A t \in js[k].txs : <<t, js[k].how>> \in arrived
  <1> DEFINE of(how) == {t \in Tx : <<t, how>> \in arrived}
             as(how) == Jobs(Self, of(how), how)
  <1>1. Give(Ticker, as("Forward") \o as("Fluff"))
    BY DEF TickArrived
  <1>2. Self \in Source /\ \A how : of(how) \in SUBSET Tx
    BY DEF Source
  <1> HIDE DEF of
  <1>3. \A how \in {"Forward", "Fluff"} :
           as(how) \in Seq(AnyJob) /\ \A k \in DOMAIN as(how) : as(how)[k] = Job(Self, of(how), how)
    BY <1>2, JobsType, ZenonT(40)
  <1>4. \A how \in {"Forward", "Fluff"} : \A k \in DOMAIN as(how) :
           as(how)[k].how = how /\ as(how)[k].txs = of(how)
    BY <1>3 DEF Job
  <1> DEFINE a == as("Forward")
             b == as("Fluff")
             Fine(job) == /\ job.how \in {"Forward", "Fluff"}
                          /\ \A t \in job.txs : <<t, job.how>> \in arrived
  <1>5. a \in Seq(AnyJob) /\ b \in Seq(AnyJob)
    BY <1>3
  <1>6. (\A k \in DOMAIN a : Fine(a[k])) /\ \A k \in DOMAIN b : Fine(b[k])
    BY <1>4 DEF of
  <1>7. Give(Ticker, a \o b)
    BY <1>1
  <1> HIDE DEF a, b, Fine
  <1>8. a \o b \in Seq(AnyJob) /\ \A k \in DOMAIN (a \o b) : Fine((a \o b)[k])
    BY <1>5, <1>6, ConcatJobs
  <1>9. QED
    BY <1>7, <1>8 DEF Fine

LEMMA TickWalkJobs ==
    ASSUME NEW S \in SUBSET Tx, TickWalk(S)
    PROVE  \E js \in Seq(AnyJob) :
              /\ Give(Ticker, js)
              /\ \A k \in DOMAIN js :
                    /\ js[k].txs \in SUBSET S
                    /\ js[k].how # "Local" =>
                          \A t \in js[k].txs : pool[t] \in {"Forward", "Stem", "Fluff"}
  <1> DEFINE of(M) == {t \in S : pool[t] \in M}
             a == Jobs(Self, of({"Local"}), "Local")
             b == Jobs(Self, of({"Stem", "Fluff"}), "Fluff")
             c == Jobs(Self, of({"Forward"}), "Forward")
             Fine(job) == /\ job.txs \in SUBSET S
                          /\ job.how # "Local" =>
                                \A t \in job.txs : pool[t] \in {"Forward", "Stem", "Fluff"}
  <1>1. Give(Ticker, (a \o b) \o c)
    BY DEF TickWalk
  <1>2. Self \in Source /\ \A M : of(M) \in SUBSET Tx
    BY DEF Source
  <1>3. /\ Fine(Job(Self, of({"Local"}), "Local"))
        /\ Fine(Job(Self, of({"Stem", "Fluff"}), "Fluff"))
        /\ Fine(Job(Self, of({"Forward"}), "Forward"))
    BY DEF Job
  <1> HIDE DEF of
  <1>4. /\ a \in Seq(AnyJob) /\ \A k \in DOMAIN a : a[k] = Job(Self, of({"Local"}), "Local")
        /\ b \in Seq(AnyJob) /\ \A k \in DOMAIN b : b[k] = Job(Self, of({"Stem", "Fluff"}), "Fluff")
        /\ c \in Seq(AnyJob) /\ \A k \in DOMAIN c : c[k] = Job(Self, of({"Forward"}), "Forward")
    BY <1>2, JobsType
  <1> HIDE DEF a, b, c
  <1>5. /\ \A k \in DOMAIN a : Fine(a[k])
        /\ \A k \in DOMAIN b : Fine(b[k])
        /\ \A k \in DOMAIN c : Fine(c[k])
    <2> HIDE DEF Fine
    <2>1. QED
      BY <1>3, <1>4
  <1> HIDE DEF Fine
  <1>6. a \o b \in Seq(AnyJob) /\ \A k \in DOMAIN (a \o b) : Fine((a \o b)[k])
    BY <1>4, <1>5, ConcatJobs
  <1> DEFINE ab == a \o b
  <1> HIDE DEF ab
  <1>7. ab \in Seq(AnyJob) /\ \A k \in DOMAIN ab : Fine(ab[k])
    BY <1>6 DEF ab
  <1>8. ab \o c \in Seq(AnyJob) /\ \A k \in DOMAIN (ab \o c) : Fine((ab \o c)[k])
    BY <1>4, <1>5, <1>7, ConcatJobs
  <1>9. Give(Ticker, ab \o c)
    BY <1>1 DEF ab
  <1>10. QED
    BY <1>8, <1>9 DEF Fine

LEMMA TicksType ==
    ASSUME TypeInv
    PROVE  /\ TickArrived => TypeInv'
           /\ \A S \in SUBSET Tx : TickForward(S) \/ TickEmbargo(S) \/ TickWalk(S) => TypeInv'
           /\ \A C \in SUBSET Conn : TickFlush(C) => TypeInv'
           /\ NewEpoch => TypeInv'
  <1>0. Plain /\ PoolOK /\ ThreadsOK /\ Self \in Source
    BY TypeInvParts DEF Source
  <1>1. ASSUME TickArrived PROVE TypeInv'
    <2>1. PICK js \in Seq(AnyJob) : Give(Ticker, js)
      BY <1>1, TickArrivedJobs
    <2>2. arrived' = {} /\ UNCHANGED <<pool, sent, embargo, forward, queued, out, foreign, conns, hidden, events>>
      BY <1>1 DEF TickArrived, wire, seen, fixed
    <2>3. QED
      BY <2>1, <2>2, TickJobsType
  <1>2. ASSUME NEW S \in SUBSET Tx, TickForward(S) PROVE TypeInv'
    <2>1. Give(Ticker, <<Job(Self, S, "Stem")>>) /\ <<Job(Self, S, "Stem")>> \in Seq(AnyJob)
      BY <1>0, <1>2, JobsType DEF TickForward
    <2>2. /\ forward' = forward \ S
          /\ UNCHANGED <<pool, sent, embargo, arrived, queued, out, foreign, conns, hidden, events>>
      BY <1>2 DEF TickForward, seen, fixed
    <2>3. QED
      BY <2>1, <2>2, TickJobsType
  <1>3. ASSUME NEW S \in SUBSET Tx, TickEmbargo(S) PROVE TypeInv'
    <2>1. Give(Ticker, <<Job(Self, S, "Fluff")>>) /\ <<Job(Self, S, "Fluff")>> \in Seq(AnyJob)
      BY <1>0, <1>3, JobsType DEF TickEmbargo
    <2>2. /\ embargo' = embargo \ S
          /\ UNCHANGED <<pool, sent, forward, arrived, queued, out, foreign, conns, hidden, events>>
      BY <1>3 DEF TickEmbargo, seen, fixed
    <2>3. QED
      BY <2>1, <2>2, TickJobsType
  <1>4. ASSUME NEW S \in SUBSET Tx, TickWalk(S) PROVE TypeInv'
    <2>1. PICK js \in Seq(AnyJob) : Give(Ticker, js)
      BY <1>4, TickWalkJobs
    <2>2. UNCHANGED <<pool, sent, embargo, forward, arrived, queued, out, foreign, conns, hidden, events>>
      BY <1>4 DEF TickWalk, wire, seen, fixed
    <2>3. QED
      BY <2>1, <2>2, TickJobsType
  <1>5. ASSUME NEW C \in SUBSET Conn, TickFlush(C) PROVE TypeInv'
    <2>1. Plain'
      BY <1>0, <1>5 DEF TickFlush, Plain, fixed
    <2>2. PoolOK'
      BY <1>0, <1>5, PoolSame DEF TickFlush
    <2>3. ThreadsOK'
      BY <1>0, <1>5 DEF TickFlush, ThreadsOK
    <2>4. QED
      BY <2>1, <2>2, <2>3, TypeInvPartsPrime
  <1>6. ASSUME NewEpoch PROVE TypeInv'
    <2>1. Plain'
      BY <1>0, <1>6, EventsStep DEF NewEpoch, Plain, fixed, seen
    <2>2. PoolOK'
      BY <1>0, <1>6, PoolSame DEF NewEpoch
    <2>3. ThreadsOK'
      BY <1>0, <1>6 DEF NewEpoch, ThreadsOK
    <2>4. QED
      BY <2>1, <2>2, <2>3, TypeInvPartsPrime
  <1>7. QED
    BY <1>1, <1>2, <1>3, <1>4, <1>5, <1>6

(* The environment's steps. *)
LEMMA EnvironmentType ==
    ASSUME TypeInv,
           \/ \E c \in Conn : Connect(c) \/ FallBehind(c) \/ CatchUp(c) \/ Close(c) \/ Forget(c)
           \/ ZoneChanges
           \/ \E t \in Tx : Mine(t)
           \/ Restart
    PROVE  TypeInv'
  <1>0. Plain /\ PoolOK /\ ThreadsOK /\ TypeOK
    BY TypeInvParts DEF TypeInv
  <1>1. ASSUME NEW c \in Conn, Connect(c) \/ FallBehind(c) \/ CatchUp(c) \/ Close(c) \/ Forget(c)
        PROVE  TypeInv'
    <2>1. /\ UNCHANGED <<pool, sent, embargo, forward, queued, arrived, hidden, thread, out, foreign>>
          /\ UNCHANGED events \/ Event
          /\ \E at \in {"normal", "behind", "closed", "gone"} : conns' = [conns EXCEPT ![c] = at]
      BY <1>1 DEF Connect, FallBehind, CatchUp, Close, Forget, Rest, wire, seen
    <2>2. Plain'
      BY <1>0, <2>1, EventsStep DEF Plain
    <2>3. PoolOK' /\ ThreadsOK'
      BY <1>0, <2>1, PoolSame DEF ThreadsOK
    <2>4. QED
      BY <2>2, <2>3, TypeInvPartsPrime
  <1>2. ASSUME ZoneChanges PROVE TypeInv'
    <2>1. Plain'
      BY <1>0, <1>2, EventsStep DEF ZoneChanges, Rest, wire, Plain, seen
    <2>2. PoolOK' /\ ThreadsOK'
      BY <1>0, <1>2, PoolSame DEF ZoneChanges, Rest, wire, ThreadsOK
    <2>3. QED
      BY <2>1, <2>2, TypeInvPartsPrime
  <1>3. ASSUME NEW t \in Tx, Mine(t) PROVE TypeInv'
    <2>1. Plain'
      BY <1>0, <1>3, EventsStep DEF Mine, wire, seen, fixed, Plain
    <2>2. PoolOK'
      BY <1>0, <1>3, RankDomain DEF Mine, PoolOK, Held
    <2>3. ThreadsOK'
      BY <1>0, <1>3 DEF Mine, ThreadsOK
    <2>4. QED
      BY <2>1, <2>2, <2>3, TypeInvPartsPrime
  <1>4. ASSUME Restart PROVE TypeInv'
    <2>1. Plain'
      BY <1>0, <1>4, EventsStep DEF Restart, Plain, seen
    <2>2. PoolOK'
      BY <1>0, <1>4 DEF Restart, PoolOK
    <2>3. ThreadsOK'
      <3>1. Idle \in Calls /\ MarksSent(Idle)
        BY DEF Idle, Calls, MarksSent
      <3>2. QED
        BY <1>4, <3>1 DEF Restart, ThreadsOK
    <2>4. QED
      BY <2>1, <2>2, <2>3, TypeInvPartsPrime
  <1>5. QED
    BY <1>1, <1>2, <1>3, <1>4

LEMMA TypeInvStep == TypeInv /\ [Next]_vars => TypeInv'
  <1> SUFFICES ASSUME TypeInv, [Next]_vars PROVE TypeInv'
    OBVIOUS
  <1>1. ASSUME NEW h \in Thread, Run(h) PROVE TypeInv'
    BY <1>1, BeginType, StemType, MendType, FluffType, MarkType DEF Run
  <1>2. CASE UNCHANGED vars
    <2>1. Plain /\ PoolOK /\ ThreadsOK
      BY TypeInvParts
    <2>2. Plain' /\ PoolOK' /\ ThreadsOK'
      BY <1>2, <2>1, PoolSame DEF vars, Plain, ThreadsOK
    <2>3. QED
      BY <2>2, TypeInvPartsPrime
  <1>3. ASSUME NEW c \in Conn, NEW t \in Tx, NEW fluff \in BOOLEAN, Receive(c, t, fluff) PROVE TypeInv'
    BY <1>3, ReceiveType
  <1>4. ASSUME NEW t \in Tx, NEW fluff \in BOOLEAN, HiddenReceive(t, fluff) PROVE TypeInv'
    BY <1>4, HiddenReceiveType
  <1>5. ASSUME NEW h \in Rpc, NEW t \in Tx, (\E keep \in BOOLEAN : Submit(h, t, keep)) \/ RelayTx(h, t)
        PROVE  TypeInv'
    BY <1>5, SubmitType, RelayTxType
  <1>6. QED
    BY <1>1, <1>2, <1>3, <1>4, <1>5, TicksType, EnvironmentType DEF Next

LEMMA TypeInvHolds == Spec => []TypeInv
  <1>1. Init => TypeInv
    BY InitType
  <1>2. TypeInv /\ [Next]_vars => TypeInv'
    BY TypeInvStep
  <1>3. QED
    BY <1>1, <1>2, PTL DEF Spec

-----------------------------------------------------------------------------
(* What is hidden. *)

JobClear(j) == j.how \in {"Forward", "Stem", "Fluff"} => j.txs \subseteq foreign

(* A job that has gone past its first step is not of this node's own. *)
AtClear(r) == r.jobs # << >> /\ r.at # "begin" => r.jobs[1].how \in {"Stem", "Fluff"}

HiddenThreads ==
    \A h \in Thread : AtClear(thread[h]) /\ \A k \in DOMAIN thread[h].jobs : JobClear(thread[h].jobs[k])

HiddenPool ==
    /\ \A t \in Tx : pool[t] \in {"Forward", "Stem", "Fluff"} => t \in foreign
    /\ embargo \subseteq foreign /\ forward \subseteq foreign
    /\ \A c \in Conn : queued[c] \subseteq foreign
    /\ \A t, m : <<t, m>> \in arrived => t \in foreign

(* Of a transaction that came from no peer, nothing past the pool's private
   states, no embargo, queue or forward, and no job that shows it. *)
HiddenInv == hidden => HiddenPool /\ HiddenThreads

LEMMA HiddenGive ==
    ASSUME ThreadsOK, HiddenThreads, foreign \subseteq foreign', NEW h \in Thread,
           NEW jobs \in Seq(AnyJob), Give(h, jobs),
           \A k \in DOMAIN jobs : JobClear(jobs[k])'
    PROVE  HiddenThreads'
  <1>1. /\ thread'[h].jobs = jobs /\ thread'[h].at = "begin"
        /\ \A g \in Thread \ {h} : thread'[g] = thread[g]
    BY GiveEffect
  <1>2. QED
    BY <1>1 DEF HiddenThreads, AtClear, JobClear

LEMMA HiddenFinished ==
    ASSUME ThreadsOK, HiddenThreads, foreign \subseteq foreign', NEW h \in Thread, Busy(h), Finished(h)
    PROVE  HiddenThreads'
  <1>1. /\ thread'[h].at = "begin"
        /\ \A k \in DOMAIN thread'[h].jobs :
              \E l \in DOMAIN thread[h].jobs : thread'[h].jobs[k] = thread[h].jobs[l]
        /\ \A g \in Thread \ {h} : thread'[g] = thread[g]
    BY FinishedEffect
  <1>2. AtClear(thread[h])' /\ \A k \in DOMAIN thread'[h].jobs : JobClear(thread[h].jobs[k])'
    BY <1>1 DEF HiddenThreads, AtClear, JobClear
  <1>3. QED
    BY <1>1, <1>2 DEF HiddenThreads, AtClear, JobClear

LEMMA HiddenGoOn ==
    ASSUME ThreadsOK, HiddenThreads, foreign \subseteq foreign', NEW h \in Thread, Busy(h),
           NEW job \in AnyJob, NEW at \in {"stem", "fluff", "mark"}, GoOn(h, job, at),
           job.how \in {"Stem", "Fluff"}, job.txs \subseteq foreign
    PROVE  HiddenThreads'
  <1>1. /\ thread'[h].at = at
        /\ DOMAIN thread'[h].jobs = DOMAIN thread[h].jobs
        /\ thread'[h].jobs[1] = job
        /\ \A k \in DOMAIN thread[h].jobs : k # 1 => thread'[h].jobs[k] = thread[h].jobs[k]
        /\ \A g \in Thread \ {h} : thread'[g] = thread[g]
    BY GoOnEffect
  <1>2. AtClear(thread[h])' /\ \A k \in DOMAIN thread'[h].jobs : JobClear(thread[h].jobs[k])'
    BY <1>1 DEF HiddenThreads, AtClear, JobClear
  <1>3. QED
    BY <1>1, <1>2 DEF HiddenThreads, AtClear, JobClear

(* A thread past its first step goes on to another. *)
LEMMA HiddenOnto ==
    ASSUME ThreadsOK, HiddenThreads, foreign \subseteq foreign', NEW h \in Thread, thread[h].at # "begin",
           NEW at \in {"stem", "mend", "fluff"},
           \/ Onto(h, at)
           \/ thread' = [thread EXCEPT ![h] = [thread[h] EXCEPT !.tries = @ + 1, !.at = at]]
    PROVE  HiddenThreads'
  <1>1. /\ thread'[h].at = at /\ thread'[h].jobs = thread[h].jobs
        /\ \A g \in Thread \ {h} : thread'[g] = thread[g]
    BY OntoEffect
  <1>2. AtClear(thread[h])' /\ \A k \in DOMAIN thread'[h].jobs : JobClear(thread[h].jobs[k])'
    BY <1>1 DEF HiddenThreads, AtClear, JobClear
  <1>3. QED
    BY <1>1, <1>2 DEF HiddenThreads, AtClear, JobClear

LEMMA HiddenCurrent ==
    ASSUME ThreadsOK, HiddenThreads, NEW h \in Thread, Busy(h)
    PROVE  /\ Current(h).how \in {"Forward", "Stem", "Fluff"} => Current(h).txs \subseteq foreign
           /\ thread[h].at # "begin" => Current(h).how \in {"Stem", "Fluff"}
  BY CurrentJob DEF HiddenThreads, JobClear, AtClear, Busy

LEMMA HiddenRun ==
    ASSUME TypeInv, hidden, HiddenPool, HiddenThreads, NEW h \in Thread, Run(h)
    PROVE  HiddenPool' /\ HiddenThreads'
  <1> DEFINE j == Current(h)
  <1>0. Plain /\ PoolOK /\ ThreadsOK /\ TypeOK /\ Busy(h)
    BY TypeInvParts DEF TypeInv, Run, Begin, Stem, Mend, Fluff, Mark
  <1>1. /\ j \in AnyJob /\ j.txs \in SUBSET Tx /\ j.from \in Source
        /\ j.how \in {"Forward", "Stem", "Fluff"} => j.txs \subseteq foreign
        /\ thread[h].at # "begin" => j.how \in {"Stem", "Fluff"}
    BY <1>0, CurrentJob, HiddenCurrent
  <1> HIDE DEF j
  <1>2. CASE Begin(h)
    <2> DEFINE T == IF j.how = "Local" THEN j.txs \ embargo ELSE j.txs
    <2>1. /\ UNCHANGED <<queued, arrived, foreign>>
          /\ \/ j.how = "Forward" /\ forward' = forward \cup T /\ Finished(h) /\ UNCHANGED <<pool, embargo>>
             \/ embargo' = embargo \ T /\ Finished(h) /\ UNCHANGED <<pool, forward>>
             \/ Finished(h) /\ UNCHANGED <<pool, forward, embargo>>
             \/ j.how = "Local" /\ ToZone(h, T) /\ UNCHANGED <<forward, embargo>>
             \/ /\ j.how \in {"Stem", "Fluff"} /\ ToPeers(h, T) /\ UNCHANGED <<forward, embargo>>
      BY <1>1, <1>2 DEF Begin, ViaZone, j, AnyJob
    <2>2. j.how = "Forward" => T \subseteq foreign
      BY <1>1
    <2>3. T \in SUBSET Tx /\ (j.how \in {"Stem", "Fluff"} => T \subseteq foreign)
      BY <1>1
    <2> HIDE DEF T
    <2>4. CASE /\ Finished(h) /\ UNCHANGED <<pool, queued, arrived, foreign>>
               /\ embargo' \subseteq foreign /\ forward' \subseteq foreign
      <3>1. HiddenThreads'
        BY <1>0, <2>4, HiddenFinished
      <3>2. HiddenPool'
        BY <2>4 DEF HiddenPool
      <3>3. QED
        BY <3>1, <3>2
    <2>5. CASE ToZone(h, T) /\ UNCHANGED <<forward, embargo>>
      <3>1. HiddenThreads'
        BY <1>0, <2>1, <2>5, HiddenFinished DEF ToZone
      <3>2. \A t \in Tx : pool'[t] = pool[t] \/ pool'[t] = "Local"
        <4>1. CASE pool' = pool
          BY <4>1
        <4>2. CASE Marked(T, "Local")
          BY <1>0, <2>3, <4>2, MarkedTo DEF Methods
        <4>3. QED
          BY <2>5, <4>1, <4>2 DEF ToZone
      <3>3. HiddenPool'
        BY <2>1, <2>5, <3>2 DEF HiddenPool
      <3>4. QED
        BY <3>1, <3>3
    <2>6. CASE j.how \in {"Stem", "Fluff"} /\ ToPeers(h, T) /\ UNCHANGED <<forward, embargo>>
      <3>1. PICK at \in {"stem", "fluff"} : GoOn(h, [j EXCEPT !.txs = T], at)
        BY <2>6 DEF ToPeers, j
      <3>2. /\ [j EXCEPT !.txs = T] \in AnyJob /\ [j EXCEPT !.txs = T].txs = T
            /\ [j EXCEPT !.txs = T].how = j.how
        BY <1>1, <2>3 DEF AnyJob
      <3>3. HiddenThreads'
        BY <1>0, <2>1, <2>3, <2>6, <3>1, <3>2, HiddenGoOn
      <3>4. HiddenPool'
        BY <2>1, <2>6 DEF HiddenPool, ToPeers
      <3>5. QED
        BY <3>3, <3>4
    <2>7. embargo \subseteq foreign /\ forward \subseteq foreign
      BY DEF HiddenPool
    <2>8. QED
      BY <2>1, <2>2, <2>4, <2>5, <2>6, <2>7
  <1>3. CASE Stem(h)
    <2> DEFINE T == Fresh(j)
    <2>1. /\ UNCHANGED <<pool, queued, forward, arrived, foreign>>
          /\ \/ Finished(h) /\ UNCHANGED embargo
             \/ embargo' = embargo \cup T /\ GoOn(h, Job(j.from, T, "Stem"), "mark")
             \/ Onto(h, "mend") /\ UNCHANGED embargo
      BY <1>3 DEF Stem, j, seen
    <2>2. thread[h].at # "begin"
      BY <1>3 DEF Stem
    <2>3. T \in SUBSET Tx /\ T \subseteq foreign
      BY <1>1, <2>2 DEF Fresh
    <2> HIDE DEF T
    <2>4. HiddenPool'
      BY <2>1, <2>3 DEF HiddenPool
    <2>5. HiddenThreads'
      <3>1. /\ Job(j.from, T, "Stem") \in AnyJob /\ Job(j.from, T, "Stem").how = "Stem"
            /\ Job(j.from, T, "Stem").txs = T
        BY <1>1, <2>3 DEF Job, AnyJob
      <3>2. CASE Finished(h)
        BY <1>0, <2>1, <3>2, HiddenFinished
      <3>3. CASE GoOn(h, Job(j.from, T, "Stem"), "mark")
        BY <1>0, <2>1, <2>3, <3>1, <3>3, HiddenGoOn
      <3>4. CASE Onto(h, "mend")
        BY <1>0, <2>1, <2>2, <3>4, HiddenOnto
      <3>5. QED
        BY <2>1, <3>2, <3>3, <3>4
    <2>6. QED
      BY <2>4, <2>5
  <1>4. CASE Mend(h)
    <2>1. /\ UNCHANGED <<pool, embargo, queued, forward, arrived, foreign>>
          /\ \E at \in {"stem", "mend", "fluff"} :
                thread' = [thread EXCEPT ![h] = [thread[h] EXCEPT !.tries = @ + 1, !.at = at]]
          /\ thread[h].at # "begin"
      BY <1>4 DEF Mend, seen
    <2>2. HiddenPool'
      BY <2>1 DEF HiddenPool
    <2>3. HiddenThreads'
      BY <1>0, <2>1, HiddenOnto
    <2>4. QED
      BY <2>2, <2>3
  <1>5. CASE Fluff(h)
    <2>1. /\ UNCHANGED <<pool, forward, arrived, foreign>>
          /\ embargo' = embargo \ j.txs
          /\ queued' = [c \in Conn |-> IF c \in Targets(j.from) THEN queued[c] \cup j.txs ELSE queued[c]]
          /\ Finished(h) \/ GoOn(h, [j EXCEPT !.how = "Fluff"], "mark")
          /\ thread[h].at # "begin"
      BY <1>5 DEF Fluff, seen, AfterFluff, j
    <2>2. j.txs \subseteq foreign
      BY <1>1, <2>1
    <2>3. HiddenPool'
      BY <2>1, <2>2 DEF HiddenPool
    <2>4. HiddenThreads'
      <3>1. /\ [j EXCEPT !.how = "Fluff"] \in AnyJob /\ [j EXCEPT !.how = "Fluff"].how = "Fluff"
            /\ [j EXCEPT !.how = "Fluff"].txs = j.txs
        BY <1>1 DEF AnyJob
      <3>2. CASE Finished(h)
        BY <1>0, <2>1, <3>2, HiddenFinished
      <3>3. CASE GoOn(h, [j EXCEPT !.how = "Fluff"], "mark")
        BY <1>0, <2>1, <2>2, <3>1, <3>3, HiddenGoOn
      <3>4. QED
        BY <2>1, <3>2, <3>3
    <2>5. QED
      BY <2>3, <2>4
  <1>6. CASE Mark(h)
    <2>1. /\ Marked(j.txs, j.how) /\ Finished(h)
          /\ UNCHANGED <<embargo, queued, forward, arrived, foreign>>
          /\ thread[h].at # "begin"
      BY <1>6 DEF Mark, seen, wire, j
    <2>2. j.txs \subseteq foreign /\ j.how \in Methods
      BY <1>1, <2>1 DEF Methods
    <2>3. \A t \in Tx : pool'[t] = pool[t] \/ t \in foreign
      BY <1>0, <1>1, <2>1, <2>2, MarkedTo
    <2>4. HiddenPool'
      BY <2>1, <2>3 DEF HiddenPool
    <2>5. HiddenThreads'
      BY <1>0, <2>1, HiddenFinished
    <2>6. QED
      BY <2>4, <2>5
  <1>7. QED
    BY <1>2, <1>3, <1>4, <1>5, <1>6 DEF Run

(* The sources: what a peer sends is foreign from then on, and what a client
   submits starts out, and is relayed, as this node's own. *)
LEMMA HiddenSources ==
    ASSUME TypeInv, hidden, HiddenPool, HiddenThreads, NEW t \in Tx,
           \/ \E c \in Conn, fluff \in BOOLEAN : Receive(c, t, fluff)
           \/ \E fluff \in BOOLEAN : HiddenReceive(t, fluff)
           \/ \E h \in Rpc : (\E keep \in BOOLEAN : Submit(h, t, keep)) \/ RelayTx(h, t)
    PROVE  HiddenPool' /\ HiddenThreads'
  <1>0. Plain /\ PoolOK /\ ThreadsOK /\ TypeOK /\ Self \in Source
    BY TypeInvParts DEF TypeInv, Source
  <1>1. ASSUME NEW c \in Conn, NEW fluff \in BOOLEAN, Receive(c, t, fluff) PROVE HiddenPool' /\ HiddenThreads'
    <2> DEFINE m == Upgraded(t, IF fluff THEN "Fluff" ELSE "Stem")
    <2>1. /\ UNCHANGED <<embargo, queued, forward, arrived>>
          /\ foreign' = foreign \cup {t}
          /\ \/ pool' = pool /\ Give(c, IF fluff THEN <<Job(c, {t}, "Seen")>> ELSE << >>)
             \/ pool' = [pool EXCEPT ![t] = m] /\ Give(c, JobsFor(c, t, m))
      BY <1>1 DEF Receive, wire
    <2> HIDE DEF m
    <2>2. HiddenPool'
      <3>1. \A u \in Tx : u # t => pool'[u] = pool[u]
        BY <1>0, <2>1 DEF PoolOK
      <3>2. QED
        BY <2>1, <3>1 DEF HiddenPool
    <2>3. c \in Thread /\ c \in Source
      BY DEF Thread, Source
    <2>4. PICK js \in Seq(AnyJob) : Give(c, js) /\ \A k \in DOMAIN js : js[k].txs = {t}
      <3>1. \A how \in {"Stem", "Fluff", "Seen"} :
               /\ <<Job(c, {t}, how)>> \in Seq(AnyJob)
               /\ \A k \in DOMAIN <<Job(c, {t}, how)>> : <<Job(c, {t}, how)>>[k] = Job(c, {t}, how)
        BY <2>3, JobsType, ZenonT(40)
      <3>2. \A how : Job(c, {t}, how).txs = {t}
        BY DEF Job
      <3>3. << >> \in Seq(AnyJob) /\ DOMAIN << >> = {}
        OBVIOUS
      <3>4. PICK js : /\ Give(c, js)
                      /\ js = << >> \/ \E how \in {"Stem", "Fluff", "Seen"} : js = <<Job(c, {t}, how)>>
        BY <2>1 DEF JobsFor
      <3>5. CASE js = << >>
        BY <3>3, <3>4, <3>5
      <3>6. ASSUME NEW how \in {"Stem", "Fluff", "Seen"}, js = <<Job(c, {t}, how)>>
            PROVE  js \in Seq(AnyJob) /\ \A k \in DOMAIN js : js[k].txs = {t}
        <4>1. js \in Seq(AnyJob) /\ \A k \in DOMAIN js : js[k] = Job(c, {t}, how)
          BY <3>1, <3>6
        <4>2. QED
          BY <3>2, <4>1
      <3>7. QED
        BY <3>4, <3>5, <3>6
    <2>5. HiddenThreads'
      <3>1. \A k \in DOMAIN js : JobClear(js[k])'
        BY <2>1, <2>4 DEF JobClear
      <3>2. QED
        BY <1>0, <2>1, <2>3, <2>4, <3>1, HiddenGive
    <2>6. QED
      BY <2>2, <2>5
  <1>2. ASSUME NEW fluff \in BOOLEAN, HiddenReceive(t, fluff) PROVE HiddenPool' /\ HiddenThreads'
    <2>1. /\ UNCHANGED <<embargo, queued, forward, thread>>
          /\ foreign' = foreign \cup {t}
          /\ \A u \in Tx : u # t => pool'[u] = pool[u]
          /\ \E m : arrived' = arrived \cup {<<t, m>>}
      BY <1>0, <1>2 DEF HiddenReceive, wire, PoolOK
    <2>2. HiddenPool'
      BY <2>1 DEF HiddenPool
    <2>3. HiddenThreads'
      BY <2>1 DEF HiddenThreads, JobClear, AtClear
    <2>4. QED
      BY <2>2, <2>3
  <1>3. ASSUME NEW h \in Rpc, NEW keep \in BOOLEAN, Submit(h, t, keep) PROVE HiddenPool' /\ HiddenThreads'
    <2> DEFINE m == Upgraded(t, IF keep THEN "None" ELSE "Local")
    <2>1. /\ UNCHANGED <<embargo, queued, forward, arrived, foreign>>
          /\ pool' = [pool EXCEPT ![t] = m]
          /\ Give(h, IF keep THEN << >> ELSE <<Job(Self, {t}, "Local")>>)
      BY <1>3 DEF Submit, wire, seen
    <2>2. m \in {"None", "Local", pool[t]}
      <3>1. (IF keep THEN "None" ELSE "Local") \in Methods \ {"Stem"}
        BY DEF Methods
      <3>2. QED
        BY <3>1, UpgradedTo
    <2> HIDE DEF m
    <2>3. HiddenPool'
      <3>1. \A u \in Tx : pool'[u] = pool[u] \/ pool'[u] \in {"None", "Local"}
        BY <1>0, <2>1, <2>2 DEF PoolOK
      <3>2. QED
        BY <2>1, <3>1 DEF HiddenPool
    <2>4. h \in Thread
      BY DEF Thread
    <2>5. PICK js \in Seq(AnyJob) : Give(h, js) /\ \A k \in DOMAIN js : js[k].how = "Local"
      <3>1. /\ <<Job(Self, {t}, "Local")>> \in Seq(AnyJob)
            /\ \A k \in DOMAIN <<Job(Self, {t}, "Local")>> :
                  <<Job(Self, {t}, "Local")>>[k] = Job(Self, {t}, "Local")
        BY <1>0, JobsType
      <3>2. Job(Self, {t}, "Local").how = "Local"
        BY DEF Job
      <3>3. << >> \in Seq(AnyJob) /\ DOMAIN << >> = {}
        OBVIOUS
      <3>4. QED
        BY <2>1, <3>1, <3>2, <3>3
    <2>6. \A k \in DOMAIN js : JobClear(js[k])'
      BY <2>5 DEF JobClear
    <2>7. HiddenThreads'
      BY <1>0, <2>1, <2>4, <2>5, <2>6, HiddenGive
    <2>8. QED
      BY <2>3, <2>7
  <1>4. ASSUME NEW h \in Rpc, RelayTx(h, t) PROVE HiddenPool' /\ HiddenThreads'
    <2>1. PICK how \in {"Fluff", "Local"} :
             /\ how = "Fluff" => pool[t] = "Fluff"
             /\ Give(h, <<Job(Self, {t}, how)>>)
      BY <1>4 DEF RelayTx
    <2>2. UNCHANGED <<pool, embargo, queued, forward, arrived, foreign>>
      BY <1>4 DEF RelayTx, wire, seen
    <2>3. HiddenPool' /\ h \in Thread
      BY <2>2 DEF HiddenPool, Thread
    <2>4. how = "Fluff" => {t} \subseteq foreign
      BY <2>1 DEF HiddenPool
    <2>5. /\ <<Job(Self, {t}, how)>> \in Seq(AnyJob)
          /\ \A k \in DOMAIN <<Job(Self, {t}, how)>> : <<Job(Self, {t}, how)>>[k] = Job(Self, {t}, how)
      BY <1>0, <2>1, JobsType, ZenonT(40)
    <2>6. Job(Self, {t}, how).how = how /\ Job(Self, {t}, how).txs = {t}
      BY DEF Job
    <2>7. PICK js \in Seq(AnyJob) : js = <<Job(Self, {t}, how)>>
      BY <2>5
    <2>8. \A k \in DOMAIN js : js[k].how = how /\ js[k].txs = {t}
      BY <2>5, <2>6, <2>7
    <2>9. \A k \in DOMAIN js : JobClear(js[k])'
      BY <2>1, <2>2, <2>4, <2>8 DEF JobClear
    <2>10. Give(h, js)
      BY <2>1, <2>7
    <2>11. HiddenThreads'
      BY <1>0, <2>2, <2>3, <2>9, <2>10, HiddenGive
    <2>12. QED
      BY <2>3, <2>11
  <1>5. QED
    BY <1>1, <1>2, <1>3, <1>4

LEMMA HiddenTicks ==
    ASSUME TypeInv, hidden, HiddenPool, HiddenThreads,
           \/ NewEpoch \/ TickArrived
           \/ \E S \in SUBSET Tx : TickForward(S) \/ TickEmbargo(S) \/ TickWalk(S)
           \/ \E C \in SUBSET Conn : TickFlush(C)
    PROVE  HiddenPool' /\ HiddenThreads'
  <1>0. Plain /\ PoolOK /\ ThreadsOK /\ TypeOK /\ Self \in Source /\ Ticker \in Thread
    BY TypeInvParts DEF TypeInv, Source, Thread
  <1>1. ASSUME NEW js \in Seq(AnyJob), Give(Ticker, js), \A k \in DOMAIN js : JobClear(js[k]),
               UNCHANGED <<pool, queued, foreign>>, embargo' \subseteq embargo, forward' \subseteq forward,
               arrived' \subseteq arrived
        PROVE  HiddenPool' /\ HiddenThreads'
    <2>1. HiddenPool'
      BY <1>1 DEF HiddenPool
    <2>2. \A k \in DOMAIN js : JobClear(js[k])'
      BY <1>1 DEF JobClear
    <2>3. HiddenThreads'
      BY <1>0, <1>1, <2>2, HiddenGive
    <2>4. QED
      BY <2>1, <2>3
  <1>2. CASE TickArrived
    <2>1. PICK js \in Seq(AnyJob) :
             /\ Give(Ticker, js)
             /\ \A k \in DOMAIN js : \A t \in js[k].txs : <<t, js[k].how>> \in arrived
      BY <1>2, TickArrivedJobs
    <2>2. \A k \in DOMAIN js : JobClear(js[k])
      BY <2>1 DEF JobClear, HiddenPool
    <2>3. arrived' = {} /\ UNCHANGED <<pool, queued, foreign, embargo, forward>>
      BY <1>2 DEF TickArrived, wire, seen
    <2>4. QED
      BY <1>1, <2>1, <2>2, <2>3
  <1>3. ASSUME NEW S \in SUBSET Tx, TickForward(S) PROVE HiddenPool' /\ HiddenThreads'
    <2>1. /\ Give(Ticker, <<Job(Self, S, "Stem")>>) /\ <<Job(Self, S, "Stem")>> \in Seq(AnyJob)
          /\ \A k \in DOMAIN <<Job(Self, S, "Stem")>> : <<Job(Self, S, "Stem")>>[k] = Job(Self, S, "Stem")
      BY <1>0, <1>3, JobsType DEF TickForward
    <2>2. JobClear(Job(Self, S, "Stem"))
      BY <1>3 DEF Job, JobClear, HiddenPool, TickForward
    <2>3. forward' = forward \ S /\ UNCHANGED <<pool, queued, foreign, embargo, arrived>>
      BY <1>3 DEF TickForward, seen
    <2>4. \A k \in DOMAIN <<Job(Self, S, "Stem")>> : JobClear(<<Job(Self, S, "Stem")>>[k])
      BY <2>1, <2>2
    <2>5. QED
      BY <1>1, <2>1, <2>3, <2>4
  <1>4. ASSUME NEW S \in SUBSET Tx, TickEmbargo(S) PROVE HiddenPool' /\ HiddenThreads'
    <2>1. /\ Give(Ticker, <<Job(Self, S, "Fluff")>>) /\ <<Job(Self, S, "Fluff")>> \in Seq(AnyJob)
          /\ \A k \in DOMAIN <<Job(Self, S, "Fluff")>> : <<Job(Self, S, "Fluff")>>[k] = Job(Self, S, "Fluff")
      BY <1>0, <1>4, JobsType DEF TickEmbargo
    <2>2. JobClear(Job(Self, S, "Fluff"))
      BY <1>4 DEF Job, JobClear, HiddenPool, TickEmbargo
    <2>3. embargo' = embargo \ S /\ UNCHANGED <<pool, queued, foreign, forward, arrived>>
      BY <1>4 DEF TickEmbargo, seen
    <2>4. \A k \in DOMAIN <<Job(Self, S, "Fluff")>> : JobClear(<<Job(Self, S, "Fluff")>>[k])
      BY <2>1, <2>2
    <2>5. QED
      BY <1>1, <2>1, <2>3, <2>4
  <1>5. ASSUME NEW S \in SUBSET Tx, TickWalk(S) PROVE HiddenPool' /\ HiddenThreads'
    <2>1. PICK js \in Seq(AnyJob) :
             /\ Give(Ticker, js)
             /\ \A k \in DOMAIN js :
                   /\ js[k].txs \in SUBSET S
                   /\ js[k].how # "Local" =>
                         \A t \in js[k].txs : pool[t] \in {"Forward", "Stem", "Fluff"}
      BY <1>5, TickWalkJobs
    <2>2. \A k \in DOMAIN js : JobClear(js[k])
      BY <2>1 DEF JobClear, HiddenPool
    <2>3. UNCHANGED <<pool, queued, foreign, embargo, forward, arrived>>
      BY <1>5 DEF TickWalk, wire, seen
    <2>4. QED
      BY <1>1, <2>1, <2>2, <2>3
  <1>6. ASSUME NEW C \in SUBSET Conn, TickFlush(C) PROVE HiddenPool' /\ HiddenThreads'
    <2>1. HiddenPool'
      BY <1>6 DEF TickFlush, HiddenPool
    <2>2. HiddenThreads'
      BY <1>6 DEF TickFlush, HiddenThreads, JobClear, AtClear
    <2>3. QED
      BY <2>1, <2>2
  <1>7. CASE NewEpoch
    <2>1. HiddenPool'
      BY <1>7 DEF NewEpoch, HiddenPool, seen
    <2>2. HiddenThreads'
      BY <1>7 DEF NewEpoch, HiddenThreads, JobClear, AtClear, seen
    <2>3. QED
      BY <2>1, <2>2
  <1>8. QED
    BY <1>2, <1>3, <1>4, <1>5, <1>6, <1>7

LEMMA HiddenEnvironment ==
    ASSUME TypeInv, hidden, HiddenPool, HiddenThreads,
           \/ \E c \in Conn : Connect(c) \/ FallBehind(c) \/ CatchUp(c) \/ Close(c) \/ Forget(c)
           \/ ZoneChanges
           \/ \E t \in Tx : Mine(t)
           \/ Restart
           \/ UNCHANGED vars
    PROVE  HiddenPool' /\ HiddenThreads'
  <1>1. CASE UNCHANGED <<embargo, forward, queued, arrived, thread, foreign>>
             /\ \A t \in Tx : pool'[t] \in {pool[t], "mined"}
    <2>1. HiddenPool'
      BY <1>1 DEF HiddenPool
    <2>2. HiddenThreads'
      BY <1>1 DEF HiddenThreads, JobClear, AtClear
    <2>3. QED
      BY <2>1, <2>2
  <1>2. ASSUME NEW c \in Conn, Connect(c) \/ FallBehind(c) \/ CatchUp(c) \/ Close(c) \/ Forget(c)
        PROVE  HiddenPool' /\ HiddenThreads'
    BY <1>1, <1>2 DEF Connect, FallBehind, CatchUp, Close, Forget, Rest, wire, seen
  <1>3. CASE ZoneChanges \/ UNCHANGED vars
    BY <1>1, <1>3 DEF ZoneChanges, Rest, wire, vars, seen
  <1>4. ASSUME NEW t \in Tx, Mine(t) PROVE HiddenPool' /\ HiddenThreads'
    <2>1. \A u \in Tx : pool'[u] \in {pool[u], "mined"}
      BY <1>4, TypeInvParts DEF Mine, PoolOK
    <2>2. QED
      BY <1>1, <1>4, <2>1 DEF Mine, wire, seen
  <1>5. CASE Restart
    <2>1. HiddenPool'
      BY <1>5 DEF Restart, HiddenPool, seen
    <2>2. HiddenThreads'
      <3>1. \A h \in Thread : thread'[h] = Idle
        BY <1>5 DEF Restart
      <3>2. QED
        BY <3>1 DEF HiddenThreads, AtClear, Idle
    <2>3. QED
      BY <2>1, <2>2
  <1>6. QED
    BY <1>2, <1>3, <1>4, <1>5

(* With an anonymity network configured, a transaction that came from no peer
   goes to no clearnet peer: it is put under no embargo and into no queue,
   whichever threads relay it, through restarts, walks of the pool and a zone
   that goes down. *)
THEOREM HiddenStaysHiddenHolds == Spec => []HiddenStaysHidden
  <1>1. Init => HiddenInv
    <2> SUFFICES ASSUME Init PROVE HiddenPool /\ HiddenThreads
      BY DEF HiddenInv
    <2>1. HiddenPool
      BY DEF Init, HiddenPool
    <2>2. HiddenThreads
      <3>1. \A h \in Thread : thread[h] = Idle
        BY DEF Init
      <3>2. QED
        BY <3>1 DEF HiddenThreads, AtClear, Idle
    <2>3. QED
      BY <2>1, <2>2
  <1>2. TypeInv /\ HiddenInv /\ [Next]_vars => HiddenInv'
    <2> SUFFICES ASSUME TypeInv, HiddenInv, [Next]_vars, hidden PROVE HiddenPool' /\ HiddenThreads'
      <3>1. [Next]_vars => hidden' = hidden
        <4>1. ASSUME NEW h, Run(h) PROVE hidden' = hidden
          BY <4>1 DEF Run, Begin, Stem, Mend, Fluff, Mark, fixed
        <4>2. CASE NewEpoch \/ TickArrived \/ ZoneChanges \/ Restart \/ UNCHANGED vars
          BY <4>2 DEF NewEpoch, TickArrived, ZoneChanges, Restart, Rest, fixed, vars
        <4>3. ASSUME NEW S, TickForward(S) \/ TickEmbargo(S) \/ TickWalk(S) \/ TickFlush(S)
              PROVE  hidden' = hidden
          BY <4>3 DEF TickForward, TickEmbargo, TickWalk, TickFlush, fixed
        <4>4. ASSUME NEW c, NEW t, NEW b,
                     Receive(c, t, b) \/ HiddenReceive(t, b) \/ Submit(c, t, b) \/ RelayTx(c, t)
              PROVE  hidden' = hidden
          BY <4>4 DEF Receive, HiddenReceive, Submit, RelayTx, fixed
        <4>5. ASSUME NEW c, Connect(c) \/ FallBehind(c) \/ CatchUp(c) \/ Close(c) \/ Forget(c) \/ Mine(c)
              PROVE  hidden' = hidden
          BY <4>5 DEF Connect, FallBehind, CatchUp, Close, Forget, Mine, Rest, fixed
        <4>6. QED
          BY <4>1, <4>2, <4>3, <4>4, <4>5 DEF Next
      <3>2. QED
        BY <3>1 DEF HiddenInv
    <2>1. HiddenPool /\ HiddenThreads
      BY DEF HiddenInv
    <2>2. QED
      BY <2>1, HiddenRun, HiddenSources, HiddenTicks, HiddenEnvironment DEF Next
  <1>3. HiddenInv => HiddenStaysHidden
    BY DEF HiddenInv, HiddenPool, HiddenStaysHidden
  <1>4. QED
    BY <1>1, <1>2, <1>3, TypeInvHolds, PTL DEF Spec

-----------------------------------------------------------------------------
(* The stem map. *)

(* Every non-empty set of naturals has a least element. *)
LEMMA LeastNatural ==
    ASSUME NEW T \in SUBSET Nat, T # {}
    PROVE  \E x \in T : \A y \in T : x <= y
  <1> DEFINE R == OpToRel(<, Nat)
  <1>1. IsWellFoundedOn(R, Nat)
    BY NatLessThanWellFounded, Zenon
  <1>2. \A x, y \in Nat : x < y => <<x, y>> \in R
    BY DEF OpToRel
  <1> HIDE DEF R
  <1>3. PICK x \in T : \A y \in T : ~ (<<y, x>> \in R)
    BY <1>1, WFMin
  <1>4. \A y \in T : ~ (y < x)
    BY <1>2, <1>3
  <1>5. QED
    BY <1>4

(* Slots without a gap are the first so many. *)
LEMMA FirstSlots ==
    ASSUME NEW n \in Nat, NEW U \in SUBSET (1..n), \A i \in U : \A j \in 1..i : j \in U
    PROVE  \E k \in 0..n : U = 1..k
  <1> DEFINE T == {x \in Nat : x + 1 \notin U}
  <1>1. n \in T
    OBVIOUS
  <1>2. PICK k \in T : \A y \in T : k <= y
    BY <1>1, LeastNatural
  <1>3. k \in 0..n
    BY <1>1, <1>2
  <1>4. \A i \in 1..k : i \in U
    <2> SUFFICES ASSUME NEW i \in 1..k, i \notin U PROVE FALSE
      OBVIOUS
    <2>1. i - 1 \in Nat /\ (i - 1) + 1 = i
      BY <1>3
    <2>2. i - 1 \in T
      BY <2>1
    <2>3. QED
      BY <1>2, <1>3, <2>1, <2>2
  <1>5. \A i \in U : i \in 1..k
    <2> SUFFICES ASSUME NEW i \in U, i \notin 1..k PROVE FALSE
      OBVIOUS
    <2>1. k + 1 \in 1..i
      BY <1>3
    <2>2. QED
      BY <1>2, <2>1
  <1>6. QED
    BY <1>3, <1>4, <1>5

(* A map with its slots in a row and its sources among the sources there are. *)
StemsType(m) ==
    /\ m = [out |-> m.out, sources |-> m.sources, usage |-> m.usage]
    /\ \E k \in 0..Stems : m.out \in [1..k -> Conn \cup {NoConn}]
    /\ \E D \in SUBSET Source : m.sources \in [D -> 1..Stems]
    /\ m.usage \in [1..Stems -> Nat]

SentTo(sources, i) == {s \in DOMAIN sources : sources[s] = i}

SlotsDistinct(o) == \A i, j \in {x \in DOMAIN o : o[x] # NoConn} : o[i] = o[j] => i = j

LEMMA SoundParts ==
    ASSUME NEW m, NEW k \in 0..Stems, m.out \in [1..k -> Conn \cup {NoConn}], SlotsDistinct(m.out),
           \A s \in DOMAIN m.sources : m.sources[s] \in DOMAIN m.out,
           \A i \in 1..Stems : m.usage[i] = Cardinality(SentTo(m.sources, i))
    PROVE  StemsSound(m)
  <1>1. Len(m.out) <= Stems
    <2>1. k \in Nat /\ m.out \in Seq(Conn \cup {NoConn})
      BY StemAssumption
    <2>2. Len(m.out) = k
      BY <2>1, LenProperties
    <2>3. QED
      BY <2>2, StemAssumption
  <1>2. QED
    BY <1>1 DEF StemsSound, SentTo, SlotsDistinct, LiveSlots

LEMMA FiniteSources ==
    ASSUME NEW D \in SUBSET Source
    PROVE  IsFiniteSet(D)
  <1>1. IsFiniteSet(Conn \cup {Self})
    BY RelayAssumption, FS_AddElement
  <1>2. QED
    BY <1>1, FS_Subset DEF Source

(* `new`. *)
LEMMA NewStemsSound ==
    ASSUME NEW C \in SUBSET Conn, NEW m \in NewStems(C)
    PROVE  StemsType(m) /\ StemsSound(m)
  <1> DEFINE n == Min({Stems, Cardinality(C)})
  <1>1. Cardinality(C) \in Nat /\ Stems \in Nat
    BY RelayAssumption, StemAssumption, FS_Subset, FS_CardinalityType
  <1>2. n \in 0..Stems
    <2>1. \E x \in {Stems, Cardinality(C)} : \A y \in {Stems, Cardinality(C)} : x =< y
      BY <1>1
    <2>2. n \in {Stems, Cardinality(C)} /\ n <= Stems
      BY <2>1 DEF Min
    <2>3. QED
      BY <1>1, <2>2
  <1> HIDE DEF n
  <1>3. PICK s \in [1..n -> C] :
           /\ IsInjective(s)
           /\ m = [out |-> s, sources |-> Unmapped, usage |-> [i \in 1..Stems |-> 0]]
    BY DEF NewStems, Draws, n
  <1>4. m.out = s /\ m.sources = Unmapped /\ m.usage = [i \in 1..Stems |-> 0]
    BY <1>3
  <1>5. m.out \in [1..n -> Conn \cup {NoConn}] /\ SlotsDistinct(m.out)
    BY <1>3, <1>4 DEF IsInjective, SlotsDistinct
  <1>6. m.sources \in [{} -> 1..Stems] /\ DOMAIN m.sources = {}
    BY <1>4 DEF Unmapped
  <1>7. \A i \in 1..Stems : m.usage[i] = Cardinality(SentTo(m.sources, i))
    <2>1. \A i : SentTo(m.sources, i) = {}
      BY <1>6 DEF SentTo
    <2>2. QED
      BY <1>4, <2>1, FS_EmptySet
  <1>8. StemsType(m)
    BY <1>2, <1>3, <1>4, <1>5, <1>6 DEF StemsType
  <1>9. QED
    BY <1>2, <1>5, <1>6, <1>7, <1>8, SoundParts

(* `update`: the slots stay in a row, since the first free ones are filled. *)
LEMMA UpdateStemsSound ==
    ASSUME NEW m, StemsType(m), StemsSound(m), NEW C \in SUBSET Conn, NEW m2 \in UpdateStems(m, C)
    PROVE  StemsType(m2) /\ StemsSound(m2)
  <1> DEFINE kept   == [i \in DOMAIN m.out |-> IF m.out[i] \in C THEN m.out[i] ELSE NoConn]
             spare  == C \ Range(kept)
             free   == {i \in 1..Stems : i \notin DOMAIN kept \/ kept[i] = NoConn}
             upto(i) == {j \in free : j <= i}
             filled == {i \in free : Cardinality(upto(i)) <= Cardinality(spare)}
             o(f)   == [i \in DOMAIN kept \cup filled |-> IF i \in filled THEN f[i] ELSE kept[i]]
  <1>1. PICK f \in [filled -> spare] : IsInjective(f) /\ m2 = [m EXCEPT !.out = o(f)]
    BY DEF UpdateStems
  <1>2. PICK k \in 0..Stems : m.out \in [1..k -> Conn \cup {NoConn}]
    BY DEF StemsType
  <1>3. /\ m2.out = o(f) /\ m2.sources = m.sources /\ m2.usage = m.usage
        /\ m2 = [out |-> m2.out, sources |-> m2.sources, usage |-> m2.usage]
    BY <1>1 DEF StemsType
  <1>4. DOMAIN kept = 1..k /\ \A i \in 1..k : kept[i] \in C \cup {NoConn} /\ (kept[i] # NoConn => kept[i] = m.out[i])
    BY <1>2
  <1>5. \A c \in C : c # NoConn
    BY RelayAssumption
  <1>6. \A i \in filled : f[i] \in C /\ f[i] # NoConn /\ \A j \in 1..k : kept[j] # f[i]
    BY <1>4, <1>5 DEF Range
  <1>7. \A i \in free : \A j \in free : j <= i /\ i \in filled => j \in filled
    <2> SUFFICES ASSUME NEW i \in free, NEW j \in free, j <= i, i \in filled PROVE j \in filled
      OBVIOUS
    <2>1. Stems \in Nat /\ free \in SUBSET (1..Stems)
      BY StemAssumption
    <2>2. IsFiniteSet(free)
      <3>1. 1 \in Int /\ Stems \in Int
        BY <2>1
      <3>2. IsFiniteSet(1..Stems)
        BY <3>1, FS_Interval
      <3> HIDE DEF free
      <3>3. QED
        BY <2>1, <3>2, FS_Subset
    <2>3. upto(j) \in SUBSET upto(i) /\ upto(i) \in SUBSET free
      BY <2>1
    <2> HIDE DEF free, upto
    <2>4. IsFiniteSet(upto(i)) /\ IsFiniteSet(upto(j)) /\ Cardinality(upto(j)) <= Cardinality(upto(i))
      BY <2>2, <2>3, FS_Subset
    <2>5. Cardinality(upto(i)) \in Nat /\ Cardinality(upto(j)) \in Nat
      BY <2>4, FS_CardinalityType
    <2>6. Cardinality(spare) \in Nat
      BY RelayAssumption, FS_Subset, FS_CardinalityType
    <2>7. QED
      BY <2>4, <2>5, <2>6
  <1> DEFINE U == DOMAIN kept \cup filled
  <1>8. PICK l \in 0..Stems : U = 1..l
    <2>1. U \in SUBSET (1..Stems) /\ Stems \in Nat
      BY <1>4, StemAssumption
    <2>2. ASSUME NEW i \in U, NEW j \in 1..i PROVE j \in U
      <3>1. CASE j \in 1..k
        BY <1>4, <3>1
      <3>2. CASE j \notin 1..k
        <4>1. j \in free /\ i \in filled /\ j <= i
          BY <1>4, <2>1, <3>2
        <4>2. QED
          BY <1>7, <4>1
      <3>3. QED
        BY <3>1, <3>2
    <2> HIDE DEF U
    <2>3. QED
      BY <2>1, <2>2, FirstSlots
  <1>9. m2.out \in [1..l -> Conn \cup {NoConn}]
    <2>1. \A i \in U : (IF i \in filled THEN f[i] ELSE kept[i]) \in Conn \cup {NoConn}
      BY <1>4, <1>6
    <2>2. o(f) = [i \in U |-> IF i \in filled THEN f[i] ELSE kept[i]]
      OBVIOUS
    <2> HIDE DEF filled, kept, U, o
    <2>3. QED
      BY <1>3, <1>8, <2>1, <2>2
  <1>10. SlotsDistinct(m2.out)
    <2>1. DOMAIN m2.out = U /\ \A i \in U : m2.out[i] = IF i \in filled THEN f[i] ELSE kept[i]
      BY <1>3
    <2>2. \A i, j \in 1..k : kept[i] # NoConn /\ kept[i] = kept[j] => i = j
      BY <1>2, <1>4 DEF StemsSound, LiveSlots
    <2>3. \A i, j \in filled : f[i] = f[j] => i = j
      BY <1>1 DEF IsInjective
    <2> HIDE DEF filled, kept, spare, free, upto, o
    <2>4. QED
      BY <1>4, <1>6, <2>1, <2>2, <2>3 DEF SlotsDistinct
  <1>11. \A s \in DOMAIN m2.sources : m2.sources[s] \in DOMAIN m2.out
    BY <1>2, <1>3, <1>4 DEF StemsSound
  <1>12. \A i \in 1..Stems : m2.usage[i] = Cardinality(SentTo(m2.sources, i))
    BY <1>3, SMTT(30) DEF StemsSound, SentTo
  <1>13. StemsType(m2)
    <2> HIDE DEF filled, kept, U, o
    <2>1. QED
      BY <1>3, <1>9 DEF StemsType
  <1>14. QED
    BY <1>9, <1>10, <1>11, <1>12, <1>13, SoundParts

(* The counts without s, as `get_stem` takes it off its slot. *)
LEMMA CountsWithout ==
    ASSUME NEW m, StemsType(m), StemsSound(m), NEW s \in DOMAIN m.sources,
           NEW left, left = [m.usage EXCEPT ![m.sources[s]] = IF @ = 0 THEN 0 ELSE @ - 1]
    PROVE  /\ left \in [1..Stems -> Nat]
           /\ \A i \in 1..Stems : left[i] = Cardinality(SentTo(m.sources, i) \ {s})
  <1>1. PICK D \in SUBSET Source : m.sources \in [D -> 1..Stems]
    BY DEF StemsType
  <1>2. \A i : IsFiniteSet(SentTo(m.sources, i)) /\ Cardinality(SentTo(m.sources, i)) \in Nat
    <2>1. \A i : SentTo(m.sources, i) \in SUBSET Source
      BY <1>1 DEF SentTo
    <2>2. QED
      BY <2>1, FiniteSources, FS_CardinalityType
  <1>3. m.usage \in [1..Stems -> Nat] /\ \A i \in 1..Stems : m.usage[i] = Cardinality(SentTo(m.sources, i))
    BY DEF StemsType, StemsSound, SentTo
  <1> DEFINE x == m.sources[s]
  <1>4. x \in 1..Stems /\ s \in SentTo(m.sources, x) /\ \A i : i # x => s \notin SentTo(m.sources, i)
    BY <1>1 DEF SentTo
  <1>5. left = [m.usage EXCEPT ![x] = IF m.usage[x] = 0 THEN 0 ELSE m.usage[x] - 1]
    OBVIOUS
  <1> HIDE DEF x
  <1>6. \A i \in 1..Stems : left[i] \in Nat /\ left[i] = Cardinality(SentTo(m.sources, i) \ {s})
    <2> SUFFICES ASSUME NEW i \in 1..Stems
                 PROVE  left[i] \in Nat /\ left[i] = Cardinality(SentTo(m.sources, i) \ {s})
      OBVIOUS
    <2>1. CASE i = x
      <3>1. Cardinality(SentTo(m.sources, x) \ {s}) = m.usage[x] - 1
        <4>1. m.usage[x] = Cardinality(SentTo(m.sources, x))
          BY <1>3, <1>4
        <4>2. QED
          <5> DEFINE S == SentTo(m.sources, x)
          <5>1. IsFiniteSet(S) /\ s \in S /\ m.usage[x] = Cardinality(S)
            BY <1>2, <1>4, <4>1
          <5> HIDE DEF S
          <5>2. Cardinality(S \ {s}) = Cardinality(S) - 1
            BY <5>1, FS_RemoveElement
          <5>3. QED
            BY <5>1, <5>2 DEF S
      <3>2. Cardinality(SentTo(m.sources, x) \ {s}) \in Nat
        BY <1>2, FS_RemoveElement, FS_CardinalityType
      <3>3. m.usage[x] \in Nat /\ left[x] = IF m.usage[x] = 0 THEN 0 ELSE m.usage[x] - 1
        BY <1>3, <1>4, <1>5
      <3>4. QED
        BY <2>1, <3>1, <3>2, <3>3
    <2>2. CASE i # x
      <3>1. SentTo(m.sources, i) \ {s} = SentTo(m.sources, i)
        BY <1>4, <2>2
      <3>2. left[i] = m.usage[i]
        BY <1>3, <1>5, <2>2
      <3>3. QED
        BY <1>2, <1>3, <3>1, <3>2
    <2>3. QED
      BY <2>1, <2>2
  <1>7. DOMAIN left = 1..Stems /\ left = [i \in 1..Stems |-> left[i]]
    BY <1>3, <1>5
  <1>8. QED
    BY <1>6, <1>7

(* `get_stem`: s keeps its slot, moves to another or is taken off. *)
LEMMA GetStemSound ==
    ASSUME NEW m, StemsType(m), StemsSound(m), NEW s \in Source, NEW got \in GetStem(m, s)
    PROVE  StemsType(got[1]) /\ StemsSound(got[1])
  <1> DEFINE left == IF s \in DOMAIN m.sources
                       THEN [m.usage EXCEPT ![m.sources[s]] = IF @ = 0 THEN 0 ELSE @ - 1]
                       ELSE m.usage
             without == [t \in DOMAIN m.sources \ {s} |-> m.sources[t]]
  <1>1. PICK D \in SUBSET Source : m.sources \in [D -> 1..Stems]
    BY DEF StemsType
  <1>2. PICK k \in 0..Stems : m.out \in [1..k -> Conn \cup {NoConn}]
    BY DEF StemsType
  <1>3. m.usage \in [1..Stems -> Nat] /\ \A i \in 1..Stems : m.usage[i] = Cardinality(SentTo(m.sources, i))
    BY DEF StemsType, StemsSound, SentTo
  <1>4. /\ left \in [1..Stems -> Nat]
        /\ \A i \in 1..Stems : left[i] = Cardinality(SentTo(m.sources, i) \ {s})
    <2>1. CASE s \in DOMAIN m.sources
      <3>1. left = [m.usage EXCEPT ![m.sources[s]] = IF @ = 0 THEN 0 ELSE @ - 1]
        BY <2>1
      <3> HIDE DEF left
      <3>2. QED
        BY <2>1, <3>1, CountsWithout, ZenonT(40)
    <2>2. CASE s \notin DOMAIN m.sources
      <3>1. \A i : SentTo(m.sources, i) \ {s} = SentTo(m.sources, i)
        BY <2>2 DEF SentTo
      <3>2. QED
        BY <1>3, <2>2, <3>1
    <2>3. QED
      BY <2>1, <2>2
  <1>5. \A i : SentTo(m.sources, i) \ {s} = SentTo(without, i)
    BY DEF SentTo
  <1>6. SlotsDistinct(m.out) /\ \A t \in DOMAIN m.sources : m.sources[t] \in 1..k
    BY <1>2 DEF StemsSound, SlotsDistinct, LiveSlots
  <1>7. \/ got = <<m, m.out[m.sources[s]]>>
        \/ \E i \in LiveSlots(m) : got = <<Moved(m, left, s, i), m.out[i]>>
        \/ got = <<[m EXCEPT !.sources = without, !.usage = left], NoConn>>
    BY DEF GetStem, LeastUsed, Restrict
  <1> HIDE DEF left
  <1>8. CASE got = <<m, m.out[m.sources[s]]>>
    BY <1>8
  <1>9. ASSUME NEW i \in LiveSlots(m), got = <<Moved(m, left, s, i), m.out[i]>>
        PROVE  StemsType(got[1]) /\ StemsSound(got[1])
    <2> DEFINE with == [t \in DOMAIN m.sources \cup {s} |-> IF t = s THEN i ELSE m.sources[t]]
               more == [left EXCEPT ![i] = left[i] + 1]
               m2 == got[1]
    <2>1. i \in 1..k /\ i \in 1..Stems
      BY <1>2, StemAssumption DEF LiveSlots
    <2>2. /\ m2.out = m.out /\ m2.sources = with /\ m2.usage = more
          /\ m2 = [out |-> m2.out, sources |-> m2.sources, usage |-> m2.usage]
      BY <1>9 DEF Moved, StemsType
    <2>3. with \in [D \cup {s} -> 1..Stems] /\ \A t \in DOMAIN with : with[t] \in 1..k
      BY <1>1, <1>6, <2>1
    <2>4. more \in [1..Stems -> Nat]
      BY <1>4, <2>1
    <2>5. \A x \in 1..Stems : more[x] = Cardinality(SentTo(with, x))
      <3> SUFFICES ASSUME NEW x \in 1..Stems PROVE more[x] = Cardinality(SentTo(with, x))
        OBVIOUS
      <3>1. IsFiniteSet(SentTo(without, x)) /\ s \notin SentTo(without, x)
        <4>1. SentTo(without, x) \in SUBSET Source
          BY <1>1 DEF SentTo
        <4>2. QED
          BY <4>1, FiniteSources DEF SentTo
      <3>2. CASE x = i
        <4>1. SentTo(with, x) = SentTo(without, x) \cup {s}
          BY <3>2 DEF SentTo
        <4>2. more[x] = left[x] + 1
          BY <1>4, <3>2
        <4> HIDE DEF without, with, more
        <4>3. QED
          <5>1. left[x] = Cardinality(SentTo(without, x))
            BY <1>4, <1>5
          <5>2. Cardinality(SentTo(without, x) \cup {s}) = Cardinality(SentTo(without, x)) + 1
            BY <3>1, FS_AddElement
          <5>3. QED
            BY <4>1, <4>2, <5>1, <5>2
      <3>3. CASE x # i
        <4>1. SentTo(with, x) = SentTo(without, x)
          BY <3>3 DEF SentTo
        <4>2. more[x] = left[x]
          BY <1>4, <3>3
        <4> HIDE DEF without, with, more
        <4>3. QED
          BY <1>4, <1>5, <4>1, <4>2
      <3>4. QED
        BY <3>2, <3>3
    <2> HIDE DEF m2, with, more
    <2>6. StemsType(m2)
      <3>1. D \cup {s} \in SUBSET Source
        OBVIOUS
      <3>2. QED
        BY <1>2, <2>2, <2>3, <2>4, <3>1 DEF StemsType
    <2>7. StemsSound(m2)
      <3>1. m2.out \in [1..k -> Conn \cup {NoConn}] /\ SlotsDistinct(m2.out) /\ DOMAIN m2.out = 1..k
        BY <1>2, <1>6, <2>2
      <3>2. QED
        BY <2>2, <2>3, <2>5, <3>1, SoundParts
    <2>8. QED
      BY <2>6, <2>7 DEF m2
  <1>10. CASE got = <<[m EXCEPT !.sources = without, !.usage = left], NoConn>>
    <2> DEFINE m2 == got[1]
    <2>1. /\ m2.out = m.out /\ m2.sources = without /\ m2.usage = left
          /\ m2 = [out |-> m2.out, sources |-> m2.sources, usage |-> m2.usage]
      BY <1>10 DEF StemsType
    <2>2. without \in [D \ {s} -> 1..Stems] /\ \A t \in DOMAIN without : without[t] \in 1..k
      BY <1>1, <1>6
    <2> HIDE DEF m2, without
    <2>3. StemsType(m2)
      <3>1. D \ {s} \in SUBSET Source
        OBVIOUS
      <3>2. QED
        BY <1>2, <1>4, <2>1, <2>2, <3>1 DEF StemsType
    <2>4. StemsSound(m2)
      <3>1. m2.out \in [1..k -> Conn \cup {NoConn}] /\ SlotsDistinct(m2.out) /\ DOMAIN m2.out = 1..k
        BY <1>2, <1>6, <2>1
      <3>2. \A i \in 1..Stems : m2.usage[i] = Cardinality(SentTo(m2.sources, i))
        BY <1>4, <1>5, <2>1
      <3>3. QED
        BY <2>1, <2>2, <3>1, <3>2, SoundParts
    <2>5. QED
      BY <2>3, <2>4 DEF m2
  <1>11. QED
    BY <1>7, <1>8, <1>9, <1>10

LEMMA StemsStep ==
    ASSUME TypeInv, StemsType(stems), StemsSound(stems), [Next]_vars
    PROVE  StemsType(stems)' /\ StemsSound(stems)'
  <1> DEFINE Ok(m) == StemsType(m) /\ StemsSound(m)
  <1>0. Ok(stems) /\ Candidates \in SUBSET Conn /\ {} \in SUBSET Conn
    BY DEF Candidates, Normal
  <1> SUFFICES Ok(stems')
    BY DEF StemsType, StemsSound, LiveSlots
  <1> HIDE DEF Ok
  <1>2. ASSUME NEW h \in Thread, Stem(h) PROVE Ok(stems')
    <2>1. CASE stems' = stems
      BY <1>0, <2>1
    <2>2. CASE \E got \in GetStem(stems, Current(h).from) : stems' = got[1]
      <3>1. Current(h).from \in Source
        BY <1>2, CurrentJob DEF Stem, TypeInv
      <3>2. QED
        BY <1>0, <2>2, <3>1, GetStemSound DEF Ok
    <2>3. QED
      BY <1>2, <2>1, <2>2 DEF Stem
  <1>3. ASSUME NEW h \in Thread, Mend(h) PROVE Ok(stems')
    BY <1>0, <1>3, UpdateStemsSound DEF Mend, Ok
  <1>4. ASSUME NEW h \in Thread, Begin(h) \/ Fluff(h) \/ Mark(h) PROVE Ok(stems')
    BY <1>0, <1>4 DEF Begin, Fluff, Mark, wire
  <1>5. CASE NewEpoch
    BY <1>0, <1>5, NewStemsSound DEF NewEpoch, Ok
  <1>6. CASE Restart
    BY <1>0, <1>6, NewStemsSound DEF Restart, Ok
  <1>7. CASE TickArrived \/ ZoneChanges \/ UNCHANGED vars
    BY <1>0, <1>7 DEF TickArrived, ZoneChanges, vars, wire, Rest
  <1>8. ASSUME NEW S, TickForward(S) \/ TickEmbargo(S) \/ TickWalk(S) \/ TickFlush(S) PROVE Ok(stems')
    BY <1>0, <1>8 DEF TickForward, TickEmbargo, TickWalk, TickFlush, wire
  <1>9. ASSUME NEW c, NEW t, NEW b,
               Receive(c, t, b) \/ HiddenReceive(t, b) \/ Submit(c, t, b) \/ RelayTx(c, t)
        PROVE  Ok(stems')
    BY <1>0, <1>9 DEF Receive, HiddenReceive, Submit, RelayTx, wire
  <1>10. ASSUME NEW c, Connect(c) \/ FallBehind(c) \/ CatchUp(c) \/ Close(c) \/ Forget(c) \/ Mine(c)
         PROVE  Ok(stems')
    BY <1>0, <1>10 DEF Connect, FallBehind, CatchUp, Close, Forget, Mine, wire, Rest
  <1>11. QED
    <2>1. ASSUME NEW h \in Thread, Run(h) PROVE Ok(stems')
      BY <1>2, <1>3, <1>4, <2>1 DEF Run
    <2>2. QED
      BY <1>5, <1>6, <1>7, <1>8, <1>9, <1>10, <2>1 DEF Next

LEMMA StemsInvHolds == Spec => [](StemsType(stems) /\ StemsSound(stems))
  <1> DEFINE Inv == StemsType(stems) /\ StemsSound(stems)
  <1>1. Init => Inv
    <2>1. {} \in SUBSET Conn
      OBVIOUS
    <2>2. QED
      BY <2>1, NewStemsSound DEF Init
  <1>2. TypeInv /\ Inv /\ [Next]_vars => Inv'
    BY StemsStep
  <1> HIDE DEF Inv
  <1>3. Spec => []Inv
    BY <1>1, <1>2, TypeInvHolds, PTL DEF Spec
  <1>4. QED
    BY <1>3 DEF Inv

(* The relay's types hold, and whatever connections come, fall behind and go
   between two looks at the stem map, its slots hold different connections,
   every source has a slot there is, and each slot's count is that of its
   sources. *)
THEOREM StemsOKHolds == Spec => []StemsOK
  <1>1. TypeInv /\ StemsType(stems) /\ StemsSound(stems) => StemsOK
    BY DEF TypeInv, StemsOK
  <1>2. QED
    BY <1>1, StemsInvHolds, TypeInvHolds, PTL

-----------------------------------------------------------------------------
(* Paths that are kept. *)

(* s has in m2 the stem it has in m. *)
PathKept(m, m2, s) == HasStem(m2, s) /\ m2.out[m2.sources[s]] = m.out[m.sources[s]]

(* `update` empties and fills only slots whose connection is not in C. *)
LEMMA UpdateKeepsPath ==
    ASSUME NEW m, StemsType(m), StemsSound(m), NEW C \in SUBSET Conn, NEW m2 \in UpdateStems(m, C),
           NEW s \in DOMAIN m.sources, m.out[m.sources[s]] \in C
    PROVE  PathKept(m, m2, s)
  <1> DEFINE kept   == [i \in DOMAIN m.out |-> IF m.out[i] \in C THEN m.out[i] ELSE NoConn]
             spare  == C \ Range(kept)
             free   == {i \in 1..Stems : i \notin DOMAIN kept \/ kept[i] = NoConn}
             filled == {i \in free : Cardinality({j \in free : j <= i}) <= Cardinality(spare)}
             o(f)   == [i \in DOMAIN kept \cup filled |-> IF i \in filled THEN f[i] ELSE kept[i]]
  <1>1. PICK f \in [filled -> spare] : m2 = [m EXCEPT !.out = o(f)]
    BY DEF UpdateStems
  <1>2. m2.out = o(f) /\ m2.sources = m.sources
    BY <1>1 DEF StemsType
  <1>3. PICK i \in DOMAIN m.out : i = m.sources[s]
    BY DEF StemsSound
  <1>4. m.out[i] # NoConn /\ m.out[i] \in C
    BY <1>3, RelayAssumption
  <1>5. i \in DOMAIN kept /\ kept[i] = m.out[i] /\ i \notin free
    BY <1>4
  <1>6. filled \subseteq free
    OBVIOUS
  <1> HIDE DEF kept, free, filled
  <1>7. i \in DOMAIN o(f) /\ o(f)[i] = m.out[i]
    BY <1>5, <1>6
  <1>8. QED
    BY <1>2, <1>3, <1>4, <1>7 DEF PathKept, HasStem, LiveSlots

(* `get_stem` moves only the source it is asked for, and that only off a slot
   that is empty. *)
LEMMA GetKeepsPath ==
    ASSUME NEW m, StemsType(m), StemsSound(m), NEW r, NEW got \in GetStem(m, r),
           NEW s \in DOMAIN m.sources, m.out[m.sources[s]] # NoConn
    PROVE  PathKept(m, got[1], s)
  <1> DEFINE left == IF r \in DOMAIN m.sources
                       THEN [m.usage EXCEPT ![m.sources[r]] = IF @ = 0 THEN 0 ELSE @ - 1]
                       ELSE m.usage
             without == [t \in DOMAIN m.sources \ {r} |-> m.sources[t]]
  <1>1. HasStem(m, s)
    BY DEF HasStem, LiveSlots, StemsSound
  <1>2. \/ got = <<m, m.out[m.sources[r]]>>
        \/ r # s /\ \E i \in LiveSlots(m) : got = <<Moved(m, left, r, i), m.out[i]>>
        \/ r # s /\ got = <<[m EXCEPT !.sources = without, !.usage = left], NoConn>>
    BY <1>1 DEF GetStem, LeastUsed, Restrict
  <1> HIDE DEF left
  <1>3. CASE got = <<m, m.out[m.sources[r]]>>
    BY <1>1, <1>3 DEF PathKept
  <1>4. ASSUME r # s, NEW i \in LiveSlots(m), got = <<Moved(m, left, r, i), m.out[i]>>
        PROVE  PathKept(m, got[1], s)
    <2>1. /\ got[1].out = m.out
          /\ got[1].sources = [t \in DOMAIN m.sources \cup {r} |-> IF t = r THEN i ELSE m.sources[t]]
      BY <1>4 DEF Moved, StemsType
    <2>2. s \in DOMAIN got[1].sources /\ got[1].sources[s] = m.sources[s]
      BY <1>4, <2>1
    <2>3. QED
      BY <1>1, <2>1, <2>2 DEF PathKept, HasStem, LiveSlots
  <1>5. CASE r # s /\ got = <<[m EXCEPT !.sources = without, !.usage = left], NoConn>>
    <2>1. got[1].out = m.out /\ got[1].sources = without
      BY <1>5 DEF StemsType
    <2>2. s \in DOMAIN got[1].sources /\ got[1].sources[s] = m.sources[s]
      BY <1>5, <2>1
    <2>3. QED
      BY <1>1, <2>1, <2>2 DEF PathKept, HasStem, LiveSlots
  <1>6. QED
    BY <1>2, <1>3, <1>4, <1>5

LEMMA PathsStep ==
    ASSUME TypeInv, StemsType(stems), StemsSound(stems), [Next]_vars, ~ (NewEpoch \/ Restart),
           NEW s \in DOMAIN stems.sources, stems.out[stems.sources[s]] \in Candidates
    PROVE  PathKept(stems, stems', s)
  <1>1. Candidates \in SUBSET Conn /\ NoConn \notin Candidates
    BY RelayAssumption DEF Candidates, Normal
  <1>2. CASE stems' = stems
    <2>1. HasStem(stems, s)
      BY <1>1 DEF HasStem, LiveSlots, StemsSound
    <2>2. QED
      BY <1>2, <2>1 DEF PathKept
  <1>3. ASSUME NEW h \in Thread, Stem(h) PROVE PathKept(stems, stems', s)
    <2>1. CASE \E got \in GetStem(stems, Current(h).from) : stems' = got[1]
      BY <1>1, <2>1, GetKeepsPath
    <2>2. QED
      BY <1>2, <1>3, <2>1 DEF Stem
  <1>4. ASSUME NEW h \in Thread, Mend(h) PROVE PathKept(stems, stems', s)
    BY <1>1, <1>4, UpdateKeepsPath DEF Mend
  <1>5. ASSUME NEW h \in Thread, Begin(h) \/ Fluff(h) \/ Mark(h) PROVE stems' = stems
    BY <1>5 DEF Begin, Fluff, Mark, wire
  <1>6. CASE TickArrived \/ ZoneChanges \/ UNCHANGED vars
    BY <1>2, <1>6 DEF TickArrived, ZoneChanges, vars, wire, Rest
  <1>7. ASSUME NEW S, TickForward(S) \/ TickEmbargo(S) \/ TickWalk(S) \/ TickFlush(S) PROVE stems' = stems
    BY <1>7 DEF TickForward, TickEmbargo, TickWalk, TickFlush, wire
  <1>8. ASSUME NEW c, NEW t, NEW b,
               Receive(c, t, b) \/ HiddenReceive(t, b) \/ Submit(c, t, b) \/ RelayTx(c, t)
        PROVE  stems' = stems
    BY <1>8 DEF Receive, HiddenReceive, Submit, RelayTx, wire
  <1>9. ASSUME NEW c, Connect(c) \/ FallBehind(c) \/ CatchUp(c) \/ Close(c) \/ Forget(c) \/ Mine(c)
        PROVE  stems' = stems
    BY <1>9 DEF Connect, FallBehind, CatchUp, Close, Forget, Mine, wire, Rest
  <1>10. QED
    <2>1. ASSUME NEW h \in Thread, Run(h) PROVE PathKept(stems, stems', s)
      BY <1>2, <1>3, <1>4, <1>5, <2>1 DEF Run
    <2>2. QED
      BY <1>2, <1>6, <1>7, <1>8, <1>9, <2>1 DEF Next

(* `get_stem` and `update`, from any thread and in any order: between epochs a
   source whose stem connection may still be used keeps it, whatever becomes of
   the other stems. *)
THEOREM PathsKeptHolds == Spec => PathsKept
  <1> DEFINE Inv == StemsType(stems) /\ StemsSound(stems)
             Kept == ~ (NewEpoch \/ Restart) =>
                        \A s \in DOMAIN stems.sources :
                           LET stem == stems.out[stems.sources[s]]
                           IN  stem \in Candidates =>
                                  HasStem(stems', s) /\ stems'.out[stems'.sources[s]] = stem
  <1>1. Spec => []Inv
    BY StemsInvHolds
  <1>2. TypeInv /\ Inv /\ [Next]_vars => [Kept]_vars
    BY PathsStep DEF PathKept
  <1>3. QED
    BY <1>1, <1>2, TypeInvHolds, PTL DEF Spec, PathsKept
=============================================================================
