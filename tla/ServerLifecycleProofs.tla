------------------------- MODULE ServerLifecycleProofs -------------------------
(***************************************************************************)
(* Theorems about start and shutdown of the server, for any clients and    *)
(* every way the threads interleave, and about the counter by which        *)
(* io_service_pool shares out its io_services (the instance Pool).         *)
(***************************************************************************)
EXTENDS ServerLifecycle, TLAPS

-----------------------------------------------------------------------------
(* The inductive invariant                                                  *)

\* The thread in application::run before it starts the pool's thread, and from
\* where that thread is in threads_.
BeforePool == {"create", "notify_startup", "open", "bind", "run_pool", "failed"}

BehindPool ==
    {"notify_bound", "wait_until_connections_closed", "reset_work", "release_work",
     "stop_io_service", "begin_threads", "joinable", "join", "notify_stopped",
     "wait_until_stopped", "returned", "threw"}

UserLabel == Label \ {"create", "notify_startup", "open", "bind", "run_pool", "push_back",
                      "notify_bound", "failed"}

\* How far run has come tells whether there is a thread to join.
PoolInv ==
    /\ pc["run"] \in BeforePool \cup BehindPool \cup {"push_back"}
    /\ pc["user"] \in UserLabel
    /\ pc["run"] \in BeforePool <=> network = "none"
    /\ pc["run"] \in BehindPool <=> threads

\* Who is in join() holds on until the thread has terminated, and is the only one.
JoinInv ==
    /\ \A t \in Thread : pc[t] = "join" => threads
    /\ \A t \in Thread : joiner = t => pc[t] = "join"
    /\ joiner # "none" => threads
    /\ pc["run"] \in {"notify_stopped", "wait_until_stopped", "returned"} => joiner = "joined"
    /\ pc["run"] = "threw" => joiner \in {"user", "joined"}

LifecycleInv == TypeOK /\ PoolInv /\ JoinInv

-----------------------------------------------------------------------------

LEMMA InvInit == Init => LifecycleInv
  <1> SUFFICES ASSUME Init
               PROVE  LifecycleInv
    OBVIOUS
  <1>1. /\ pc = [run |-> "create", user |-> "wait_until_started"]
        /\ pc["run"] = "create" /\ pc["user"] = "wait_until_started"
    BY DEF Init
  <1>2. pc \in [Thread -> Label]
    <2>1. DOMAIN pc = Thread
      BY <1>1 DEF Thread
    <2>2. \A t \in Thread : pc[t] \in Label
      BY <1>1 DEF Thread, Label
    <2>3. pc = [t \in Thread |-> pc[t]]
      BY <1>1, <2>1
    <2> QED
      BY <2>2, <2>3
  <1>3. TypeOK
    <2>1. seen \in [Thread -> BOOLEAN]
      BY DEF Init
    <2>2. /\ waiting = {} /\ connections = {}
          /\ joiner = "none" /\ acceptor = "closed" /\ network = "none" /\ signal = "none"
          /\ work = 1
      BY DEF Init
    <2>3. /\ server \in BOOLEAN /\ threads \in BOOLEAN /\ io_stopped \in BOOLEAN
          /\ close_posted \in BOOLEAN /\ connections_closed \in BOOLEAN
          /\ running \in BOOLEAN /\ crashed \in BOOLEAN
      BY DEF Init
    <2> QED
      BY <1>2, <2>1, <2>2, <2>3 DEF TypeOK
  <1>4. PoolInv
    BY <1>1 DEF Init, PoolInv, BeforePool, BehindPool, UserLabel, Label
  <1>5. JoinInv
    BY <1>1 DEF Init, JoinInv, Thread
  <1> QED
    BY <1>3, <1>4, <1>5 DEF LifecycleInv

\* A thread that goes on and notifies those blocked at a label.
LEMMA Notifies ==
    ASSUME LifecycleInv, NEW t \in Thread, NEW label, NEW next \in Label,
           notify_all(label), go(t, next)
    PROVE  pc' \in [Thread -> Label] /\ waiting' \subseteq Thread
  BY DEF LifecycleInv, TypeOK, notify_all, go

\* A thread that waits goes on or blocks.
LEMMA Waits ==
    ASSUME pc \in [Thread -> Label], waiting \subseteq Thread,
           NEW t \in Thread, NEW predicate \in BOOLEAN, NEW next \in Label,
           wait(t, predicate, next)
    PROVE  pc' \in [Thread -> Label] /\ waiting' \subseteq Thread
  BY DEF wait, go

\* Steps of application::run up to the loop, and of application::stop.
LEMMA StartupStep ==
    ASSUME LifecycleInv,
           startup \/ startup_fails \/ user \/ close_connections
    PROVE  LifecycleInv'
  <1> USE DEF LifecycleInv, TypeOK, PoolInv, JoinInv, Thread, Label, BeforePool, BehindPool,
              UserLabel, at, go, notify_all, wait, poolVars, networkVars
  <1>1. CASE create
    BY <1>1 DEF create
  <1>2. CASE notify_startup
    <2>1. TypeOK'
      <3>1. pc' \in [Thread -> Label] /\ waiting' \subseteq Thread
        BY <1>2, Notifies DEF notify_startup
      <3> QED
        BY <1>2, <3>1 DEF notify_startup
    <2>2. PoolInv'
      BY <1>2 DEF notify_startup
    <2>3. JoinInv'
      BY <1>2 DEF notify_startup
    <2> QED
      BY <2>1, <2>2, <2>3
  <1>3. CASE open
    BY <1>3 DEF open
  <1>4. CASE bind_listen_accept
    BY <1>4 DEF bind_listen_accept
  <1>5. CASE run_pool
    BY <1>5 DEF run_pool
  <1>6. CASE push_back
    BY <1>6 DEF push_back
  <1>7. CASE notify_bound
    <2>1. TypeOK'
      <3>1. pc' \in [Thread -> Label] /\ waiting' \subseteq Thread
        BY <1>7, Notifies DEF notify_bound
      <3> QED
        BY <1>7, <3>1 DEF notify_bound
    <2>2. PoolInv'
      BY <1>7 DEF notify_bound
    <2>3. JoinInv'
      BY <1>7 DEF notify_bound
    <2> QED
      BY <2>1, <2>2, <2>3
  <1>8. CASE startup_fails
    BY <1>8 DEF startup_fails
  <1>9. CASE wait_until_started
    <2>1. TypeOK'
      <3>1. wait("user", server, "wait_until_bound") /\ "wait_until_bound" \in Label /\ "user" \in Thread
        BY <1>9 DEF wait_until_started
      <3>2. pc' \in [Thread -> Label] /\ waiting' \subseteq Thread
        BY <3>1, Waits
      <3> QED
        BY <1>9, <3>2 DEF wait_until_started
    <2>2. PoolInv'
      BY <1>9 DEF wait_until_started
    <2>3. JoinInv'
      BY <1>9 DEF wait_until_started
    <2> QED
      BY <2>1, <2>2, <2>3
  <1>10. CASE wait_until_bound
    <2>1. TypeOK'
      <3>1. wait("user", acceptor # "closed", "started") /\ "started" \in Label /\ "user" \in Thread
        BY <1>10 DEF wait_until_bound
      <3>2. pc' \in [Thread -> Label] /\ waiting' \subseteq Thread
        BY <3>1, Waits
      <3> QED
        BY <1>10, <3>2 DEF wait_until_bound
    <2>2. PoolInv'
      BY <1>10 DEF wait_until_bound
    <2>3. JoinInv'
      BY <1>10 DEF wait_until_bound
    <2> QED
      BY <2>1, <2>2, <2>3
  <1>11. CASE close_connections
    BY <1>11 DEF close_connections
  <1> QED
    BY <1>1, <1>2, <1>3, <1>4, <1>5, <1>6, <1>7, <1>8, <1>9, <1>10, <1>11 DEF startup, user

LEMMA ShutdownStep ==
    ASSUME LifecycleInv, NEW t \in Thread, shutdown(t)
    PROVE  LifecycleInv'
  <1> USE DEF LifecycleInv, TypeOK, PoolInv, JoinInv, Thread, Label, BeforePool, BehindPool,
              UserLabel, at, go, notify_all, wait, poolVars, networkVars
  <1>1. CASE wait_until_connections_closed(t)
    <2>1. TypeOK'
      <3>1. wait(t, connections_closed, "reset_work") /\ "reset_work" \in Label /\ t \in Thread
        BY <1>1 DEF wait_until_connections_closed
      <3>2. pc' \in [Thread -> Label] /\ waiting' \subseteq Thread
        BY <3>1, Waits
      <3> QED
        BY <1>1, <3>2 DEF wait_until_connections_closed
    <2>2. PoolInv'
      BY <1>1 DEF wait_until_connections_closed
    <2>3. JoinInv'
      BY <1>1 DEF wait_until_connections_closed
    <2> QED
      BY <2>1, <2>2, <2>3
  <1>2. CASE reset_work(t)
    BY <1>2 DEF reset_work
  <1>3. CASE release_work(t)
    <2>1. TypeOK'
      <3>1. crashed' \in BOOLEAN
        <4>1. crashed' = FALSE \/ crashed' = (seen[t] /\ work = 0)
          BY <1>3 DEF release_work
        <4> QED
          BY <4>1, Zenon
      <3> QED
        BY <1>3, <3>1 DEF release_work
    <2>2. PoolInv'
      BY <1>3 DEF release_work
    <2>3. JoinInv'
      BY <1>3 DEF release_work
    <2> QED
      BY <2>1, <2>2, <2>3
  <1>4. CASE stop_io_service(t)
    BY <1>4 DEF stop_io_service
  <1>5. CASE begin_threads(t)
    BY <1>5 DEF begin_threads
  <1>6. CASE joinable(t)
    BY <1>6 DEF joinable, joinable_thread
  <1>7. CASE join_fails(t)
    BY <1>7 DEF join_fails
  <1>8. CASE join(t)
    BY <1>8 DEF join
  <1>9. CASE join_returns(t)
    BY <1>9 DEF join_returns
  <1>10. CASE notify_stopped(t)
    <2>1. TypeOK'
      <3> HIDE DEF LifecycleInv, PoolInv, JoinInv, Thread, Label, go, notify_all, at, wait
      <3>1. /\ LifecycleInv /\ t \in Thread /\ "wait_until_stopped" \in Label
            /\ go(t, "wait_until_stopped") /\ notify_all("wait_until_stopped")
        BY <1>10 DEF notify_stopped, Label
      <3>2. pc' \in [Thread -> Label] /\ waiting' \subseteq Thread
        BY <3>1, Notifies
      <3>3. /\ running' = FALSE
            /\ UNCHANGED <<server, acceptor, seen, crashed, network, threads, joiner, io_stopped,
                          work, networkVars>>
        BY <1>10 DEF notify_stopped
      <3>4. TypeOK
        BY <3>1 DEF LifecycleInv
      <3>5. /\ UNCHANGED <<server, acceptor, seen, crashed, network, threads, joiner, io_stopped,
                          work>>
            /\ UNCHANGED <<close_posted, signal, connections, connections_closed>>
        BY <3>3
      <3> QED
        <4>1. /\ server' \in BOOLEAN /\ threads' \in BOOLEAN /\ io_stopped' \in BOOLEAN
              /\ close_posted' \in BOOLEAN /\ connections_closed' \in BOOLEAN
              /\ crashed' \in BOOLEAN
          BY <3>4, <3>5
        <4>2. /\ seen' \in [Thread -> BOOLEAN] /\ running' \in BOOLEAN
          BY <3>3, <3>4, <3>5
        <4>3. /\ acceptor' \in {"closed", "open", "listening"}
              /\ network' \in {"none", "running", "terminated"}
              /\ joiner' \in Thread \cup {"none", "joined"}
              /\ joiner' = "joined" => network' = "terminated"
              /\ work' \in 0 .. 1
              /\ signal' \in {"none", "raised", "handled"}
              /\ connections' \subseteq Connection
          BY <3>4, <3>5
        <4> QED
          BY <3>2, <4>1, <4>2, <4>3
    <2>2. PoolInv'
      BY <1>10 DEF notify_stopped
    <2>3. JoinInv'
      BY <1>10 DEF notify_stopped
    <2> QED
      BY <2>1, <2>2, <2>3
  <1>11. CASE wait_until_stopped(t)
    BY <1>11 DEF wait_until_stopped
  <1> QED
    BY <1>1, <1>2, <1>3, <1>4, <1>5, <1>6, <1>7, <1>8, <1>9, <1>10, <1>11 DEF shutdown

\* Steps of the network thread, of its clients, and wakeups.
LEMMA NetworkStep ==
    ASSUME LifecycleInv,
           \/ \E t \in Thread : spurious_wakeup(t)
           \/ \E c \in Connection : do_accept(c) \/ connection_stopped(c)
           \/ signal_raised \/ handle_signal \/ handle_close \/ network_terminates
    PROVE  LifecycleInv'
  <1> USE DEF LifecycleInv, TypeOK, PoolInv, JoinInv, Thread, Label, BeforePool, BehindPool,
              UserLabel, notify_all, handles, do_close_connections, poolVars, networkVars
  <1>1. ASSUME NEW t \in Thread, spurious_wakeup(t)
        PROVE  LifecycleInv'
    BY <1>1 DEF spurious_wakeup
  <1>2. ASSUME NEW c \in Connection, do_accept(c)
        PROVE  LifecycleInv'
    BY <1>2 DEF do_accept
  <1>3. ASSUME NEW c \in Connection, connection_stopped(c)
        PROVE  LifecycleInv'
    BY <1>3 DEF connection_stopped
  <1>4. CASE signal_raised
    BY <1>4 DEF signal_raised
  <1>5. CASE handle_signal
    <2>1. TypeOK'
      BY <1>5 DEF handle_signal
    <2>2. PoolInv'
      BY <1>5 DEF handle_signal
    <2>3. JoinInv'
      BY <1>5 DEF handle_signal
    <2> QED
      BY <2>1, <2>2, <2>3
  <1>6. CASE handle_close
    <2>1. TypeOK'
      BY <1>6 DEF handle_close
    <2>2. PoolInv'
      BY <1>6 DEF handle_close
    <2>3. JoinInv'
      BY <1>6 DEF handle_close
    <2> QED
      BY <2>1, <2>2, <2>3
  <1>7. CASE network_terminates
    BY <1>7 DEF network_terminates
  <1> QED
    BY <1>1, <1>2, <1>3, <1>4, <1>5, <1>6, <1>7

LEMMA InvNext == LifecycleInv /\ [Next]_vars => LifecycleInv'
  <1> SUFFICES ASSUME LifecycleInv, [Next]_vars
               PROVE  LifecycleInv'
    OBVIOUS
  <1>1. CASE UNCHANGED vars
    BY <1>1 DEF vars, poolVars, networkVars, LifecycleInv, TypeOK, PoolInv, JoinInv
  <1>2. CASE Next
    BY <1>2, StartupStep, ShutdownStep, NetworkStep DEF Next
  <1> QED
    BY <1>1, <1>2

THEOREM Invariant == Spec => []LifecycleInv
  BY InvInit, InvNext, PTL DEF Spec

-----------------------------------------------------------------------------

\* TypeOK, with join's contract: a thread that was joined has terminated.
THEOREM TypeCorrect == Spec => []TypeOK
  BY Invariant, PTL DEF LifecycleInv

\* RunReturnsAfterNetwork: when application::run has returned EC_OK no handler of
\* the network runs any more, although application::stop may have joined the
\* thread in its place.
THEOREM RunOutlivesNetwork == Spec => []RunReturnsAfterNetwork
  <1>1. LifecycleInv => RunReturnsAfterNetwork
    BY DEF LifecycleInv, TypeOK, JoinInv, RunReturnsAfterNetwork
  <1> QED
    BY <1>1, Invariant, PTL

\* NoThreadLeftJoinable: of two threads in io_service_pool::stop one joins, whatever
\* exception the other's join() throws.
THEOREM ThreadIsJoined == Spec => []NoThreadLeftJoinable
  <1>1. LifecycleInv => NoThreadLeftJoinable
    BY DEF LifecycleInv, PoolInv, JoinInv, NoThreadLeftJoinable, finished, Thread, BeforePool,
           BehindPool, UserLabel
  <1> QED
    BY <1>1, Invariant, PTL

-----------------------------------------------------------------------------
(* The members of the pool.  ServerLifecycle has the pool of one thread that *)
(* mqtt_server creates; what follows is about one of any size.               *)

CONSTANTS Caller, PoolSize, SizeMax

VARIABLES next_io_service, pool_pc, next, pool_seen, ticket, calls

Pool == INSTANCE IoServicePool WITH pc <- pool_pc, seen <- pool_seen

-----------------------------------------------------------------------------
(* Residues                                                                 *)

\* The residue of a number is below the divisor, and its own residue.
LEMMA Residue == ASSUME NEW p \in Nat \ {0}, NEW c \in Nat
                 PROVE  /\ c % p \in 0 .. p - 1
                        /\ (c % p) % p = c % p
<1>1. c % p \in 0 .. p - 1
  BY SMT
<1>2. \A r \in 0 .. p - 1 : r % p = r
  BY SMT
<1> QED
  BY <1>1, <1>2

\* Equal residues stay equal when both numbers grow by one.
LEMMA NextResidue ==
    ASSUME NEW p \in Nat \ {0}, NEW c \in Nat, NEW d \in Nat, c % p = d % p
    PROVE  (c + 1) % p = (d + 1) % p
<1>1. \A n \in Nat : \E q \in Nat : n = p * q + (n % p)
  <2> SUFFICES ASSUME NEW n \in Nat PROVE \E q \in Nat : n = p * q + (n % p)
    OBVIOUS
  <2>1. n \div p \in Nat /\ n = p * (n \div p) + (n % p)
    BY SMT
  <2> QED
    BY <2>1
<1>2. \A q \in Nat, r \in 0 .. p - 1 : (p * q + r) % p = r
  BY SMT
<1>3. \A q \in Nat, r \in 0 .. p - 1 :
          (p * q + r + 1) % p = IF r = p - 1 THEN 0 ELSE r + 1
  <2> SUFFICES ASSUME NEW q \in Nat, NEW r \in 0 .. p - 1
               PROVE (p * q + r + 1) % p = IF r = p - 1 THEN 0 ELSE r + 1
    OBVIOUS
  <2>1. CASE r = p - 1
    <3>1. p * q + r + 1 = p * (q + 1) + 0 /\ q + 1 \in Nat /\ 0 \in 0 .. p - 1
      BY <2>1, SMT
    <3>2. (p * (q + 1) + 0) % p = 0
      BY <1>2, <3>1
    <3> QED
      BY <2>1, <3>1, <3>2
  <2>2. CASE r # p - 1
    <3>1. p * q + r + 1 = p * q + (r + 1) /\ r + 1 \in 0 .. p - 1
      BY <2>2, SMT
    <3>2. (p * q + (r + 1)) % p = r + 1
      BY <1>2, <3>1
    <3> QED
      BY <2>2, <3>1, <3>2
  <2> QED
    BY <2>1, <2>2
<1>4. PICK q \in Nat : c = p * q + (c % p)
  BY <1>1
<1>5. PICK s \in Nat : d = p * s + (d % p)
  BY <1>1
<1> DEFINE r == c % p
<1>6. r \in 0 .. p - 1 /\ d % p = r
  BY Residue
<1>7. c = p * q + r /\ d = p * s + r
  BY <1>4, <1>5, <1>6
<1> HIDE DEF r
<1>8. (p * q + r + 1) % p = (p * s + r + 1) % p
  BY <1>3, <1>6
<1> QED
  BY <1>7, <1>8
-----------------------------------------------------------------------------
(* Calls of io_service                                                      *)

\* Types are kept by every step.
LEMMA StepTypeOK ==
    ASSUME Pool!ConstantsAssumption, Pool!TypeOK, [Pool!Next]_Pool!vars PROVE Pool!TypeOK'
<1>1. ASSUME NEW t \in Caller, Pool!increment(t) PROVE Pool!TypeOK'
  BY <1>1 DEF Pool!ConstantsAssumption, Pool!TypeOK, Pool!increment
<1>2. ASSUME NEW t \in Caller, Pool!load(t) PROVE Pool!TypeOK'
  BY <1>2 DEF Pool!TypeOK, Pool!load
<1>3. ASSUME NEW t \in Caller, Pool!compare_exchange(t) PROVE Pool!TypeOK'
  <2>1. pool_seen[t] % PoolSize \in 0 .. SizeMax
    <3>1. pool_seen[t] \in Nat
      BY <1>3 DEF Pool!TypeOK, Pool!ConstantsAssumption
    <3>2. pool_seen[t] % PoolSize \in 0 .. PoolSize - 1
      BY <3>1, Residue DEF Pool!ConstantsAssumption
    <3> QED
      BY <3>2 DEF Pool!ConstantsAssumption
  <2> QED
    BY <1>3, <2>1 DEF Pool!TypeOK, Pool!compare_exchange
<1>4. ASSUME NEW t \in Caller, Pool!return(t) PROVE Pool!TypeOK'
  BY <1>4 DEF Pool!TypeOK, Pool!return
<1>5. CASE UNCHANGED Pool!vars
  BY <1>5 DEF Pool!TypeOK, Pool!vars
<1> QED
  BY <1>1, <1>2, <1>3, <1>4, <1>5 DEF Pool!Next

\* The counter's residue changes with the number of calls only.
LEMMA StepResidue ==
    ASSUME Pool!ConstantsAssumption, Pool!TypeOK, Pool!ResidueInv, [Pool!Next]_Pool!vars
    PROVE  Pool!ResidueInv'
<1> SUFFICES ASSUME Pool!NoOverflow'
             PROVE  /\ next_io_service' <= calls'
                    /\ next_io_service' % PoolSize = calls' % PoolSize
                    /\ \A u \in Caller : pool_pc'[u] # "idle" =>
                          next'[u] % PoolSize = ticket'[u] % PoolSize
  BY DEF Pool!ResidueInv
<1> DEFINE Goal == /\ next_io_service' <= calls'
                   /\ next_io_service' % PoolSize = calls' % PoolSize
                   /\ \A u \in Caller : pool_pc'[u] # "idle" =>
                         next'[u] % PoolSize = ticket'[u] % PoolSize
<1>0. PoolSize \in Nat \ {0} /\ SizeMax \in Nat /\ next_io_service \in Nat /\ calls \in Nat
  BY DEF Pool!ConstantsAssumption, Pool!TypeOK
<1>1. ASSUME NEW t \in Caller, Pool!increment(t) PROVE Goal
  <2>1. calls' = calls + 1 /\ calls + 1 <= SizeMax
    BY <1>1 DEF Pool!increment, Pool!NoOverflow
  <2>2. Pool!NoOverflow
    BY <1>0, <2>1 DEF Pool!NoOverflow
  <2>3. next_io_service <= calls /\ next_io_service % PoolSize = calls % PoolSize
    BY <2>2 DEF Pool!ResidueInv
  <2>4. next_io_service' = next_io_service + 1
    BY <1>0, <1>1, <2>1, <2>3 DEF Pool!increment
  <2>5. next_io_service' % PoolSize = calls' % PoolSize
    BY <1>0, <2>1, <2>3, <2>4, NextResidue
  <2>6. ASSUME NEW u \in Caller, pool_pc'[u] # "idle"
        PROVE  next'[u] % PoolSize = ticket'[u] % PoolSize
    <3>1. CASE u = t
      BY <1>1, <2>3, <3>1 DEF Pool!increment, Pool!TypeOK
    <3>2. CASE u # t
      <4>1. pool_pc[u] # "idle" /\ next'[u] = next[u] /\ ticket'[u] = ticket[u]
        BY <1>1, <2>6, <3>2 DEF Pool!increment, Pool!TypeOK
      <4> QED
        BY <2>2, <4>1 DEF Pool!ResidueInv
    <3> QED
      BY <3>1, <3>2
  <2>7. next_io_service' <= calls'
    BY <1>0, <2>1, <2>3, <2>4
  <2> QED
    BY <2>5, <2>6, <2>7
<1>2. ASSUME NEW t \in Caller, Pool!load(t) \/ Pool!return(t) PROVE Goal
  <2>1. /\ UNCHANGED <<next_io_service, next, ticket, calls>>
        /\ Pool!NoOverflow
        /\ \A u \in Caller : pool_pc'[u] # "idle" => pool_pc[u] # "idle"
    BY <1>2 DEF Pool!load, Pool!return, Pool!NoOverflow, Pool!TypeOK
  <2> QED
    BY <2>1 DEF Pool!ResidueInv
<1>3. ASSUME NEW t \in Caller, Pool!compare_exchange(t) PROVE Goal
  <2>1. /\ UNCHANGED <<next, ticket, calls>>
        /\ Pool!NoOverflow
        /\ \A u \in Caller : pool_pc'[u] # "idle" => pool_pc[u] # "idle"
    BY <1>3 DEF Pool!compare_exchange, Pool!NoOverflow, Pool!TypeOK
  <2>2. next_io_service <= calls /\ next_io_service % PoolSize = calls % PoolSize
    BY <2>1 DEF Pool!ResidueInv
  <2>3. CASE next_io_service' = next_io_service
    BY <2>1, <2>2, <2>3 DEF Pool!ResidueInv
  <2>4. CASE next_io_service' = next_io_service % PoolSize /\ PoolSize <= next_io_service
    <3>1. /\ next_io_service' \in 0 .. PoolSize - 1
          /\ next_io_service' % PoolSize = next_io_service % PoolSize
      BY <1>0, <2>4, Residue
    <3>2. next_io_service' <= calls'
      BY <1>0, <2>1, <2>2, <2>4, <3>1
    <3> QED
      BY <2>1, <2>2, <3>1, <3>2 DEF Pool!ResidueInv
  <2>5. CASE next_io_service' = next_io_service % PoolSize /\ ~(PoolSize <= next_io_service)
    <3>1. next_io_service' = next_io_service
      <4>1. next_io_service \in 0 .. PoolSize - 1
        BY <1>0, <2>5
      <4>2. \A r \in 0 .. PoolSize - 1 : r % PoolSize = r
        BY <1>0, SMT
      <4> QED
        BY <2>5, <4>1, <4>2
    <3> QED
      BY <2>3, <3>1
  <2>6. next_io_service' \in {next_io_service, next_io_service % PoolSize}
    BY <1>3 DEF Pool!compare_exchange
  <2> QED
    BY <2>3, <2>4, <2>5, <2>6
<1>4. CASE UNCHANGED Pool!vars
  BY <1>4 DEF Pool!vars, Pool!ResidueInv, Pool!NoOverflow
<1> QED
  BY <1>1, <1>2, <1>3, <1>4 DEF Pool!Next

\* Whoever leaves the loop leaves a counter that is small, or that somebody
\* else will reduce.
LEMMA StepReducer ==
    ASSUME Pool!ConstantsAssumption, Pool!TypeOK, Pool!ReducerInv, [Pool!Next]_Pool!vars
    PROVE  Pool!ReducerInv'
<1> SUFFICES ASSUME next_io_service' > PoolSize PROVE \E u \in Caller : Pool!Reduces(u)'
  BY DEF Pool!ReducerInv
<1>0. PoolSize \in Nat \ {0} /\ SizeMax \in Nat /\ next_io_service \in Nat
  BY DEF Pool!ConstantsAssumption, Pool!TypeOK
<1>1. ASSUME NEW t \in Caller, Pool!increment(t) PROVE \E u \in Caller : Pool!Reduces(u)'
  <2>1. next_io_service >= PoolSize
    BY <1>0, <1>1 DEF Pool!increment
  <2>2. pool_pc'[t] = "load"
    BY <1>1, <2>1 DEF Pool!increment, Pool!TypeOK
  <2> QED
    BY <2>2 DEF Pool!Reduces
<1>2. ASSUME NEW t \in Caller, Pool!load(t) PROVE \E u \in Caller : Pool!Reduces(u)'
  <2>1. next_io_service' = next_io_service /\ ~(next_io_service < PoolSize)
    BY <1>0, <1>2 DEF Pool!load
  <2>2. pool_pc'[t] = "exchange" /\ pool_seen'[t] = next_io_service'
    BY <1>2, <2>1 DEF Pool!load, Pool!TypeOK
  <2> QED
    BY <2>2 DEF Pool!Reduces
<1>3. ASSUME NEW t \in Caller, Pool!compare_exchange(t) PROVE \E u \in Caller : Pool!Reduces(u)'
  <2>1. CASE next_io_service = pool_seen[t]
    <3>1. pool_pc'[t] = "load"
      BY <1>3, <2>1 DEF Pool!compare_exchange, Pool!TypeOK
    <3> QED
      BY <3>1 DEF Pool!Reduces
  <2>2. CASE next_io_service # pool_seen[t]
    <3>1. next_io_service' = next_io_service /\ ~Pool!Reduces(t)
      BY <1>3, <2>2 DEF Pool!compare_exchange, Pool!Reduces
    <3>2. PICK u \in Caller : Pool!Reduces(u)
      BY <3>1 DEF Pool!ReducerInv
    <3>3. u # t
      BY <3>1, <3>2
    <3>4. pool_pc'[u] = pool_pc[u] /\ pool_seen'[u] = pool_seen[u]
      BY <1>3, <2>2, <3>3 DEF Pool!compare_exchange, Pool!TypeOK
    <3> QED
      BY <3>1, <3>2, <3>4 DEF Pool!Reduces
  <2> QED
    BY <2>1, <2>2
<1>4. ASSUME NEW t \in Caller, Pool!return(t) PROVE \E u \in Caller : Pool!Reduces(u)'
  <2>1. next_io_service' = next_io_service /\ ~Pool!Reduces(t)
    BY <1>4 DEF Pool!return, Pool!Reduces
  <2>2. PICK u \in Caller : Pool!Reduces(u)
    BY <2>1 DEF Pool!ReducerInv
  <2>3. u # t
    BY <2>1, <2>2
  <2>4. pool_pc'[u] = pool_pc[u] /\ pool_seen'[u] = pool_seen[u]
    BY <1>4, <2>3 DEF Pool!return, Pool!TypeOK
  <2> QED
    BY <2>1, <2>2, <2>4 DEF Pool!Reduces
<1>5. CASE UNCHANGED Pool!vars
  BY <1>5 DEF Pool!vars, Pool!ReducerInv, Pool!Reduces
<1> QED
  BY <1>1, <1>2, <1>3, <1>4, <1>5 DEF Pool!Next

-----------------------------------------------------------------------------
(* How io_service shares out the members                                    *)

MembersInv == Pool!TypeOK /\ Pool!ResidueInv /\ Pool!ReducerInv

\* The pool starts with the counter at 0 and nobody calling.
LEMMA MembersKept == ASSUME Pool!ConstantsAssumption PROVE Pool!Spec => []MembersInv
<1>1. Pool!Init => MembersInv
  <2> SUFFICES ASSUME Pool!Init PROVE MembersInv
    OBVIOUS
  <2>1. Pool!TypeOK /\ Pool!ReducerInv
    BY DEF Pool!Init, Pool!TypeOK, Pool!ReducerInv, Pool!ConstantsAssumption
  <2>2. Pool!ResidueInv
    BY DEF Pool!Init, Pool!ResidueInv
  <2> QED
    BY <2>1, <2>2 DEF MembersInv
<1>2. MembersInv /\ [Pool!Next]_Pool!vars => MembersInv'
  BY StepTypeOK, StepResidue, StepReducer DEF MembersInv
<1> QED
  BY <1>1, <1>2, PTL DEF Pool!Spec

\* However many threads call io_service at once, the k-th call gets the member
\* k modulo the size of the pool, until the calls outgrow a size_t.
THEOREM InTurn == ASSUME Pool!ConstantsAssumption PROVE Pool!Spec => []Pool!RoundRobin
<1>1. MembersInv => Pool!RoundRobin
  BY DEF MembersInv, Pool!ResidueInv, Pool!RoundRobin, Pool!io_service
<1> QED
  BY MembersKept, <1>1, PTL

\* When no call is under way the counter is at most the size of the pool, though
\* the loop that reduces it gives up at the first exchange that fails.
THEOREM Bounded == ASSUME Pool!ConstantsAssumption PROVE Pool!Spec => []Pool!ReducedWhenIdle
<1>1. MembersInv => Pool!ReducedWhenIdle
  <2> SUFFICES ASSUME MembersInv, \A t \in Caller : pool_pc[t] = "idle",
                      ~(next_io_service <= PoolSize)
               PROVE  FALSE
    BY DEF Pool!ReducedWhenIdle
  <2>1. next_io_service > PoolSize
    BY DEF MembersInv, Pool!TypeOK, Pool!ConstantsAssumption
  <2>2. PICK t \in Caller : Pool!Reduces(t)
    BY <2>1 DEF MembersInv, Pool!ReducerInv
  <2> QED
    BY <2>2 DEF Pool!Reduces
<1> QED
  BY MembersKept, <1>1, PTL
=============================================================================
