--------------------------- MODULE ServerLifecycle ---------------------------
(***************************************************************************)
(* Start and shutdown of the server: the thread in application::run, a     *)
(* second thread that calls application::wait_until_started and            *)
(* application::stop, and the one thread of the io_service_pool that runs  *)
(* all handlers of the network.                                            *)
(*                                                                         *)
(* A step ends where another thread can see a difference.  Checking a      *)
(* condition and starting to wait for it is one step, as the mutex makes   *)
(* it for those who notify.  Handlers of the network thread are one step.  *)
(***************************************************************************)
EXTENDS Naturals

CONSTANTS
    Connection   \* clients that connect

\* The thread that runs the application and the one that stops it.
Thread == {"run", "user"}

VARIABLES
    pc,                  \* what each thread does next
    waiting,             \* threads blocked in a condition variable
    server,              \* whether server_ is set
    acceptor,            \* "closed", "open", "listening"
    network,             \* the pool's thread: "none", "running", "terminated"
    threads,             \* whether it is in threads_
    joiner,              \* who is in join(), "joined" when it was
    io_stopped,          \* io_service::stop was called
    work,                \* references work_ holds, 0 when it was reset
    seen,                \* what a thread has read of work_ or of threads_
    close_posted,        \* a close_connections handler is queued
    signal,              \* termination signal: "none", "raised", "handled"
    connections,         \* connections_ of the connection manager
    connections_closed,  \* connections_closed_
    running,             \* running_ of the pool
    crashed              \* a data race has ended the process

poolVars == <<network, threads, joiner, io_stopped, work, running>>
networkVars == <<close_posted, signal, connections, connections_closed>>
vars == <<pc, waiting, server, acceptor, seen, crashed, poolVars, networkVars>>

Init ==
    /\ pc = [run |-> "create", user |-> "wait_until_started"]
    /\ waiting = {}
    /\ server = FALSE
    /\ acceptor = "closed"
    /\ network = "none"
    /\ threads = FALSE
    /\ joiner = "none"
    /\ io_stopped = FALSE
    /\ work = 1
    /\ seen = [t \in Thread |-> FALSE]
    /\ close_posted = FALSE
    /\ signal = "none"
    /\ connections = {}
    /\ connections_closed = FALSE
    /\ running = TRUE
    /\ crashed = FALSE

-----------------------------------------------------------------------------

at(t, label) == ~crashed /\ pc[t] = label /\ t \notin waiting

go(t, label) == pc' = [pc EXCEPT ![t] = label]

\* notify_all of the condition variable waited for at label.
notify_all(label) == waiting' = waiting \ {t \in Thread : pc[t] = label}

\* condition_variable::wait with a predicate: go on if it holds, else block.
wait(t, predicate, next) ==
    \/ predicate /\ go(t, next) /\ UNCHANGED waiting
    \/ ~predicate /\ waiting' = waiting \cup {t} /\ UNCHANGED pc

\* A blocked thread may wake up for no reason, and then looks again.
spurious_wakeup(t) ==
    /\ ~crashed
    /\ t \in waiting
    /\ waiting' = waiting \ {t}
    /\ UNCHANGED <<pc, server, acceptor, seen, crashed, poolVars, networkVars>>

-----------------------------------------------------------------------------
(* application::run and mqtt_server::run                                    *)

create ==
    /\ at("run", "create")
    /\ server' = TRUE
    /\ go("run", "notify_startup")
    /\ UNCHANGED <<waiting, acceptor, seen, crashed, poolVars, networkVars>>

notify_startup ==
    /\ at("run", "notify_startup")
    /\ notify_all("wait_until_started")
    /\ go("run", "open")
    /\ UNCHANGED <<server, acceptor, seen, crashed, poolVars, networkVars>>

\* The address does not resolve, or it cannot be opened or bound: run returns
\* EC_RUNTIME_ERROR.
startup_fails ==
    /\ at("run", "open") \/ at("run", "bind")
    /\ go("run", "failed")
    /\ UNCHANGED <<waiting, server, acceptor, seen, crashed, poolVars, networkVars>>

open ==
    /\ at("run", "open")
    /\ acceptor' = "open"
    /\ go("run", "bind")
    /\ UNCHANGED <<waiting, server, seen, crashed, poolVars, networkVars>>

bind_listen_accept ==
    /\ at("run", "bind")
    /\ acceptor' = "listening"
    /\ go("run", "run_pool")
    /\ UNCHANGED <<waiting, server, seen, crashed, poolVars, networkVars>>

\* io_service_pool::run: the thread runs before it is in threads_.
run_pool ==
    /\ at("run", "run_pool")
    /\ network' = "running"
    /\ go("run", "push_back")
    /\ UNCHANGED <<waiting, server, acceptor, seen, crashed, threads, joiner, io_stopped,
                   work, running, networkVars>>

push_back ==
    /\ at("run", "push_back")
    /\ threads' = TRUE
    /\ go("run", "notify_bound")
    /\ UNCHANGED <<waiting, server, acceptor, seen, crashed, network, joiner, io_stopped,
                   work, running, networkVars>>

\* Mutant: notify_all is forgotten.
notify_bound_silent ==
    /\ at("run", "notify_bound")
    /\ UNCHANGED waiting
    /\ go("run", "wait_until_connections_closed")
    /\ UNCHANGED <<server, acceptor, seen, crashed, poolVars, networkVars>>

notify_bound ==
    /\ at("run", "notify_bound")
    /\ notify_all("wait_until_bound")
    /\ go("run", "wait_until_connections_closed")
    /\ UNCHANGED <<server, acceptor, seen, crashed, poolVars, networkVars>>

-----------------------------------------------------------------------------
(* application::wait_until_started and application::stop                    *)

wait_until_started ==
    /\ at("user", "wait_until_started")
    /\ wait("user", server, "wait_until_bound")
    /\ UNCHANGED <<server, acceptor, seen, crashed, poolVars, networkVars>>

wait_until_bound ==
    /\ at("user", "wait_until_bound")
    /\ wait("user", acceptor # "closed", "started")
    /\ UNCHANGED <<server, acceptor, seen, crashed, poolVars, networkVars>>

close_connections ==
    /\ at("user", "started")
    /\ close_posted' = TRUE
    /\ go("user", "wait_until_connections_closed")
    /\ UNCHANGED <<waiting, server, acceptor, seen, crashed, poolVars, signal, connections,
                   connections_closed>>

-----------------------------------------------------------------------------
(* What both threads do from there on                                       *)

wait_until_connections_closed(t) ==
    /\ at(t, "wait_until_connections_closed")
    /\ wait(t, connections_closed, "reset_work")
    /\ UNCHANGED <<server, acceptor, seen, crashed, poolVars, networkVars>>

\* io_service_pool::stop.  shared_ptr::reset reads the pointer and releases it:
\* two threads that do so at once release it twice, which may end the process.
reset_work(t) ==
    /\ at(t, "reset_work")
    /\ seen' = [seen EXCEPT ![t] = work = 1]
    /\ go(t, "release_work")
    /\ UNCHANGED <<waiting, server, acceptor, crashed, poolVars, networkVars>>

release_work(t) ==
    /\ at(t, "release_work")
    /\ work' = 0
    /\ crashed' \in {FALSE, seen[t] /\ work = 0}
    /\ go(t, "stop_io_service")
    /\ UNCHANGED <<waiting, server, acceptor, seen, network, threads, joiner, io_stopped,
                   running, networkVars>>

stop_io_service(t) ==
    /\ at(t, "stop_io_service")
    /\ io_stopped' = TRUE
    /\ go(t, "begin_threads")
    /\ UNCHANGED <<waiting, server, acceptor, seen, crashed, network, threads, joiner,
                   work, running, networkVars>>

\* The loop reads begin() and end(): in between the thread may be pushed back.
begin_threads(t) ==
    /\ at(t, "begin_threads")
    /\ seen' = [seen EXCEPT ![t] = threads]
    /\ go(t, "joinable")
    /\ UNCHANGED <<waiting, server, acceptor, crashed, poolVars, networkVars>>

\* Mutant: the thread is not joined.
joinable_never == FALSE

\* Mutant: a thread that another one is joining is left to that one.
joinable_by_one == threads /\ joiner = "none"

\* joinable() of a thread nobody has joined.
joinable_thread == threads /\ joiner # "joined"

joinable(t) ==
    /\ at(t, "joinable")
    /\ crashed' = (seen[t] # threads)
    /\ go(t, IF joinable_thread THEN "join" ELSE "notify_stopped")
    /\ UNCHANGED <<waiting, server, acceptor, seen, poolVars, networkVars>>

\* join() throws std::system_error when the thread was joined meanwhile, or
\* another thread is in join().
join_fails(t) ==
    /\ at(t, "join")
    /\ joiner \notin {"none", t}
    /\ go(t, "threw")
    /\ UNCHANGED <<waiting, server, acceptor, seen, crashed, poolVars, networkVars>>

join(t) ==
    /\ at(t, "join")
    /\ joiner = "none"
    /\ joiner' = t
    /\ UNCHANGED <<pc, waiting, server, acceptor, seen, crashed, network, threads,
                   io_stopped, work, running, networkVars>>

\* Mutant: join returns although the thread runs.
join_returns_early(t) ==
    /\ at(t, "join")
    /\ joiner = t
    /\ joiner' = "joined"
    /\ go(t, "notify_stopped")
    /\ UNCHANGED <<waiting, server, acceptor, seen, crashed, network, threads, io_stopped,
                   work, running, networkVars>>

join_returns(t) ==
    /\ at(t, "join")
    /\ joiner = t
    /\ network = "terminated"
    /\ joiner' = "joined"
    /\ go(t, "notify_stopped")
    /\ UNCHANGED <<waiting, server, acceptor, seen, crashed, network, threads, io_stopped,
                   work, running, networkVars>>

notify_stopped(t) ==
    /\ at(t, "notify_stopped")
    /\ running' = FALSE
    /\ notify_all("wait_until_stopped")
    /\ go(t, "wait_until_stopped")
    /\ UNCHANGED <<server, acceptor, seen, crashed, network, threads, joiner, io_stopped,
                   work, networkVars>>

\* Each thread has been through stop(), so it never blocks here.
wait_until_stopped(t) ==
    /\ at(t, "wait_until_stopped")
    /\ ~running
    /\ go(t, "returned")
    /\ UNCHANGED <<waiting, server, acceptor, seen, crashed, poolVars, networkVars>>

-----------------------------------------------------------------------------
(* The network thread, its clients and signals                              *)

handles == ~crashed /\ network = "running" /\ ~io_stopped

\* The acceptor is never closed: it goes on while connections are closed.
do_accept(c) ==
    /\ handles
    /\ acceptor = "listening"
    /\ c \notin connections
    /\ connections' = connections \cup {c}
    /\ UNCHANGED <<pc, waiting, server, acceptor, seen, crashed, poolVars, close_posted,
                   signal, connections_closed>>

connection_stopped(c) ==
    /\ handles
    /\ c \in connections
    /\ connections' = connections \ {c}
    /\ UNCHANGED <<pc, waiting, server, acceptor, seen, crashed, poolVars, close_posted,
                   signal, connections_closed>>

\* Mutant: nobody is told.
do_close_connections_silent ==
    /\ connections' = {}
    /\ connections_closed' = TRUE
    /\ UNCHANGED waiting

do_close_connections ==
    /\ connections' = {}
    /\ connections_closed' = TRUE
    /\ notify_all("wait_until_connections_closed")

signal_raised ==
    /\ ~crashed
    /\ server
    /\ signal = "none"
    /\ signal' = "raised"
    /\ UNCHANGED <<pc, waiting, server, acceptor, seen, crashed, poolVars, close_posted,
                   connections, connections_closed>>

handle_signal ==
    /\ handles
    /\ signal = "raised"
    /\ signal' = "handled"
    /\ do_close_connections
    /\ UNCHANGED <<pc, server, acceptor, seen, crashed, poolVars, close_posted>>

handle_close ==
    /\ handles
    /\ close_posted
    /\ close_posted' = FALSE
    /\ do_close_connections
    /\ UNCHANGED <<pc, server, acceptor, seen, crashed, poolVars, signal>>

\* io_service::run returns, with handlers left or not.
network_terminates ==
    /\ ~crashed
    /\ network = "running"
    /\ io_stopped
    /\ network' = "terminated"
    /\ UNCHANGED <<pc, waiting, server, acceptor, seen, crashed, threads, joiner,
                   io_stopped, work, running, networkVars>>

-----------------------------------------------------------------------------

startup == create \/ notify_startup \/ open \/ bind_listen_accept \/ run_pool
           \/ push_back \/ notify_bound

user == wait_until_started \/ wait_until_bound

shutdown(t) ==
    \/ wait_until_connections_closed(t)
    \/ reset_work(t)
    \/ release_work(t)
    \/ stop_io_service(t)
    \/ begin_threads(t)
    \/ joinable(t)
    \/ join_fails(t)
    \/ join(t)
    \/ join_returns(t)
    \/ notify_stopped(t)
    \/ wait_until_stopped(t)

Next ==
    \/ startup
    \/ startup_fails
    \/ user
    \/ close_connections
    \/ \E t \in Thread : shutdown(t) \/ spurious_wakeup(t)
    \/ \E c \in Connection : do_accept(c) \/ connection_stopped(c)
    \/ signal_raised
    \/ handle_signal
    \/ handle_close
    \/ network_terminates

Spec == Init /\ [][Next]_vars

\* Threads are scheduled and queued handlers run.  Nobody has to ask for a
\* shutdown.
FairSpec ==
    /\ Spec
    /\ WF_vars(startup \/ startup_fails)
    /\ WF_vars(user)
    /\ \A t \in Thread : WF_vars(shutdown(t))
    /\ WF_vars(handle_signal)
    /\ WF_vars(handle_close)
    /\ WF_vars(network_terminates)

-----------------------------------------------------------------------------
(* Properties                                                               *)

Label == {"create", "notify_startup", "open", "bind", "run_pool", "push_back", "notify_bound",
          "wait_until_started", "wait_until_bound", "started",
          "wait_until_connections_closed", "reset_work", "release_work", "stop_io_service",
          "begin_threads", "joinable", "join", "notify_stopped", "wait_until_stopped",
          "returned", "threw", "failed"}

\* Types, and join's contract: a joined thread has terminated.
TypeOK ==
    /\ pc \in [Thread -> Label]
    /\ waiting \subseteq Thread
    /\ server \in BOOLEAN
    /\ acceptor \in {"closed", "open", "listening"}
    /\ network \in {"none", "running", "terminated"}
    /\ threads \in BOOLEAN
    /\ joiner \in Thread \cup {"none", "joined"}
    /\ joiner = "joined" => network = "terminated"
    /\ io_stopped \in BOOLEAN
    /\ work \in 0 .. 1
    /\ seen \in [Thread -> BOOLEAN]
    /\ close_posted \in BOOLEAN
    /\ signal \in {"none", "raised", "handled"}
    /\ connections \subseteq Connection
    /\ connections_closed \in BOOLEAN
    /\ running \in BOOLEAN
    /\ crashed \in BOOLEAN

finished(t) == pc[t] \in {"returned", "threw", "failed"}

\* When application::run has returned EC_OK the network thread is gone, whoever
\* of the two threads joined it.
RunReturnsAfterNetwork ==
    (pc["run"] = "returned" /\ ~crashed) => network = "terminated"

\* Behind run and stop no thread is left to join, which would end the process
\* when threads_ is destroyed; nor do both of them fail to join it.
NoThreadLeftJoinable ==
    (finished("run") /\ finished("user") /\ ~crashed /\ threads) => joiner = "joined"

\* A thread in wait_until_started is released once the server accepts
\* connections: no notification is lost.
StartIsNoticed ==
    (acceptor = "listening") ~> (pc["user"] \notin {"wait_until_started", "wait_until_bound"})

\* A shutdown asked for by a signal or by stop() completes for both threads,
\* as soon as the server runs and unless a data race ends the process.
ShutdownCompletes ==
    /\ (network = "running" /\ (signal = "raised" \/ close_posted)) ~> (finished("run") \/ crashed)
    /\ (network = "running" /\ close_posted) ~> (finished("user") \/ crashed)
=============================================================================
