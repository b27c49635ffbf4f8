---------------------------- MODULE IoServicePool ----------------------------
(***************************************************************************)
(* io_service_pool::io_service, by which any number of threads share out   *)
(* the pool's io_services without a lock.  The rest of the pool is in      *)
(* ServerLifecycle.                                                        *)
(*                                                                         *)
(* A step ends at each access to the one atomic counter.                   *)
(***************************************************************************)
EXTENDS Naturals

CONSTANTS
    Caller,
    PoolSize,  \* pool_size_
    SizeMax    \* largest value of a size_t

\* The constructor asserts that the pool is not empty.
ConstantsAssumption ==
    /\ PoolSize \in Nat \ {0}
    /\ SizeMax \in Nat
    /\ PoolSize < SizeMax

VARIABLES
    next_io_service,  \* next_io_service_
    pc,               \* what each caller does next, see TypeOK
    next,             \* its local variable next
    seen,             \* its local variable seen
    ticket,           \* history: the number of its call, in the order of increments
    calls             \* history: counts the calls

vars == <<next_io_service, pc, next, seen, ticket, calls>>

Init ==
    /\ next_io_service = 0
    /\ pc = [t \in Caller |-> "idle"]
    /\ next = [t \in Caller |-> 0]
    /\ seen = [t \in Caller |-> 0]
    /\ ticket = [t \in Caller |-> 0]
    /\ calls = 0

\* next_io_service_++
increment(t) ==
    /\ pc[t] = "idle"
    /\ next' = [next EXCEPT ![t] = next_io_service]
    /\ next_io_service' = IF next_io_service = SizeMax THEN 0 ELSE next_io_service + 1
    /\ pc' = [pc EXCEPT ![t] = IF next_io_service >= PoolSize THEN "load" ELSE "return"]
    /\ ticket' = [ticket EXCEPT ![t] = calls]
    /\ calls' = calls + 1
    /\ UNCHANGED seen

\* Some other helpful thread came along, or the counter is to be reduced.
load(t) ==
    /\ pc[t] = "load"
    /\ seen' = [seen EXCEPT ![t] = next_io_service]
    /\ pc' = [pc EXCEPT ![t] = IF next_io_service < PoolSize THEN "return" ELSE "exchange"]
    /\ UNCHANGED <<next_io_service, next, ticket, calls>>

\* The loop goes on if the exchange succeeded, and is left if it failed.
compare_exchange(t) ==
    /\ pc[t] = "exchange"
    /\ \/ /\ next_io_service = seen[t]
          /\ next_io_service' = seen[t] % PoolSize
          /\ pc' = [pc EXCEPT ![t] = "load"]
          /\ UNCHANGED seen
       \/ /\ next_io_service # seen[t]
          /\ seen' = [seen EXCEPT ![t] = next_io_service]
          /\ pc' = [pc EXCEPT ![t] = "return"]
          /\ UNCHANGED next_io_service
    /\ UNCHANGED <<next, ticket, calls>>

\* The io_service a caller is given, by its index.
io_service(t) == next[t] % PoolSize

return(t) ==
    /\ pc[t] = "return"
    /\ pc' = [pc EXCEPT ![t] = "idle"]
    /\ UNCHANGED <<next_io_service, next, seen, ticket, calls>>

Next == \E t \in Caller : increment(t) \/ load(t) \/ compare_exchange(t) \/ return(t)

Spec == Init /\ [][Next]_vars

-----------------------------------------------------------------------------
(* Properties                                                               *)

TypeOK ==
    /\ next_io_service \in 0 .. SizeMax
    /\ pc \in [Caller -> {"idle", "load", "exchange", "return"}]
    /\ next \in [Caller -> 0 .. SizeMax]
    /\ seen \in [Caller -> 0 .. SizeMax]
    /\ ticket \in [Caller -> Nat]
    /\ calls \in Nat

\* The counter has not passed the largest size_t, at which it would lose its
\* residue unless the size of the pool is a power of 2.
NoOverflow == calls <= SizeMax

\* "Get next available io_service object in pool": whichever threads call at
\* once, and whoever reduces the counter for whom, the calls take the pool's
\* members in turn.
RoundRobin ==
    NoOverflow => \A t \in Caller : pc[t] # "idle" => io_service(t) = ticket[t] % PoolSize

\* "This does not GUARANTUEE that next_io_service_ will not grow boundless": it
\* may while exchanges go on failing, but not past the end of the calls.
ReducedWhenIdle ==
    (\A t \in Caller : pc[t] = "idle") => next_io_service <= PoolSize

-----------------------------------------------------------------------------
(* What they rest on                                                        *)

\* Increments and exchanges keep the counter in step with the calls.
ResidueInv ==
    NoOverflow =>
        /\ next_io_service <= calls
        /\ next_io_service % PoolSize = calls % PoolSize
        /\ \A t \in Caller : pc[t] # "idle" => next[t] % PoolSize = ticket[t] % PoolSize

\* The caller t will reduce the counter as it is.
Reduces(t) == pc[t] = "load" \/ (pc[t] = "exchange" /\ seen[t] = next_io_service)

\* A counter past the pool's size has somebody who will reduce it: an exchange
\* fails only for a later increment or another's exchange.
ReducerInv == next_io_service > PoolSize => \E t \in Caller : Reduces(t)
=============================================================================
