------------------------------ MODULE WThread ------------------------------
(***************************************************************************)
(* gdres::Thread (thread/wthread.cpp): a std::thread with a name, an id    *)
(* and a state.  The constructor starts the thread and waits until it has  *)
(* published its id and taken its function; the destructor joins it.       *)
(* reset() is not modelled: nothing calls it.                              *)
(***************************************************************************)
EXTENDS Naturals

CONSTANTS Workers,   \* the Thread objects, each with the thread it starts
          NoId       \* an id not published yet

VARIABLES
  thState,   \* "none" (no object), INIT, EXEC, TERM, "deleted"
  id,        \* id
  sem        \* the count of sem

ThreadInit ==
  /\ thState = [w \in Workers |-> "none"]
  /\ id = [w \in Workers |-> NoId]
  /\ sem = [w \in Workers |-> 0]

\* Thread(): the std::thread is created, the caller goes on to sem.wait().
Construct(w) ==
  /\ thState[w] = "none"
  /\ thState' = [thState EXCEPT ![w] = "INIT"]
  /\ UNCHANGED <<id, sem>>

\* Run() up to cb.swap(): state, id and function, none of them under a lock.
Enter(w) ==
  /\ thState[w] = "INIT"
  /\ thState' = [thState EXCEPT ![w] = "EXEC"]
  /\ id' = [id EXCEPT ![w] = w]
  /\ UNCHANGED sem

Signal(w) ==
  /\ sem' = [sem EXCEPT ![w] = @ + 1]
  /\ UNCHANGED <<thState, id>>

\* A mutant: the constructor does not wait for the thread.
ConstructedAtOnce(w) == thState[w] # "none" /\ UNCHANGED <<thState, id, sem>>

\* sem.wait() in the constructor returns.
Constructed(w) ==
  /\ sem[w] > 0
  /\ sem' = [sem EXCEPT ![w] = @ - 1]
  /\ UNCHANGED <<thState, id>>

Term(w) ==
  /\ thState' = [thState EXCEPT ![w] = "TERM"]
  /\ UNCHANGED <<id, sem>>

\* ~Thread(): join() returns when the thread has left Run().
Delete(w) ==
  /\ thState[w] = "TERM"
  /\ thState' = [thState EXCEPT ![w] = "deleted"]
  /\ UNCHANGED <<id, sem>>

ThreadTypeOK ==
  /\ thState \in [Workers -> {"none", "INIT", "EXEC", "TERM", "deleted"}]
  /\ id \in [Workers -> Workers \cup {NoId}]
  /\ sem \in [Workers -> 0..1]
=============================================================================
