--------------------------- MODULE SerialDocument ---------------------------
(***************************************************************************)
(* What `DataStore.updateState` promises its callers: the tenant's state   *)
(* is one document, and every call of updateState that returns has applied *)
(* its mutation to that document exactly once, in one indivisible step     *)
(* between the call and the return.  A call that throws, or whose process  *)
(* dies, may or may not have been applied, but never more than once.       *)
(*                                                                         *)
(* The document is represented by the sequence of the calls applied to it. *)
(***************************************************************************)
EXTENDS Sequences

CONSTANT Calls                 \* the invocations of updateState

VARIABLES log,                 \* the calls applied, in order
          status               \* what the caller of each knows

vars == <<log, status>>

Statuses == {"new", "pending", "returned", "lost"}

Applied == {log[k] : k \in DOMAIN log}

Init == /\ log = <<>>
        /\ status = [c \in Calls |-> "new"]

\* The caller invokes updateState.
Invoke(c) == /\ status[c] = "new"
             /\ status' = [status EXCEPT ![c] = "pending"]
             /\ UNCHANGED log

\* The mutation takes effect.
Apply(c) == /\ status[c] = "pending"
            /\ c \notin Applied
            /\ log' = Append(log, c)
            /\ UNCHANGED status

\* updateState returns the new state: only after the mutation took effect.
Return(c) == /\ status[c] = "pending"
             /\ c \in Applied
             /\ status' = [status EXCEPT ![c] = "returned"]
             /\ UNCHANGED log

\* updateState throws, or the process running it is gone.
Lose(c) == /\ status[c] = "pending"
           /\ status' = [status EXCEPT ![c] = "lost"]
           /\ UNCHANGED log

Next == \E c \in Calls : Invoke(c) \/ Apply(c) \/ Return(c) \/ Lose(c)

Spec == Init /\ [][Next]_vars
=============================================================================
