--------------------------- MODULE SerialCallbacks ---------------------------
(***************************************************************************)
(* What SingleThreadedSchedulerClient promises to the validation interface *)
(* and its listeners: callbacks "behave as if they are executed in order   *)
(* by a single thread".                                                    *)
(***************************************************************************)
EXTENDS Sequences

CONSTANTS Callback, None

VARIABLES
    pending,        \* the callbacks added and not begun, in order
    current,        \* the one that runs
    done            \* those that have run, in order

vars == <<pending, current, done>>

Init == pending = <<>> /\ current = None /\ done = <<>>

Add(c) == pending' = Append(pending, c) /\ UNCHANGED <<current, done>>

Begin ==
    /\ current = None /\ pending # <<>>
    /\ current' = Head(pending) /\ pending' = Tail(pending)
    /\ UNCHANGED done

End ==
    /\ current # None
    /\ done' = Append(done, current) /\ current' = None
    /\ UNCHANGED pending

Next == (\E c \in Callback : Add(c)) \/ Begin \/ End

Spec == Init /\ [][Next]_vars
==============================================================================
