----------------------------- MODULE StateStore -----------------------------
(***************************************************************************)
(* Class JsonStore of src/store.mjs: the state of the control plane in     *)
(* memory, and the file that save() replaces by a copy of it.  Saves are   *)
(* chained on one promise, writeQueue, so they are written in the order    *)
(* they were called; a write that fails rejects the chain, and with it     *)
(* every later save.                                                       *)
(*                                                                         *)
(* A module that has a state of its own extends this one and says what     *)
(* happens to a caller when its save is written or rejected.               *)
(***************************************************************************)
EXTENDS Naturals, Sequences, SequencesExt

VARIABLES
    state,      \* this.state
    queue,      \* the saves still to be written: a copy, and the caller
    file,       \* what the state file holds
    broken      \* whether writeQueue is rejected

store == <<state, queue, file, broken>>

\* Variant: the newest save is written first.
SaveCalledLast(text, caller) ==
    queue' = <<[text |-> text, for |-> caller]>> \o queue

\* save(): the copy is taken at the call.
SaveCalled(text, caller) ==
    queue' = Append(queue, [text |-> text, for |-> caller])

\* The write at the head of the queue replaces the file.
HeadWritten ==
    /\ queue # <<>> /\ ~broken
    /\ file' = Head(queue).text
    /\ queue' = Tail(queue)
    /\ UNCHANGED <<state, broken>>

\* The write fails, and the chain is rejected from here on.
HeadFails ==
    /\ queue # <<>> /\ ~broken
    /\ broken' = TRUE
    /\ queue' = Tail(queue)
    /\ UNCHANGED <<state, file>>

\* A save chained on a rejected promise is rejected with it.
HeadRejected ==
    /\ queue # <<>> /\ broken
    /\ queue' = Tail(queue)
    /\ UNCHANGED <<state, file, broken>>

\* The server starts again: load().
Reload ==
    /\ state' = file
    /\ queue' = <<>> /\ broken' = FALSE
    /\ UNCHANGED file
=============================================================================
