----------------------------- MODULE VersionLog -----------------------------
(***************************************************************************)
(* What a versioned document promises its authors: a line of versions,     *)
(* each made from the one before it, none ever rewritten or lost; and a     *)
(* shelf on which it may be laid and from which it comes back, and while    *)
(* it lies there nothing is added to it.                                    *)
(***************************************************************************)
EXTENDS Naturals, Sequences

CONSTANT Bodies      \* what a version may say

VARIABLES log,       \* the versions: what each says, and on which it rests
          shelved    \* the document is laid aside

logVars == <<log, shelved>>

LogInit == log = <<>> /\ shelved = FALSE

\* A version is added; its author had the latest one before him.
Publish(b) ==
    /\ ~shelved
    /\ log' = Append(log, [body |-> b, on |-> Len(log)])
    /\ UNCHANGED shelved

Shelve == log # <<>> /\ ~shelved /\ shelved' = TRUE /\ UNCHANGED log

Unshelve == shelved /\ shelved' = FALSE /\ UNCHANGED log

LogNext == Shelve \/ Unshelve \/ \E b \in Bodies : Publish(b)

LogSpec == LogInit /\ [][LogNext]_logVars
=============================================================================
