----------------------------- MODULE CmdService -----------------------------
(***************************************************************************)
(* What CmdQueue and CmdMBox promise together: the firmware is given one   *)
(* command at a time, in the order in which they were accepted; only the   *)
(* command it was given is answered; and a reset of the firmware leaves    *)
(* the callbacks of all unanswered commands, in that order, to be told of  *)
(* it, each once.                                                          *)
(***************************************************************************)
EXTENDS Integers, Sequences

CONSTANTS
    Commands,
    WithCb,     \* those with a callback
    None

VARIABLES
    pending,    \* accepted, not answered
    atFw,       \* the one the firmware works on
    owed        \* callbacks to be told of the reset

vars == <<pending, atFw, owed>>

Init == pending = <<>> /\ atFw = None /\ owed = <<>>

\* The commands of a queue that have a callback, in its order.
CallbacksOf(q) ==
    LET saved[i \in 0 .. Len(q)] ==
            IF i = 0 THEN <<>>
            ELSE IF q[i] \in WithCb THEN Append(saved[i - 1], q[i]) ELSE saved[i - 1]
    IN  saved[Len(q)]

\* To an idle queue: the firmware may be given the command at once.
Accept(c) ==
    /\ pending' = Append(pending, c)
    /\ atFw' = atFw \/ (pending = <<>> /\ atFw' = c)
    /\ UNCHANGED owed

Give ==
    /\ atFw = None /\ pending # <<>>
    /\ atFw' = Head(pending)
    /\ UNCHANGED <<pending, owed>>

Answer ==
    /\ pending # <<>> /\ atFw = Head(pending)
    /\ pending' = Tail(pending) /\ atFw' = None
    /\ UNCHANGED owed

\* The callbacks of an earlier reset that were not told yet are forgotten.
Reset ==
    /\ owed' = CallbacksOf(pending)
    /\ pending' = <<>> /\ atFw' = None

Tell ==
    /\ owed # <<>>
    /\ owed' = Tail(owed)
    /\ UNCHANGED <<pending, atFw>>

Next == (\E c \in Commands : Accept(c)) \/ Give \/ Answer \/ Reset \/ Tell

Spec == Init /\ [][Next]_vars
=============================================================================
