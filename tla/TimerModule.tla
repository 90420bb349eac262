----------------------------- MODULE TimerModule -----------------------------
(***************************************************************************)
(* The driver's timer module (utils/timer.c).  An OS timer expires in its  *)
(* own context; the expiry is queued for the driver context, in one of two *)
(* queues: for timers started while the driver was operational and for the *)
(* others.  Only the queue of the present state is served.                 *)
(*                                                                         *)
(* The operators are the bodies of the module's functions; the modules     *)
(* that use it call them in their actions.  The counter of initializations *)
(* that is passed to the callbacks is left out: those modelled ignore it.  *)
(***************************************************************************)
EXTENDS Sequences

CONSTANT Timers

VARIABLES
    bOperState,      \* the driver is operational
    running,         \* OS timers that run
    operStarted,     \* timers with bOperStateWhenStarted
    hInitQueue,
    hOperQueue

timerVars == <<bOperState, running, operStarted, hInitQueue, hOperQueue>>

TimerInit ==
    /\ bOperState = FALSE
    /\ running = {} /\ operStarted = {}
    /\ hInitQueue = <<>> /\ hOperQueue = <<>>

Queued(t) == \E q \in {hInitQueue, hOperQueue} : \E i \in DOMAIN q : q[i] = t

\* tmr_StartTimer, also of a timer that runs already or is queued.
StartTimer(t) ==
    /\ running' = running \cup {t}
    /\ operStarted' = IF bOperState THEN operStarted \cup {t} ELSE operStarted \ {t}

\* tmr_StopTimer: "it can't be assumed that this completely prevents the timer
\* expiry event", for one that is queued stays there.
StopTimer(t) == running' = running \ {t} /\ UNCHANGED operStarted

\* One is stopped, then another started.
StopAndStart(t, u) ==
    /\ running' = (running \ {t}) \cup {u}
    /\ operStarted' = IF bOperState THEN operStarted \cup {u} ELSE operStarted \ {u}

\* tmr_GetExpiry, in the context of the OS timer.  "If state changed from
\* non-operational to operational the event is ignored"; an item that is still
\* in one of the queues is not queued again.
GetExpiry(t) ==
    /\ t \in running /\ running' = running \ {t}
    /\ hOperQueue' = IF t \in operStarted /\ ~Queued(t)
                     THEN Append(hOperQueue, t) ELSE hOperQueue
    /\ hInitQueue' = IF t \notin operStarted /\ ~bOperState /\ ~Queued(t)
                     THEN Append(hInitQueue, t) ELSE hInitQueue
    /\ UNCHANGED <<bOperState, operStarted>>

\* Whose expiry tmr_HandleExpiry serves next.
Expired(t) ==
    LET q == IF bOperState THEN hOperQueue ELSE hInitQueue
    IN  q # <<>> /\ Head(q) = t

\* tmr_HandleExpiry takes it from the queue before it calls the client.
DequeueExpiry ==
    IF bOperState
    THEN hOperQueue' = Tail(hOperQueue) /\ UNCHANGED hInitQueue
    ELSE hInitQueue' = Tail(hInitQueue) /\ UNCHANGED hOperQueue

\* tmr_UpdateDriverState(TRUE): "empty the init queue (obsolete)".
BecomeOperational == bOperState' = TRUE /\ hInitQueue' = <<>>

\* tmr_ClearOperQueue.
ClearOperQueue == hOperQueue' = <<>>

=============================================================================
