--------------------------- MODULE ServerLifecycle ----------------------------
(***************************************************************************)
(* Admission and shutdown of the server: enter() and leave() around every  *)
(* operation, and close() waiting for the count to drain.                  *)
(*                                                                         *)
(* An operation is one of three kinds.  "counted": its finally block, and  *)
(* so leave(), runs after its last write (push, fetch, commit, fork, SSH   *)
(* session).  "early": the handler returns a promise or a stream it does   *)
(* not await, so leave() runs while the work goes on (updateRefs, gc, a    *)
(* streamed pack).  "uncounted": enter() is never called (createRepo,      *)
(* deleteRepo).                                                            *)
(***************************************************************************)
EXTENDS Naturals, FiniteSets

CONSTANTS
    Counted, Early, Uncounted,  \* the operations that may be called, by kind
    Closer                      \* calls of close()

Op == Counted \cup Early \cup Uncounted

LifecycleAssumption ==
    /\ IsFiniteSet(Op)
    /\ Counted \cap Early = {} /\ Counted \cap Uncounted = {} /\ Early \cap Uncounted = {}

VARIABLES
    closed, inflight,   \* as in the code
    drain,              \* drainPromise: "none", "pending" or "resolved"
    opPc,               \* "new", "inside" (entered), "outside" (left, or never
                        \* entered, and still working), "done" or "refused"
    closerPc,           \* "new", "waiting" or "returned"
    aborted             \* a close() call was released by its AbortSignal

vars == <<closed, inflight, drain, opPc, closerPc, aborted>>

Init ==
    /\ closed = FALSE
    /\ inflight = 0
    /\ drain = "none"
    /\ opPc = [o \in Op |-> "new"]
    /\ closerPc = [c \in Closer |-> "new"]
    /\ aborted = FALSE

-------------------------------------------------------------------------------
\* (Mutant: enter() forgets to look at closed.)
Enter_unchecked(o) ==
    /\ opPc[o] = "new" /\ o \notin Uncounted
    /\ inflight' = inflight + 1
    /\ opPc' = [opPc EXCEPT ![o] = "inside"]
    /\ UNCHANGED <<closed, drain, closerPc, aborted>>

Enter(o) ==
    /\ opPc[o] = "new" /\ o \notin Uncounted
    /\ ~closed
    /\ inflight' = inflight + 1
    /\ opPc' = [opPc EXCEPT ![o] = "inside"]
    /\ UNCHANGED <<closed, drain, closerPc, aborted>>

\* (Mutant: the refusal is inside the try block, so that finally leaves, too.)
Refuse_leaves(o) ==
    /\ opPc[o] = "new" /\ o \notin Uncounted
    /\ closed
    /\ inflight' = inflight - 1
    /\ opPc' = [opPc EXCEPT ![o] = "refused"]
    /\ UNCHANGED <<closed, drain, closerPc, aborted>>

\* 503, exit 128 or "Server is shutting down".
Refuse(o) ==
    /\ opPc[o] = "new" /\ o \notin Uncounted
    /\ closed
    /\ opPc' = [opPc EXCEPT ![o] = "refused"]
    /\ UNCHANGED <<closed, inflight, drain, closerPc, aborted>>

\* createRepo and deleteRepo go straight to the storage.
Begin(o) ==
    /\ opPc[o] = "new" /\ o \in Uncounted
    /\ opPc' = [opPc EXCEPT ![o] = "outside"]
    /\ UNCHANGED <<closed, inflight, drain, closerPc, aborted>>

\* (Mutant: the count is looked at before it is decremented.)
Leave_late(o) ==
    /\ opPc[o] = "inside"
    /\ inflight' = inflight - 1
    /\ drain' = IF closed /\ inflight = 0 /\ drain = "pending" THEN "resolved" ELSE drain
    /\ opPc' = [opPc EXCEPT ![o] = IF o \in Early THEN "outside" ELSE "done"]
    /\ UNCHANGED <<closed, closerPc, aborted>>

\* leave() in the finally block; the last one out releases close().
Leave(o) ==
    /\ opPc[o] = "inside"
    /\ inflight' = inflight - 1
    /\ drain' = IF closed /\ inflight' = 0 /\ drain = "pending" THEN "resolved" ELSE drain
    /\ opPc' = [opPc EXCEPT ![o] = IF o \in Early THEN "outside" ELSE "done"]
    /\ UNCHANGED <<closed, closerPc, aborted>>

\* The promise or stream the handler did not wait for runs to its end.
Finish(o) ==
    /\ opPc[o] = "outside"
    /\ opPc' = [opPc EXCEPT ![o] = "done"]
    /\ UNCHANGED <<closed, inflight, drain, closerPc, aborted>>

-------------------------------------------------------------------------------
\* The first close(): refuse from now on, wait if need be.
CloseFirst(c) ==
    /\ closerPc[c] = "new" /\ ~closed
    /\ closed' = TRUE
    /\ drain' = IF inflight = 0 THEN "none" ELSE "pending"
    /\ closerPc' = [closerPc EXCEPT ![c] = IF inflight = 0 THEN "returned" ELSE "waiting"]
    /\ UNCHANGED <<inflight, opPc, aborted>>

\* (Mutant: a later close() finds the server closed and returns at once.)
CloseAgain_atOnce(c) ==
    /\ closerPc[c] = "new" /\ closed
    /\ closerPc' = [closerPc EXCEPT ![c] = "returned"]
    /\ UNCHANGED <<closed, inflight, drain, opPc, aborted>>

\* A later close() returns the same drain promise, if there is one.
CloseAgain(c) ==
    /\ closerPc[c] = "new" /\ closed
    /\ closerPc' = [closerPc EXCEPT ![c] = IF drain = "none" THEN "returned" ELSE "waiting"]
    /\ UNCHANGED <<closed, inflight, drain, opPc, aborted>>

\* The signal given to close() fires: the promise resolves, work or no work.
Abort ==
    /\ drain = "pending"
    /\ drain' = "resolved"
    /\ aborted' = TRUE
    /\ UNCHANGED <<closed, inflight, opPc, closerPc>>

CloseReturns(c) ==
    /\ closerPc[c] = "waiting" /\ drain = "resolved"
    /\ closerPc' = [closerPc EXCEPT ![c] = "returned"]
    /\ UNCHANGED <<closed, inflight, drain, opPc, aborted>>

-------------------------------------------------------------------------------
Next ==
    \/ \E o \in Op : Enter(o) \/ Refuse(o) \/ Begin(o) \/ Leave(o) \/ Finish(o)
    \/ \E c \in Closer : CloseFirst(c) \/ CloseAgain(c) \/ CloseReturns(c)
    \/ Abort

Spec == Init /\ [][Next]_vars

\* What has started goes on to its end, and a resolved promise wakes its
\* waiters; nobody has to call anything, and no signal has to fire.
Fairness ==
    /\ \A o \in Op : WF_vars(Leave(o)) /\ WF_vars(Finish(o))
    /\ \A c \in Closer : WF_vars(CloseReturns(c))
FairSpec == Spec /\ Fairness

-------------------------------------------------------------------------------
Inside == {o \in Op : opPc[o] = "inside"}

TypeOK ==
    /\ closed \in BOOLEAN /\ aborted \in BOOLEAN
    /\ drain \in {"none", "pending", "resolved"}
    /\ opPc \in [Op -> {"new", "inside", "outside", "done", "refused"}]
    /\ closerPc \in [Closer -> {"new", "waiting", "returned"}]
    /\ inflight \in Nat

\* The counter is the number of operations between enter() and leave(), and,
\* unless its signal fired, close() returns only when no counted operation is
\* still at work: no wake-up comes early, whichever call of close() waits.
DrainWaitsForCounted ==
    /\ inflight = Cardinality(Inside)
    /\ \A c \in Closer :
         closerPc[c] = "returned" /\ ~aborted =>
             \A o \in Counted : opPc[o] # "inside"

\* Once closed the set of operations inside only shrinks: with nothing admitted
\* the drain cannot be undone after close() has returned.
NothingEntersAfterClose == closed => Inside' \subseteq Inside

\* No wake-up is lost: whoever waits for the drain gets an answer, whether the
\* last operation leaves before, between or after the calls of close().
Waiting(c) == closerPc[c] = "waiting"
Returned(c) == closerPc[c] = "returned"
CloseTerminates == \A c \in Closer : Waiting(c) ~> Returned(c)
===============================================================================
