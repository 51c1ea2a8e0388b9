------------------------------ MODULE EventLoop ------------------------------
(***************************************************************************)
(* The event loop, fdm.c, and main()'s loop around fdm_poll().             *)
(*                                                                         *)
(* epoll_pwait() reports a batch of events, each with the address of a     *)
(* struct fd_handler.  Their callbacks are called one after the other, and *)
(* each may register and delete handlers, close descriptors and open       *)
(* others, which then get the numbers of the closed ones.  So a handler    *)
(* that is deleted during a batch is only marked, and freed at its end.    *)
(* Hooks run before the wait, and signals are handled after it, outside of *)
(* a batch, where a deleted handler is freed at once.                      *)
(*                                                                         *)
(* What the callbacks do to the loop is any sequence of fdm_add() and      *)
(* fdm_del().  malloc() and open() may return what was just freed.         *)
(***************************************************************************)
EXTENDS Integers, FiniteSets

CONSTANTS
    Handlers,       \* addresses malloc() may return for a struct fd_handler
    Fds,            \* descriptor numbers
    Signals,        \* signals with a handler
    MaxFiles,       \* bound: files opened
    MaxCalls        \* bound: fdm_add() and fdm_del() calls of one callback

ASSUME EventLoopAssumption ==
    /\ Fds \subseteq Nat
    /\ Signals \subseteq Nat
    /\ MaxFiles \in Nat /\ MaxCalls \in Nat

VARIABLES
    pc,             \* "hooks", "wait", "signals", "dispatch" or "ended"
    calls,          \* calls the running callback may still make
    allocated,      \* handlers that are allocated
    fdOf,           \* handler->fd
    deleted,        \* handlers whose "deleted" is set
    fds,            \* fdm->fds
    deferred,       \* fdm->deferred_delete
    is_polling,
    batch,          \* events reported and not yet looked at
    current,        \* the event whose callback runs, as a set
    received,       \* received_signals
    file,           \* the file a number stands for, 0 if it is closed
    opened,         \* files opened so far
    ready           \* files that are ready

kernelVars == <<file, opened, ready>>
loopVars == <<pc, calls, allocated, fdOf, deleted, fds, deferred, is_polling,
              batch, current, received, kernelVars>>

\* An event is the handler and the file that was ready.
Events == [handler : Handlers, file : 1 .. MaxFiles]

LoopInit ==
    /\ pc = "hooks"
    /\ calls = MaxCalls
    /\ allocated = {} /\ deleted = {} /\ fds = {} /\ deferred = {}
    /\ fdOf \in [Handlers -> {0}]
    /\ is_polling = FALSE
    /\ batch = {} /\ current = {}
    /\ received = {}
    /\ file = [n \in Fds |-> 0]
    /\ opened = 0
    /\ ready = {}

-----------------------------------------------------------------------------
(* What a hook, a signal handler or a callback may do *)

InCallback ==
    /\ calls > 0
    /\ pc = "hooks" \/ (pc = "signals" /\ received # {})
         \/ (pc = "dispatch" /\ current # {})

\* open() takes the lowest number that is free.
Lowest(S) == CHOOSE n \in S : \A m \in S : n <= m
Free == {n \in Fds : file[n] = 0}

\* fdm_add() of a file just opened.  The new handler is at any free address.
FdmAdd(h) ==
    /\ InCallback
    /\ h \notin allocated
    /\ Free # {} /\ opened < MaxFiles
    /\ allocated' = allocated \cup {h}
    /\ deleted' = deleted \ {h}
    /\ fdOf' = [fdOf EXCEPT ![h] = Lowest(Free)]
    /\ fds' = fds \cup {h}
    /\ file' = [file EXCEPT ![Lowest(Free)] = opened + 1]
    /\ opened' = opened + 1
    /\ calls' = calls - 1
    /\ UNCHANGED <<pc, deferred, is_polling, batch, current, received, ready>>

\* fdm_add() fails: epoll_ctl() refuses the file (a regular one, say).  The
\* caller closes it; nothing remains.
FdmAddFails ==
    /\ InCallback
    /\ Free # {} /\ opened < MaxFiles
    /\ opened' = opened + 1
    /\ calls' = calls - 1
    /\ UNCHANGED <<pc, allocated, fdOf, deleted, fds, deferred, is_polling,
                   batch, current, received, file, ready>>

\* What becomes of the memory of a handler that is deleted.  Faulty variant:
\* it is freed although events of the batch may point to it.
FreedAtOnce(h) == allocated' = allocated \ {h} /\ UNCHANGED deferred
Released(h) ==
    IF is_polling
    THEN deferred' = deferred \cup {h} /\ UNCHANGED allocated
    ELSE allocated' = allocated \ {h} /\ UNCHANGED deferred

\* fdm_del(): the number is unregistered and closed.
FdmDel(h) ==
    /\ InCallback
    /\ h \in fds
    /\ fds' = fds \ {h}
    /\ deleted' = deleted \cup {h}
    /\ Released(h)
    /\ file' = [file EXCEPT ![fdOf[h]] = 0]
    /\ ready' = ready \ {file[fdOf[h]]}
    /\ calls' = calls - 1
    /\ UNCHANGED <<pc, fdOf, is_polling, batch, current, received, opened>>

-----------------------------------------------------------------------------
(* fdm_poll() *)

\* The hooks are done: epoll_pwait() is called.
HooksDone ==
    /\ pc = "hooks"
    /\ pc' = "wait"
    /\ UNCHANGED <<calls, allocated, fdOf, deleted, fds, deferred, is_polling,
                   batch, current, received, kernelVars>>

\* epoll_pwait() returns every registered file that is ready (there is room for
\* as many as there are handlers), or EINTR after the handlers of signals ran,
\* which are blocked otherwise: never both.  Faulty variant: there is room for
\* one event.
ReportsOne(all, S) == \E e \in all : S = {e}
Reports(all, S) == S = all

WaitEvents ==
    /\ pc = "wait"
    /\ LET all == {e \in Events : e.handler \in fds /\ e.file \in ready
                                    /\ file[fdOf[e.handler]] = e.file}
       IN  all # {} /\ \E S \in SUBSET all : Reports(all, S) /\ batch' = S
    /\ pc' = "dispatch"
    /\ is_polling' = TRUE
    /\ UNCHANGED <<calls, allocated, fdOf, deleted, fds, deferred, current,
                   received, kernelVars>>

WaitSignals ==
    /\ pc = "wait"
    /\ received' \in (SUBSET Signals) \ {{}}
    /\ pc' = "signals"
    /\ calls' = MaxCalls
    /\ UNCHANGED <<allocated, fdOf, deleted, fds, deferred, is_polling, batch,
                   current, kernelVars>>

\* The handler of the lowest signal returns; if it fails, so does fdm_poll().
SignalHandled(ok) ==
    /\ pc = "signals"
    /\ received' = received \ {Lowest(received)}
    /\ calls' = MaxCalls
    /\ pc' = IF ~ok THEN "ended" ELSE IF received' = {} THEN "hooks" ELSE pc
    /\ UNCHANGED <<allocated, fdOf, deleted, fds, deferred, is_polling, batch,
                   current, kernelVars>>

\* The next event of the batch; they come in any order.  The event of a handler
\* that was deleted is skipped.  Faulty variant: it is not.
SkippedNever(h) == FALSE
Skipped(h) == h \in deleted

Dispatch(e) ==
    /\ pc = "dispatch"
    /\ current = {}
    /\ e \in batch
    /\ batch' = batch \ {e}
    /\ current' = IF Skipped(e.handler) THEN {} ELSE {e}
    /\ calls' = MaxCalls
    /\ UNCHANGED <<pc, allocated, fdOf, deleted, fds, deferred, is_polling,
                   received, kernelVars>>

\* A callback returns, having dealt with what made its file ready.  If it fails,
\* the rest of the batch is left.
Returned(ok) ==
    /\ pc = "dispatch"
    /\ current # {}
    /\ current' = {}
    /\ ready' = ready \ {e.file : e \in current}
    /\ batch' = IF ok THEN batch ELSE {}
    /\ pc' = IF ok THEN pc ELSE "failed"
    /\ UNCHANGED <<calls, allocated, fdOf, deleted, fds, deferred, is_polling,
                   received, file, opened>>

\* The batch is done: what was deleted meanwhile is freed.  Faulty variant: not
\* if a callback failed.
NothingFreed(failed) == IF failed THEN allocated ELSE allocated \ deferred
AfterBatch(failed) == allocated \ deferred

BatchDone ==
    /\ pc \in {"dispatch", "failed"}
    /\ batch = {} /\ current = {}
    /\ is_polling' = FALSE
    /\ allocated' = AfterBatch(pc = "failed")
    /\ deferred' = {}
    /\ calls' = MaxCalls
    /\ pc' = IF pc = "failed" THEN "ended" ELSE "hooks"
    /\ UNCHANGED <<fdOf, deleted, fds, batch, current, received, kernelVars>>

\* main() leaves its loop when it was told to, or the last terminal is gone.
Leave ==
    /\ pc = "hooks" /\ calls = MaxCalls
    /\ pc' = "ended"
    /\ UNCHANGED <<calls, allocated, fdOf, deleted, fds, deferred, is_polling,
                   batch, current, received, kernelVars>>

\* A file becomes ready.
BecomesReady(n) ==
    /\ pc # "ended"
    /\ file[n] # 0
    /\ ready' = ready \cup {file[n]}
    /\ UNCHANGED <<pc, calls, allocated, fdOf, deleted, fds, deferred,
                   is_polling, batch, current, received, file, opened>>

Poll == HooksDone \/ WaitEvents \/ BatchDone
            \/ (\E e \in Events : Dispatch(e))
            \/ (\E ok \in BOOLEAN : SignalHandled(ok) \/ Returned(ok))

Calls == FdmAddFails \/ \E h \in Handlers : FdmAdd(h) \/ FdmDel(h)

LoopNext ==
    \/ Poll
    \/ WaitSignals
    \/ Calls
    \/ Leave
    \/ \E n \in Fds : BecomesReady(n)

LoopSpec == LoopInit /\ [][LoopNext]_loopVars

\* Hooks and callbacks return, and epoll_pwait() does when something is ready;
\* it is not interrupted by signals every time.
LoopFairness == WF_loopVars(Poll) /\ SF_loopVars(WaitEvents)

LoopFairSpec == LoopSpec /\ LoopFairness

-----------------------------------------------------------------------------
(* Properties *)

\* fdm_poll() reads the handlers of a batch's events, so they are allocated as
\* long as the batch lasts, whatever earlier callbacks deleted.
BatchAlive == \A e \in batch \cup current : e.handler \in allocated

\* A callback is called for a registered handler, and because of its own file:
\* never for an event of a file that an earlier callback of the batch closed,
\* though its number and its handler's address may be in use again.
RightFile ==
    [][\A e \in Events : e \in current' /\ e \notin current =>
            e.handler \in fds /\ file[fdOf[e.handler]] = e.file]_loopVars

\* Between two polls, handlers are allocated if and only if they are registered.
NoHandlerLeaks == ~is_polling => allocated = fds /\ deferred = {}

\* The handlers of a batch, and those between two batches.
HandlersKept == BatchAlive /\ NoHandlerLeaks

\* A file that is ready has its callback called, unless it is unregistered or
\* the loop ends, however many others are ready.
Served ==
    \A f \in 1 .. MaxFiles : f \in ready ~> (f \notin ready \/ pc = "ended")

==============================================================================
