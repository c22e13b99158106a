---------------------------- MODULE MergedContext ----------------------------
(***************************************************************************)
(* The context a request is served with (utility/context.go): it is done   *)
(* when the request's context (mainCtx) or the context of the routing      *)
(* (ctx) is.  A goroutine waits for them, sets err under the mutex, and    *)
(* then closes the done channel.                                           *)
(***************************************************************************)
EXTENDS Naturals

VARIABLES
    mainCtx, ctx, \* "live" or "done"
    merged        \* the goroutine: "none", "select", the parent it saw, "close", "ended"; err; done

mergedVars == <<mainCtx, ctx, merged>>

MergedInit ==
    /\ mainCtx = "live"
    /\ ctx = "live"
    /\ merged = [run |-> "none", err |-> "nil", done |-> FALSE]

\* A parent is done: the client has gone or the request is over; a timeout.
CancelMain == mainCtx = "live" /\ mainCtx' = "done" /\ UNCHANGED <<ctx, merged>>
CancelCtx == ctx = "live" /\ ctx' = "done" /\ UNCHANGED <<mainCtx, merged>>

\* MergeContext starts the goroutine.
MergeContext == merged' = [run |-> "select", err |-> "nil", done |-> FALSE]

\* A wrong Select for MergedEnds: the goroutine only waits for the request.
SelectMain ==
    /\ merged.run = "select"
    /\ mainCtx = "done"
    /\ merged' = [merged EXCEPT !.run = "main"]
    /\ UNCHANGED <<mainCtx, ctx>>

\* select: any of the parents that are done.
Select ==
    /\ merged.run = "select"
    /\ \/ mainCtx = "done" /\ merged' = [merged EXCEPT !.run = "main"]
       \/ ctx = "done" /\ merged' = [merged EXCEPT !.run = "ctx"]
    /\ UNCHANGED <<mainCtx, ctx>>

\* err is that of the parent.
SetErr ==
    /\ merged.run \in {"main", "ctx"}
    /\ merged' = [merged EXCEPT !.err = merged.run, !.run = "close"]
    /\ UNCHANGED <<mainCtx, ctx>>

Close ==
    /\ merged.run = "close"
    /\ merged' = [merged EXCEPT !.done = TRUE, !.run = "ended"]
    /\ UNCHANGED <<mainCtx, ctx>>

Run == Select \/ SetErr \/ Close

\* A context of its own, as Server has one for every request.
MergedNext ==
    \/ merged.run = "none" /\ MergeContext /\ UNCHANGED <<mainCtx, ctx>>
    \/ CancelMain \/ CancelCtx \/ Run

-----------------------------------------------------------------------------
\* The merged context ends when a parent does, with its error: whoever sees the
\* channel closed finds the error of a parent that is done, because err is set first,
\* and the goroutine of MergeContext ends, so that none is left behind by a request
\* that is over and a handler that waits for the context goes on after a timeout.
MergedEnds ==
    /\ [](merged.done => (merged.err = "main" /\ mainCtx = "done") \/ (merged.err = "ctx" /\ ctx = "done"))
    /\ (merged.run = "select" /\ (mainCtx = "done" \/ ctx = "done")) ~> merged.run = "ended"
=============================================================================
