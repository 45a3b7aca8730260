--------------------------- MODULE PoolPipelines ----------------------------
(***************************************************************************)
(* A runspace pool with its pipelines: CreatePipeline, AdoptPipeline, the   *)
(* monitor goroutines, the routing of the dispatch loop and what cleanup    *)
(* does to every pipeline of p.pipelines.                                   *)
(*                                                                         *)
(* The pool is RunspacePool; each of its steps is a step here, and the step *)
(* that runs cleanup also visits the pipelines, under the same hold of      *)
(* p.mu.  A pipeline is reduced to what the pool can do to it: its end (by  *)
(* the module Pipeline's transition), its context and its map entry.        *)
(***************************************************************************)
EXTENDS RunspacePool

CONSTANT Pipelines

VARIABLES
    create,     \* how far CreatePipeline (or AdoptPipeline) has come
    plState,    \* a pipeline's state, reduced: "live" until it ends
    plErr,      \* the error it ended with
    plCtx,      \* its context is cancelled
    inMap,      \* p.pipelines has it
    monitor,    \* its monitor goroutine
    wait        \* a goroutine in Wait

plVars == <<plState, plErr, plCtx>>
own == <<create, plState, plErr, plCtx, inMap, monitor, wait>>
allVars == <<vars, own>>

InitPP ==
    /\ Init
    /\ create = [p \in Pipelines |-> "none"]
    /\ plState = [p \in Pipelines |-> "live"]
    /\ plErr = [p \in Pipelines |-> "nil"]
    /\ plCtx = [p \in Pipelines |-> FALSE]
    /\ inMap = [p \in Pipelines |-> FALSE]
    /\ monitor = [p \in Pipelines |-> "none"]
    /\ wait = [p \in Pipelines |-> "none"]

Exists(p) == create[p] \in {"stored", "created", "adopted"}
plDone(p) == plState[p] # "live"

\* Pipeline.transition of every pipeline of ps to an end state: the first end
\* is kept, closes the channels and cancels the context.
endPipelines(ps, end, e) ==
    LET live == {p \in ps : ~plDone(p)} IN
    /\ plState' = [p \in Pipelines |-> IF p \in live THEN end ELSE plState[p]]
    /\ plErr' = [p \in Pipelines |-> IF p \in live THEN e ELSE plErr[p]]
    /\ plCtx' = [p \in Pipelines |-> plCtx[p] \/ p \in live]

cancelPipelines(ps) ==
    /\ plCtx' = [p \in Pipelines |-> plCtx[p] \/ p \in ps]
    /\ UNCHANGED <<plState, plErr>>

-----------------------------------------------------------------------------
(* The pool's steps.                                                        *)

Tracked == {p \in Pipelines : inMap[p]}

\* Mutant of cleanupPipelines: Fail and Cancel are swapped.
cleanupPipelinesSwapped ==
    IF cleanupError' = "nil" THEN endPipelines(Tracked, "failed", "pool")
                             ELSE cancelPipelines(Tracked)

\* cleanup's Range: Fail after an error, Cancel after a clean close.
cleanupPipelines ==
    IF cleanupError' # "nil" THEN endPipelines(Tracked, "failed", "pool")
                             ELSE cancelPipelines(Tracked)

PoolStep ==
    /\ Next
    /\ IF done' /\ ~done THEN cleanupPipelines ELSE UNCHANGED plVars
    /\ UNCHANGED <<create, inMap, monitor, wait>>

-----------------------------------------------------------------------------
(* CreatePipeline and CreatePipelineBuilder.                                *)

\* The state is tested under the lock, which is then released ...
CreatePipeline(p) ==
    /\ create[p] = "none" /\ state = "Opened"
    /\ create' = [create EXCEPT ![p] = "tested"]
    /\ UNCHANGED <<vars, plVars, inMap, monitor, wait>>

\* ... the pipeline is stored whatever the pool has become meanwhile ...
CreateStore(p) ==
    /\ create[p] = "tested"
    /\ create' = [create EXCEPT ![p] = "stored"]
    /\ inMap' = [inMap EXCEPT ![p] = TRUE]
    /\ UNCHANGED <<vars, plVars, monitor, wait>>

\* ... SendCommand may fail ...
CreateFail(p) ==
    /\ create[p] = "stored"
    /\ create' = [create EXCEPT ![p] = "refused"]
    /\ inMap' = [inMap EXCEPT ![p] = FALSE]
    /\ UNCHANGED <<vars, plVars, monitor, wait>>

\* ... and the monitor is started.
CreateMonitor(p) ==
    /\ create[p] = "stored"
    /\ create' = [create EXCEPT ![p] = "created"]
    /\ monitor' = [monitor EXCEPT ![p] = "select"]
    /\ UNCHANGED <<vars, plVars, inMap, wait>>

\* AdoptPipeline stores under p.mu, and starts no monitor.  In another state, or
\* with an id that p.pipelines has already, it returns an error and changes
\* nothing.
AdoptPipeline(p) ==
    /\ create[p] = "none" /\ ~inMap[p]
    /\ state \in {"Opened", "Connecting"}
    /\ create' = [create EXCEPT ![p] = "adopted"]
    /\ inMap' = [inMap EXCEPT ![p] = TRUE]
    /\ UNCHANGED <<vars, plVars, monitor, wait>>

\* Mutant of MonitorWake: the pool is not listened to.
MonitorWakeDeaf(p) ==
    /\ monitor[p] = "select" /\ plDone(p)
    /\ monitor' = [monitor EXCEPT ![p] = "delete"]
    /\ UNCHANGED <<vars, plVars, create, inMap, wait>>

\* The monitor's select: the pipeline is done, or the pool is.
MonitorWake(p) ==
    /\ monitor[p] = "select"
    /\ \/ plDone(p) /\ UNCHANGED plVars
       \/ (done \/ ctxDone) /\ cancelPipelines({p})
    /\ monitor' = [monitor EXCEPT ![p] = "delete"]
    /\ UNCHANGED <<vars, create, inMap, wait>>

\* Mutant of MonitorDelete: the entry stays.
MonitorKeeps(p) ==
    /\ monitor[p] = "delete"
    /\ monitor' = [monitor EXCEPT ![p] = "gone"]
    /\ UNCHANGED <<vars, create, plVars, inMap, wait>>

MonitorDelete(p) ==
    /\ monitor[p] = "delete"
    /\ monitor' = [monitor EXCEPT ![p] = "gone"]
    /\ inMap' = [inMap EXCEPT ![p] = FALSE]
    /\ UNCHANGED <<vars, create, plVars, wait>>

-----------------------------------------------------------------------------
(* What happens to one pipeline.                                            *)

\* The dispatch loop routes the state that ends the pipeline; a message for a
\* pipeline that is not in the map is dropped (LoopOther).
RouteEnd(l, p) ==
    /\ inMap[p] /\ LoopOther(l)
    /\ \/ endPipelines({p}, "completed", "nil")
       \/ endPipelines({p}, "failed", "server")
    /\ UNCHANGED <<create, inMap, monitor, wait>>

\* HandleMessage fails (buffer timeout, cancelled context), Invoke's send
\* fails, or a host call of the pipeline does.
PipelineFail(p) ==
    /\ Exists(p) /\ ~plDone(p)
    /\ endPipelines({p}, "failed", "local")
    /\ UNCHANGED <<vars, create, inMap, monitor, wait>>

Wait(p) ==
    /\ create[p] \in {"created", "adopted"} /\ wait[p] = "none"
    /\ wait' = [wait EXCEPT ![p] = "waiting"]
    /\ UNCHANGED <<vars, create, plVars, inMap, monitor>>

WaitReturn(p) ==
    /\ wait[p] = "waiting" /\ plDone(p)
    /\ wait' = [wait EXCEPT ![p] = plErr[p]]
    /\ UNCHANGED <<vars, create, plVars, inMap, monitor>>

PipelineStep(p) ==
    \/ CreatePipeline(p) \/ CreateStore(p) \/ CreateFail(p) \/ CreateMonitor(p)
    \/ AdoptPipeline(p) \/ MonitorWake(p) \/ MonitorDelete(p)
    \/ PipelineFail(p) \/ Wait(p) \/ WaitReturn(p)

NextPP ==
    \/ PoolStep
    \/ \E p \in Pipelines : PipelineStep(p) \/ \E l \in Loops : RouteEnd(l, p)

SpecPP == InitPP /\ [][NextPP]_allVars

\* The monitors run, a woken Wait returns, CreatePipeline gets on.
FairnessPP ==
    \A p \in Pipelines :
        /\ WF_allVars(MonitorWake(p)) /\ WF_allVars(MonitorDelete(p))
        /\ WF_allVars(WaitReturn(p))
        /\ WF_allVars(CreateStore(p)) /\ WF_allVars(CreateMonitor(p))

FairSpecPP == SpecPP /\ FairnessPP

-----------------------------------------------------------------------------
\* Every variable has its type; the pool's part is RunspacePool's.
TypeOKPP ==
    /\ TypeOK
    /\ create \in [Pipelines -> {"none", "tested", "stored", "refused",
                                 "created", "adopted"}]
    /\ plState \in [Pipelines -> {"live", "completed", "failed"}]
    /\ plErr \in [Pipelines -> {"nil", "pool", "server", "local"}]
    /\ plCtx \in [Pipelines -> BOOLEAN] /\ inMap \in [Pipelines -> BOOLEAN]
    /\ monitor \in [Pipelines -> {"none", "select", "delete", "gone"}]
    /\ wait \in [Pipelines -> {"none", "waiting", "nil", "pool", "server", "local"}]

\* p.pipelines and the monitors agree.  A map entry has somebody who will
\* remove it: CreatePipeline itself or a monitor that has not run yet; only an
\* adopted pipeline has nobody.  And a pipeline leaves the map ended or
\* cancelled, never running on unheard of: once its monitor has gone the
\* server's messages for it are dropped.
EntriesFollowPipelines ==
    \A p \in Pipelines :
        /\ inMap[p] => \/ create[p] \in {"stored", "adopted"}
                       \/ monitor[p] \in {"select", "delete"}
        /\ monitor[p] \in {"delete", "gone"} => plDone(p) \/ plCtx[p]

\* Wait blames the pool only for a pool that broke, and a pool that broke
\* left no adopted pipeline running: AdoptPipeline stores under p.mu.  (Once
\* Opened was written over the end the pool goes on adopting, and what it
\* adopts then is told of no end: see the README's disagreements.)
PoolErrorIsShared ==
    /\ \A p \in Pipelines : wait[p] = "pool" => done /\ cleanupError # "nil"
    /\ done /\ cleanupError # "nil" /\ ~overwritten =>
           \A p \in Pipelines : create[p] = "adopted" => plDone(p)

\* The end of the pool reaches every pipeline, also one that was stored after
\* cleanup had visited the map.
PoolEndReachesAll ==
    \A p \in Pipelines :
        (done /\ create[p] = "created") ~> (plDone(p) \/ plCtx[p])

\* "Cleanup Guarantee": when the pool breaks, every Wait returns.  The code does
\* not keep this: see the README's disagreements.
BrokenEndsWaits ==
    \A p \in Pipelines :
        (done /\ cleanupError # "nil" /\ wait[p] = "waiting") ~> (wait[p] # "waiting")

=============================================================================
