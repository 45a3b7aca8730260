----------------------------- MODULE Availability -----------------------------
(***************************************************************************)
(* Waiting for idle runspaces, from runspace/runspace.go: the method        *)
(* WaitForAvailability, the RUNSPACE_AVAILABILITY branch of the dispatch    *)
(* loop and InitializeAvailabilityIfNeeded.                                 *)
(*                                                                         *)
(* The count is guarded by availabilityMu and announced on availabilityCh,  *)
(* an unbuffered channel: a non-blocking send reaches one waiter that is in *)
(* its select at that moment, or nobody.  The pool is reduced to whether it *)
(* is Opened.  The names leave those of RunspacePool free, so that one      *)
(* module can extend both.                                                  *)
(***************************************************************************)
EXTENDS Naturals, FiniteSets

CONSTANTS
    Waiters,        \* goroutines that call WaitForAvailability
    MinRunspaces,   \* what a waiter asks for
    MaxRunspaces,   \* p.maxRunspaces
    Counts          \* counts the server may report

ASSUME AvailabilityAssumption ==
    /\ MinRunspaces \in [Waiters -> Nat]
    /\ MaxRunspaces \in Nat \ {0}
    /\ Counts \subseteq Nat

VARIABLES
    stillOpened, \* the pool is Opened
    available,  \* p.availableRunspaces
    heard,      \* p.receivedAvailabilityMsg
    channel,    \* p.availabilityCh has been made
    announcer,  \* the dispatch loop: "idle", or the count it is announcing
    waiter,     \* what a waiter is doing
    best        \* history: the largest count since the waiter's call began

waitVars == <<stillOpened, available, heard, channel, announcer, waiter, best>>

Idle == [at |-> "idle"]
Announcing(n) == [at |-> "announce", count |-> n]

WaitInit ==
    /\ stillOpened = TRUE
    /\ available = 0 /\ heard = FALSE /\ channel = FALSE
    /\ announcer = Idle
    /\ waiter = [w \in Waiters |-> "idle"]
    /\ best = [w \in Waiters |-> 0]

larger(m, n) == IF m > n THEN m ELSE n

\* The history of every call sees the new count.
record(n) == best' = [w \in Waiters |-> larger(best[w], n)]

-----------------------------------------------------------------------------
(* The dispatch loop.                                                       *)

\* RUNSPACE_AVAILABILITY: the count under availabilityMu ...
Report(n) ==
    /\ announcer = Idle
    /\ heard' = TRUE /\ available' = n /\ record(n)
    /\ announcer' = Announcing(n)
    /\ UNCHANGED <<stillOpened, channel, waiter>>

\* Mutant of Announce: the announcement is taken for a sufficient one.
AnnounceBlindly(w) ==
    /\ announcer.at = "announce" /\ channel /\ waiter[w] = "select"
    /\ waiter' = [waiter EXCEPT ![w] = "nil"]
    /\ announcer' = Idle
    /\ UNCHANGED <<stillOpened, available, heard, channel, best>>

\* ... then the announcement, to a waiter in its select ...
Announce(w) ==
    /\ announcer.at = "announce" /\ channel /\ waiter[w] = "select"
    /\ waiter' = [waiter EXCEPT ![w] = IF announcer.count >= MinRunspaces[w]
                                       THEN "nil" ELSE "select"]
    /\ announcer' = Idle
    /\ UNCHANGED <<stillOpened, available, heard, channel, best>>

\* ... or to nobody: a waiter at "select" may be on its way into the select, or
\* back from a poll, and miss it.
AnnounceDropped ==
    /\ announcer.at = "announce"
    /\ announcer' = Idle
    /\ UNCHANGED <<stillOpened, available, heard, channel, waiter, best>>

-----------------------------------------------------------------------------
\* A server that has reported nothing: all runspaces are taken to be idle
\* (also the end of Connect).
InitializeAvailabilityIfNeeded ==
    /\ ~heard
    /\ available' = MaxRunspaces /\ record(MaxRunspaces)
    /\ UNCHANGED <<stillOpened, heard, channel, announcer, waiter>>

\* The pool closes, breaks or is disconnected.
PoolEnds ==
    /\ stillOpened /\ stillOpened' = FALSE
    /\ UNCHANGED <<available, heard, channel, announcer, waiter, best>>

-----------------------------------------------------------------------------
(* WaitForAvailability.                                                     *)

\* The count is read first; the state, later, decides first.
WaitForAvailability(w) ==
    /\ waiter[w] \in {"idle", "nil", "error"}
    /\ waiter' = [waiter EXCEPT ![w] = IF available >= MinRunspaces[w]
                                       THEN "enough" ELSE "short"]
    /\ best' = [best EXCEPT ![w] = available]
    /\ UNCHANGED <<stillOpened, available, heard, channel, announcer>>

WaitTestState(w) ==
    /\ waiter[w] \in {"enough", "short"}
    /\ waiter' = [waiter EXCEPT ![w] = IF ~stillOpened THEN "error"
                                       ELSE IF @ = "enough" THEN "nil" ELSE "slow"]
    /\ UNCHANGED <<stillOpened, available, heard, channel, announcer, best>>

\* The second test, and the channel, under availabilityMu.
WaitSlow(w) ==
    /\ waiter[w] = "slow"
    /\ IF available >= MinRunspaces[w]
       THEN waiter' = [waiter EXCEPT ![w] = "nil"] /\ UNCHANGED channel
       ELSE waiter' = [waiter EXCEPT ![w] = "select"] /\ channel' = TRUE
    /\ UNCHANGED <<stillOpened, available, heard, announcer, best>>

\* Mutant of WaitPoll: there is no poll.
WaitPollNever(w) == FALSE /\ UNCHANGED waitVars

\* The timer of 10 ms; the select has no case for the end of the pool.
WaitPoll(w) ==
    /\ waiter[w] = "select" /\ available >= MinRunspaces[w]
    /\ waiter' = [waiter EXCEPT ![w] = "nil"]
    /\ UNCHANGED <<stillOpened, available, heard, channel, announcer, best>>

WaitCancelled(w) ==
    /\ waiter[w] = "select"
    /\ waiter' = [waiter EXCEPT ![w] = "error"]
    /\ UNCHANGED <<stillOpened, available, heard, channel, announcer, best>>

WaitNext ==
    \/ \E n \in Counts : Report(n)
    \/ AnnounceDropped
    \/ InitializeAvailabilityIfNeeded \/ PoolEnds
    \/ \E w \in Waiters :
          \/ Announce(w)
          \/ WaitForAvailability(w) \/ WaitTestState(w) \/ WaitSlow(w)
          \/ WaitPoll(w) \/ WaitCancelled(w)

WaitSpec == WaitInit /\ [][WaitNext]_waitVars

\* The timer of 10 ms fires and goroutines that can run do; the context of
\* the caller need not end.
WaitFairSpec ==
    /\ WaitSpec
    /\ WF_waitVars(AnnounceDropped \/ \E w \in Waiters : Announce(w))
    /\ \A w \in Waiters :
        /\ WF_waitVars(WaitTestState(w)) /\ WF_waitVars(WaitSlow(w)) /\ WF_waitVars(WaitPoll(w))

-----------------------------------------------------------------------------
\* Every variable has its type.
WaitTypeOK ==
    /\ stillOpened \in BOOLEAN /\ heard \in BOOLEAN /\ channel \in BOOLEAN
    /\ available \in Counts \cup {0, MaxRunspaces}
    /\ announcer \in {Idle} \cup {Announcing(n) : n \in Counts}
    /\ waiter \in [Waiters -> {"idle", "enough", "short", "slow", "select", "nil", "error"}]
    /\ best \in [Waiters -> Counts \cup {0, MaxRunspaces}]

\* A waiter that returns nil did see enough runspaces: some count between its
\* call and its return sufficed, however late the announcement came.
NoFalseSuccess ==
    \A w \in Waiters : waiter[w] = "nil" => best[w] >= MinRunspaces[w]

\* An announcement that another waiter took, or that nobody heard, delays a
\* waiter only: it returns as long as the runspaces stay available.
AvailabilityWakes ==
    \A w \in Waiters :
        (waiter[w] = "select") ~>
            (waiter[w] # "select" \/ available < MinRunspaces[w])

=============================================================================
