------------------------------- MODULE Mutex -------------------------------
(***************************************************************************)
(* One mutex_t of drivers/synchronization/mutex.cpp shared by the tasks of *)
(* the ready list.  Every statement of mtx_lock, mtx_try_lock and          *)
(* mtx_release that touches shared state is a step of its own, so that     *)
(* what makes the calls atomic is what makes them atomic in the code: the  *)
(* I bit of SREG, cleared by cli() and put back by SREG = sreg.            *)
(*                                                                         *)
(* The scheduler is seen from the tasks: a switch (TIMER0_COMPB interrupt, *)
(* only while the I bit is set, or a call of yield) makes the next task of *)
(* the list current and resumes it with interrupts enabled.  Module        *)
(* ContextSwitch shows that the switch code does just that.  remove_task   *)
(* is one step here (module TaskList looks inside): it knows nothing of    *)
(* mutexes, so that a task can leave the list with one locked.             *)
(***************************************************************************)
EXTENDS FiniteSets

CONSTANTS Tasks,    \* the tasks of the ready list
          NULL,     \* nullptr
          Succ,     \* Succ[t]: the task schedule_round_robin picks after t
          Orphans   \* tasks may leave the list while they own the mutex

ASSUME TasksAssumption == IsFiniteSet(Tasks) /\ Tasks # {} /\ NULL \notin Tasks
ASSUME SuccAssumption == Succ \in [Tasks -> Tasks] /\ Orphans \in BOOLEAN

VARIABLES
  listed,    \* the tasks on the ready list
  succ,      \* succ[t]: the task schedule_round_robin picks after t now
  c_task,    \* the running task
  irq,       \* the I bit of SREG
  owner,     \* mtx.owner
  at,        \* at[t]: the statement of the mutex code t executes next
  sreg,      \* sreg[t]: the I bit in t's local copy of SREG
  result,    \* result[t]: the mutex_errno_t t is about to return
  holds,     \* holds[t]: the last call told t that it has locked the mutex
  enabled    \* enabled[t]: the I bit t itself last asked for (cli, sei, yield)

list == <<listed, succ>>
vars == <<list, c_task, irq, owner, at, sreg, result, holds, enabled>>

(***************************************************************************)
(* Control points.  "cli": the local sreg is loaded and cli() comes next.  *)
(***************************************************************************)
LockPoints == {"lock_cli", "lock_owner", "lock_while", "lock_yielded",
               "lock_take", "lock_restore"}
TryPoints == {"try_cli", "try_test", "try_take", "try_restore"}
ReleasePoints == {"release_cli", "release_test", "release_clear",
                  "release_restore"}

\* The statements between cli() and SREG = sreg.
Masked == {"lock_owner", "lock_while", "lock_take", "lock_restore",
           "try_test", "try_take", "try_restore",
           "release_test", "release_clear", "release_restore"}

Results == {"MUTEX_OK", "MUTEX_ERR_ALREADY_LOCKED", "MUTEX_ERR_NOT_OWNER"}

TypeOK ==
  /\ listed \subseteq Tasks
  /\ succ \in [Tasks -> Tasks]
  /\ c_task \in Tasks
  /\ irq \in BOOLEAN
  /\ owner \in Tasks \cup {NULL}
  /\ at \in [Tasks -> {"user"} \cup LockPoints \cup TryPoints \cup ReleasePoints]
  /\ sreg \in [Tasks -> BOOLEAN]
  /\ result \in [Tasks -> Results]
  /\ holds \in [Tasks -> BOOLEAN]
  /\ enabled \in [Tasks -> BOOLEAN]

\* mtx_init has run; some task has just been dispatched.
Init ==
  /\ listed = Tasks /\ succ = Succ
  /\ c_task \in Tasks
  /\ irq = TRUE
  /\ owner = NULL
  /\ at = [t \in Tasks |-> "user"]
  /\ sreg = [t \in Tasks |-> TRUE]
  /\ result = [t \in Tasks |-> "MUTEX_OK"]
  /\ holds = [t \in Tasks |-> FALSE]
  /\ enabled = [t \in Tasks |-> TRUE]

(***************************************************************************)
(* The scheduler.                                                          *)
(***************************************************************************)
\* The switch away from t; the task switched to goes on with the I bit set.
Switch(t) == c_task' = succ[t] /\ irq' = TRUE

\* TIMER0_COMPB_vect.
Preempt ==
  /\ irq
  /\ Switch(c_task)
  /\ UNCHANGED <<list, owner, at, sreg, result, holds, enabled>>

(***************************************************************************)
(* What a task does between mutex calls.                                   *)
(***************************************************************************)
Goto(t, from, to) ==
  c_task = t /\ at[t] = from /\ at' = [at EXCEPT ![t] = to]

\* cli() or sei() in the task's own code.
SetIrq(t, b) ==
  /\ c_task = t /\ at[t] = "user" /\ irq # b
  /\ irq' = b
  /\ enabled' = [enabled EXCEPT ![t] = b]
  /\ UNCHANGED <<list, c_task, owner, at, sreg, result, holds>>

\* yield() in the task's own code returns with interrupts enabled.
Yield(t) ==
  /\ c_task = t /\ at[t] = "user"
  /\ Switch(t)
  /\ enabled' = [enabled EXCEPT ![t] = TRUE]
  /\ UNCHANGED <<list, owner, at, sreg, result, holds>>

\* remove_task(v), called by u, for a task that is not the only one listed.
\* What used to be in front of v gets v's successor; a v that is still running
\* goes on to its old successor or, where next_node was cleared, to the head.
remove_task(u, v) ==
  /\ c_task = u /\ at[u] = "user" /\ u \in listed
  /\ v \in listed /\ listed # {v}
  /\ owner # v \/ Orphans
  /\ listed' = listed \ {v}
  /\ \E head \in listed' :
       succ' = [t \in Tasks |-> IF t = v THEN head
                               ELSE IF succ[t] = v THEN succ[v] ELSE succ[t]]
  /\ UNCHANGED <<c_task, irq, owner, at, sreg, result, holds, enabled>>

(***************************************************************************)
(* The three calls: uint8_t sreg = SREG; cli(); ... SREG = sreg; return.   *)
(***************************************************************************)
Call(t, entry) ==
  /\ Goto(t, "user", entry)
  /\ sreg' = [sreg EXCEPT ![t] = irq]
  /\ UNCHANGED <<list, c_task, irq, owner, result, holds, enabled>>

\* A task off the list that is still in its last slice would never return.
MayLock(t) == t \in listed \/ Orphans

mtx_lock(t) == MayLock(t) /\ Call(t, "lock_cli")
mtx_try_lock(t) == MayLock(t) /\ Call(t, "try_cli")
mtx_release(t) == Call(t, "release_cli")

CliEdge(t) ==
  \/ Goto(t, "lock_cli", "lock_owner")
  \/ Goto(t, "lock_yielded", "lock_while")
  \/ Goto(t, "try_cli", "try_test")
  \/ Goto(t, "release_cli", "release_test")

\* Mutant: the cli() is missing.
CliForgotten(t) ==
  /\ CliEdge(t)
  /\ UNCHANGED <<list, c_task, irq, owner, sreg, result, holds, enabled>>

Cli(t) ==
  /\ CliEdge(t)
  /\ irq' = FALSE
  /\ UNCHANGED <<list, c_task, owner, sreg, result, holds, enabled>>

\* if (mtx->owner == c_task): already locked by our task.
LockOwner(t) ==
  /\ Goto(t, "lock_owner", IF owner = c_task THEN "lock_restore" ELSE "lock_while")
  /\ UNCHANGED <<list, c_task, irq, owner, sreg, result, holds, enabled>>

\* Mutant: the loop polls the owner without giving the processor away.
LockSpin(t) ==
  /\ Goto(t, "lock_while", IF owner = NULL THEN "lock_take" ELSE "lock_while")
  /\ UNCHANGED <<list, c_task, irq, owner, sreg, result, holds, enabled>>

\* Mutant: the loop waits for the mutex to be given to the task.
LockAwaitsGrant(t) ==
  /\ Goto(t, "lock_while", "lock_yielded")
  /\ Switch(t)
  /\ UNCHANGED <<list, owner, sreg, result, holds, enabled>>

\* while (mtx->owner != nullptr) { yield(); cli(); }
LockWhile(t) ==
  \/ /\ owner # NULL
     /\ Goto(t, "lock_while", "lock_yielded")
     /\ Switch(t)
     /\ UNCHANGED <<list, owner, sreg, result, holds, enabled>>
  \/ /\ owner = NULL
     /\ Goto(t, "lock_while", "lock_take")
     /\ UNCHANGED <<list, c_task, irq, owner, sreg, result, holds, enabled>>

\* mtx->owner = c_task, behind the loop of mtx_lock.
LockTake(t) ==
  /\ Goto(t, "lock_take", "lock_restore")
  /\ owner' = c_task
  /\ UNCHANGED <<list, c_task, irq, sreg, result, holds, enabled>>

\* if (mtx->owner != nullptr) return MUTEX_ERR_ALREADY_LOCKED.
TryTest(t) ==
  /\ \/ /\ owner # NULL
        /\ Goto(t, "try_test", "try_restore")
        /\ result' = [result EXCEPT ![t] = "MUTEX_ERR_ALREADY_LOCKED"]
     \/ /\ owner = NULL
        /\ Goto(t, "try_test", "try_take")
        /\ UNCHANGED result
  /\ UNCHANGED <<list, c_task, irq, owner, sreg, holds, enabled>>

\* mtx->owner = c_task in mtx_try_lock.
TryTake(t) ==
  /\ Goto(t, "try_take", "try_restore")
  /\ owner' = c_task
  /\ result' = [result EXCEPT ![t] = "MUTEX_OK"]
  /\ UNCHANGED <<list, c_task, irq, sreg, holds, enabled>>

\* if (c_task != mtx->owner) return MUTEX_ERR_NOT_OWNER.
ReleaseTest(t) ==
  /\ \/ /\ c_task # owner
        /\ Goto(t, "release_test", "release_restore")
        /\ result' = [result EXCEPT ![t] = "MUTEX_ERR_NOT_OWNER"]
     \/ /\ c_task = owner
        /\ Goto(t, "release_test", "release_clear")
        /\ UNCHANGED result
  /\ UNCHANGED <<list, c_task, irq, owner, sreg, holds, enabled>>

\* mtx->owner = nullptr in mtx_release.
ReleaseClear(t) ==
  /\ Goto(t, "release_clear", "release_restore")
  /\ owner' = NULL
  /\ result' = [result EXCEPT ![t] = "MUTEX_OK"]
  /\ UNCHANGED <<list, c_task, irq, sreg, holds, enabled>>

\* Whether the call that returns from point p tells t that it has locked the
\* mutex: the errors mean that another task has (MUTEX_ERR_ALREADY_LOCKED) or
\* that t has not (MUTEX_ERR_NOT_OWNER).
HoldsAfter(t, p) ==
  p = "lock_restore" \/ (p = "try_restore" /\ result[t] = "MUTEX_OK")

\* Mutant: the call ends in sei() instead of SREG = sreg.
ReturnSei(t) ==
  /\ \E p \in {"lock_restore", "try_restore", "release_restore"} :
       /\ Goto(t, p, "user")
       /\ holds' = [holds EXCEPT ![t] = HoldsAfter(t, p)]
  /\ irq' = TRUE
  /\ sreg' = [sreg EXCEPT ![t] = TRUE]
  /\ result' = [result EXCEPT ![t] = "MUTEX_OK"]
  /\ UNCHANGED <<list, c_task, owner, enabled>>

\* SREG = sreg; return.  The locals are dead afterwards.
Return(t) ==
  /\ \E p \in {"lock_restore", "try_restore", "release_restore"} :
       /\ Goto(t, p, "user")
       /\ holds' = [holds EXCEPT ![t] = HoldsAfter(t, p)]
  /\ irq' = sreg[t]
  /\ sreg' = [sreg EXCEPT ![t] = TRUE]
  /\ result' = [result EXCEPT ![t] = "MUTEX_OK"]
  /\ UNCHANGED <<list, c_task, owner, enabled>>

\* The statements of the mutex code after a call has started.
Inside(t) ==
  \/ Cli(t) \/ LockOwner(t) \/ LockWhile(t) \/ LockTake(t)
  \/ TryTest(t) \/ TryTake(t) \/ ReleaseTest(t) \/ ReleaseClear(t)
  \/ Return(t)

UserStep(t) ==
  \/ \E b \in BOOLEAN : SetIrq(t, b)
  \/ Yield(t) \/ mtx_lock(t) \/ mtx_try_lock(t) \/ mtx_release(t)
  \/ \E v \in Tasks : remove_task(t, v)

Next == Preempt \/ \E t \in Tasks : UserStep(t) \/ Inside(t)

Spec == Init /\ [][Next]_vars

(***************************************************************************)
(* Fairness.  The compare flag is latched, so an interrupt that comes due  *)
(* while the I bit is clear is taken once the bit is set; a statement that *)
(* is reached again and again is not preempted in front of it for ever (a  *)
(* slice is thousands of instructions).  Of the tasks' own code: one that  *)
(* has locked the mutex releases it some day, whatever mtx_try_lock tells  *)
(* it in between, and one that disabled interrupts enables them some day.  *)
(***************************************************************************)
Fairness ==
  /\ SF_vars(Preempt)
  /\ \A t \in Tasks : SF_vars(Inside(t))
  /\ SF_vars(\E t \in Tasks : owner = t /\ mtx_release(t))
  /\ SF_vars(\E t \in Tasks : SetIrq(t, TRUE))

FairSpec == Spec /\ Fairness

(***************************************************************************)
(* Properties.                                                             *)
(***************************************************************************)
\* t has been told that it has the mutex and has not begun to give it back.
InCriticalSection(t) == holds[t] /\ at[t] \notin ReleasePoints

\* mtx_lock / mtx_try_lock / mtx_release: whatever the order in which calls
\* are preempted, and although anyone may call mtx_release, at most one task
\* is between a successful lock and its release.
MutualExclusion ==
  \A t, u \in Tasks : InCriticalSection(t) /\ InCriticalSection(u) => t = u

\* mtx_try_lock, "MUTEX_ERR_ALREADY_LOCKED: Mutex already locked by another
\* task" (mutex.h): mtx.owner never names a task that was told so, or that
\* otherwise cannot know; such a lock nobody would release.  Not so when the
\* owner itself calls mtx_try_lock, which does not look who the owner is.
NoLeakedLock ==
  \A t \in Tasks :
    owner = t => \/ holds[t]
                 \/ at[t] = "lock_restore"
                 \/ at[t] = "try_restore" /\ result[t] = "MUTEX_OK"

\* SREG = sreg: across mutex calls, waits in mtx_lock included (where yield
\* enables interrupts and other tasks run), a task finds the I bit as it last
\* set it itself.
InterruptFlagKept ==
  at[c_task] = "user" => irq = enabled[c_task]

\* mtx_lock: waiting tasks, even ones that called with interrupts disabled,
\* keep giving the processor to the owner, so that it gets to its release; also
\* while tasks are removed, unless the owner is (Orphans), which nothing forbids.
LockIsReleased == \A t \in Tasks : owner = t ~> owner # t

\* mtx_lock, "Blocks until mutex is acquired": there is no queue of waiting
\* tasks, but a mutex that is free does not stay so while one waits, also when
\* others that waited were removed.  (Which one gets it is left open: a task
\* that polls once per turn may find it taken each time.)
FreeLockIsTaken ==
  (\E t \in listed : at[t] \in LockPoints)
    ~> (owner # NULL \/ \A t \in listed : at[t] \notin LockPoints)

(***************************************************************************)
(* The inductive invariants behind MutualExclusion and InterruptFlagKept.  *)
(***************************************************************************)
\* Only the running task is between cli() and SREG = sreg, and the I bit is
\* clear all that time.
MaskedAlone == \A t \in Tasks : at[t] \in Masked => c_task = t /\ ~irq

\* What each point of the calls knows of the owner.
OwnerKnown ==
  \A t \in Tasks :
    /\ at[t] \in {"lock_take", "try_take"} => owner = NULL
    /\ at[t] \in {"lock_restore", "release_clear"} => owner = t
    /\ at[t] = "try_restore" /\ result[t] = "MUTEX_OK" => owner = t
    /\ at[t] = "release_restore" /\ result[t] = "MUTEX_OK" => owner = NULL
    /\ at[t] = "release_restore" /\ result[t] # "MUTEX_OK" => owner # t

\* A task that believes it holds the mutex is the owner until it has cleared
\* the field itself.
HolderOwns ==
  \A t \in Tasks :
    holds[t] => owner = t \/ (at[t] = "release_restore" /\ result[t] = "MUTEX_OK")

\* mutex.cpp: the claims about masking, owner and holder that together are
\* preserved by every statement.
MutexInv == TypeOK /\ MaskedAlone /\ OwnerKnown /\ HolderOwns

\* mutex.cpp: the saved sreg is the caller's flag, and a task switched out in
\* its own code had interrupts enabled.
FlagInv ==
  /\ \A t \in Tasks : at[t] # "user" => sreg[t] = enabled[t]
  /\ \A t \in Tasks : at[t] = "user" /\ t # c_task => enabled[t] = TRUE
  /\ InterruptFlagKept
=============================================================================
