---------------------------- MODULE MutexProofs ----------------------------
(***************************************************************************)
(* Mutual exclusion and the interrupt flag, for every set of tasks and     *)
(* every order of dispatch.                                                *)
(***************************************************************************)
EXTENDS Mutex, TLAPS

USE DEF list, LockPoints, TryPoints, ReleasePoints, Masked, Results

\* After mtx_init nobody holds the mutex.
LEMMA InitMutexInv == Init => MutexInv
BY TasksAssumption, SuccAssumption
   DEF Init, MutexInv, TypeOK, MaskedAlone, OwnerKnown, HolderOwns

\* Every step of Next keeps MutexInv.
LEMMA NextMutexInv == MutexInv /\ [Next]_vars => MutexInv'
<1> SUFFICES ASSUME MutexInv, [Next]_vars PROVE MutexInv'
  OBVIOUS
<1> USE TasksAssumption
<1> USE DEF MutexInv, TypeOK, MaskedAlone, OwnerKnown, HolderOwns
<1>1. CASE UNCHANGED vars
  BY <1>1 DEF vars
<1>2. CASE Preempt
  BY <1>2 DEF Preempt, Switch
<1>3. ASSUME NEW t \in Tasks, UserStep(t) PROVE MutexInv'
  <2>1. ASSUME NEW b \in BOOLEAN, SetIrq(t, b) PROVE MutexInv'
    BY <2>1 DEF SetIrq
  <2>2. CASE Yield(t)
    BY <2>2 DEF Yield, Switch
  <2>3. CASE mtx_lock(t)
    BY <2>3 DEF mtx_lock, Call, Goto
  <2>4. CASE mtx_try_lock(t)
    BY <2>4 DEF mtx_try_lock, Call, Goto
  <2>5. CASE mtx_release(t)
    BY <2>5 DEF mtx_release, Call, Goto
  <2>6. ASSUME NEW v \in Tasks, remove_task(t, v) PROVE MutexInv'
    BY <2>6 DEF remove_task
  <2> QED BY <1>3, <2>1, <2>2, <2>3, <2>4, <2>5, <2>6 DEF UserStep
<1>4. ASSUME NEW t \in Tasks, Inside(t) PROVE MutexInv'
  <2>1. CASE Cli(t)
    <3>1. CASE Goto(t, "lock_cli", "lock_owner")
      BY <2>1, <3>1 DEF Cli, Goto
    <3>2. CASE Goto(t, "lock_yielded", "lock_while")
      BY <2>1, <3>2 DEF Cli, Goto
    <3>3. CASE Goto(t, "try_cli", "try_test")
      BY <2>1, <3>3 DEF Cli, Goto
    <3>4. CASE Goto(t, "release_cli", "release_test")
      BY <2>1, <3>4 DEF Cli, Goto
    <3> QED BY <2>1, <3>1, <3>2, <3>3, <3>4 DEF Cli, CliEdge
  <2>2. CASE LockOwner(t)
    BY <2>2 DEF LockOwner, Goto
  <2>3. CASE LockWhile(t)
    <3>1. CASE owner # NULL
      <4>1. /\ c_task = t /\ at[t] = "lock_while"
            /\ at' = [at EXCEPT ![t] = "lock_yielded"]
            /\ c_task' = succ[t] /\ irq' = TRUE
            /\ UNCHANGED <<list, owner, sreg, result, holds, enabled>>
        BY <2>3, <3>1 DEF LockWhile, Goto, Switch
      <4>2. TypeOK' /\ MaskedAlone'
        BY <4>1
      <4>3. OwnerKnown' /\ HolderOwns'
        BY <4>1
      <4> QED BY <4>2, <4>3
    <3>2. CASE owner = NULL
      BY <2>3, <3>2 DEF LockWhile, Goto
    <3> QED BY <3>1, <3>2
  <2>4. CASE LockTake(t)
    BY <2>4 DEF LockTake, Goto
  <2>5. CASE TryTest(t)
    BY <2>5 DEF TryTest, Goto
  <2>6. CASE TryTake(t)
    BY <2>6 DEF TryTake, Goto
  <2>7. CASE ReleaseTest(t)
    BY <2>7 DEF ReleaseTest, Goto
  <2>8. CASE ReleaseClear(t)
    BY <2>8 DEF ReleaseClear, Goto
  <2>9. CASE Return(t)
    <3>1. PICK p \in {"lock_restore", "try_restore", "release_restore"} :
            Goto(t, p, "user") /\ holds' = [holds EXCEPT ![t] = HoldsAfter(t, p)]
      BY <2>9 DEF Return
    <3>2. CASE p = "lock_restore"
      BY <2>9, <3>1, <3>2 DEF Return, Goto, HoldsAfter
    <3>3. CASE p \in {"try_restore", "release_restore"}
      <4> DEFINE h == p = "try_restore" /\ result[t] = "MUTEX_OK"
      <4>1. /\ c_task = t /\ at[t] = p
            /\ at' = [at EXCEPT ![t] = "user"]
            /\ irq' = sreg[t]
            /\ sreg' = [sreg EXCEPT ![t] = TRUE]
            /\ result' = [result EXCEPT ![t] = "MUTEX_OK"]
            /\ UNCHANGED <<list, c_task, owner, enabled>>
        BY <2>9, <3>1, <3>3 DEF Return, Goto
      <4>2. h \in BOOLEAN /\ holds' = [holds EXCEPT ![t] = h]
        BY <3>1, <3>3 DEF HoldsAfter
      <4>3. h = TRUE => owner = t
        BY <4>1
      <4> HIDE DEF h
      <4>4. TypeOK' /\ MaskedAlone' /\ OwnerKnown'
        BY <3>3, <4>1, <4>2
      <4>5. HolderOwns'
        BY <3>3, <4>1, <4>2, <4>3
      <4> QED BY <4>4, <4>5
    <3> QED BY <3>2, <3>3
  <2> QED BY <1>4, <2>1, <2>2, <2>3, <2>4, <2>5, <2>6, <2>7, <2>8, <2>9 DEF Inside
<1> QED BY <1>1, <1>2, <1>3, <1>4 DEF Next

\* The mutex calls keep MutexInv, whatever the interleaving.
THEOREM MutexInvariant == Spec => []MutexInv
<1>1. Init => MutexInv BY InitMutexInv
<1>2. MutexInv /\ [Next]_vars => MutexInv' BY NextMutexInv
<1> QED BY <1>1, <1>2, PTL DEF Spec

\* At most one task is between a successful lock and its release.
THEOREM Exclusion == Spec => []MutualExclusion
<1>1. MutexInv => MutualExclusion
  BY TasksAssumption DEF MutexInv, HolderOwns, MutualExclusion, InCriticalSection, TypeOK
<1> QED BY <1>1, MutexInvariant, PTL

\* Every step of Next keeps FlagInv.
LEMMA NextFlagInv == TypeOK /\ MaskedAlone /\ FlagInv /\ [Next]_vars => FlagInv'
<1> SUFFICES ASSUME TypeOK, MaskedAlone, FlagInv, [Next]_vars PROVE FlagInv'
  OBVIOUS
<1> USE DEF TypeOK, FlagInv, InterruptFlagKept
<1>1. CASE UNCHANGED vars
  BY <1>1 DEF vars
<1>2. CASE Preempt
  BY <1>2 DEF Preempt, Switch
<1>3. ASSUME NEW t \in Tasks, UserStep(t) PROVE FlagInv'
  <2>1. ASSUME NEW b \in BOOLEAN, SetIrq(t, b) PROVE FlagInv'
    BY <2>1 DEF SetIrq
  <2>2. CASE Yield(t)
    BY <2>2 DEF Yield, Switch
  <2>3. CASE mtx_lock(t)
    BY <2>3 DEF mtx_lock, Call, Goto
  <2>4. CASE mtx_try_lock(t)
    BY <2>4 DEF mtx_try_lock, Call, Goto
  <2>5. CASE mtx_release(t)
    BY <2>5 DEF mtx_release, Call, Goto
  <2>6. ASSUME NEW v \in Tasks, remove_task(t, v) PROVE FlagInv'
    BY <2>6 DEF remove_task
  <2> QED BY <1>3, <2>1, <2>2, <2>3, <2>4, <2>5, <2>6 DEF UserStep
<1>4. ASSUME NEW t \in Tasks, Inside(t) PROVE FlagInv'
  <2>1. CASE Cli(t)
    BY <2>1 DEF Cli, CliEdge, Goto
  <2>2. CASE LockOwner(t)
    BY <2>2 DEF LockOwner, Goto
  <2>3. CASE LockWhile(t)
    <3>1. CASE owner # NULL
      <4>1. /\ c_task = t /\ at[t] = "lock_while"
            /\ at' = [at EXCEPT ![t] = "lock_yielded"]
            /\ c_task' = succ[t] /\ irq' = TRUE
            /\ UNCHANGED <<list, owner, sreg, result, holds, enabled>>
        BY <2>3, <3>1 DEF LockWhile, Goto, Switch
      <4> QED BY <4>1
    <3>2. CASE owner = NULL
      BY <2>3, <3>2 DEF LockWhile, Goto
    <3> QED BY <3>1, <3>2
  <2>4. CASE LockTake(t)
    BY <2>4 DEF LockTake, Goto
  <2>5. CASE TryTest(t)
    BY <2>5 DEF TryTest, Goto
  <2>6. CASE TryTake(t)
    BY <2>6 DEF TryTake, Goto
  <2>7. CASE ReleaseTest(t)
    BY <2>7 DEF ReleaseTest, Goto
  <2>8. CASE ReleaseClear(t)
    BY <2>8 DEF ReleaseClear, Goto
  <2>9. CASE Return(t)
    <3>1. /\ c_task = t /\ at[t] # "user"
          /\ at' = [at EXCEPT ![t] = "user"]
          /\ irq' = sreg[t]
          /\ sreg' = [sreg EXCEPT ![t] = TRUE]
          /\ UNCHANGED <<c_task, enabled>>
      BY <2>9 DEF Return, Goto
    <3>2. irq' = enabled[t]
      BY <3>1
    <3> QED BY <3>1, <3>2
  <2> QED BY <1>4, <2>1, <2>2, <2>3, <2>4, <2>5, <2>6, <2>7, <2>8, <2>9 DEF Inside
<1> QED BY <1>1, <1>2, <1>3, <1>4 DEF Next

\* Across mutex calls a task finds the I bit of SREG as it last set it.
THEOREM FlagKept == Spec => []InterruptFlagKept
<1>1. Init => FlagInv
  BY DEF Init, FlagInv, InterruptFlagKept
<1>2. MutexInv /\ FlagInv /\ [Next]_vars => FlagInv'
  BY NextFlagInv DEF MutexInv
<1>3. FlagInv => InterruptFlagKept
  BY DEF FlagInv
<1> QED BY <1>1, <1>2, <1>3, MutexInvariant, PTL DEF Spec
=============================================================================
