------------------------------ MODULE UThread ------------------------------
(***************************************************************************)
(* The cooperative user-thread scheduler of UThread.c with the sleep queue *)
(* (UtSleep) and the join queue of WaitJoin.h.  One operating system       *)
(* thread runs everything, so a call is interrupted by nothing but the     *)
(* clock.  A call that ends in Schedule() sets "phase": the scheduler then *)
(* reads GetTickCount() again, any number of milliseconds later.           *)
(*                                                                         *)
(* A thread is the address malloc() gave its UTHREAD: after the thread has *)
(* exited the address can be handed out again.                             *)
(***************************************************************************)
EXTENDS Integers, Sequences, FiniteSets, SequencesExt

CONSTANTS
    Threads,        \* the addresses malloc() can return for a UTHREAD
    Main,           \* the UTHREAD on UtRun's stack, proxy of the OS thread
    NoThread,       \* NULL
    JoinPairs,      \* <<a, b>>: the program of a may call UtJoin(b)
    Parkers,        \* the threads whose program calls UtDeactivate itself
    SleepTimes,     \* the arguments given to UtSleep
    MaxTick,        \* bound: the clock stops here, sleeps of no length go on
    MaxCreates,     \* bound: calls of UtCreate
    TickModulus,    \* 2^32 in the code, the width of GetTickCount()
    CounterModulus  \* 2^32 in the code, the width of SwitchCount

ASSUME ThreadsAssumption ==
    /\ Main \notin Threads /\ NoThread \notin Threads /\ Main # NoThread
    /\ IsFiniteSet(Threads)
ASSUME ClientAssumption ==
    /\ JoinPairs \subseteq Threads \X Threads
    /\ Parkers \subseteq Threads
    /\ SleepTimes \subseteq Nat
ASSUME BoundAssumption ==
    /\ MaxTick \in Nat /\ MaxCreates \in Nat
    /\ TickModulus \in Nat \ {0} /\ CounterModulus \in Nat \ {0}

VARIABLES
    NumberOfThreads, \* threads created and not yet exited
    SwitchCount,     \* context switches, a ULONG
    ReadyQueue,      \* threads, next to run first
    SleepQueue,      \* UT_SLEEP blocks; "due" is a history field, not in the code
    WaitQueue,       \* UWAIT blocks, newest first
    RunningThread,
    MainThread,
    phase,           \* where the running thread is inside the library
    live,            \* UTHREADs allocated and not freed
    parked,          \* threads inside their own call of UtDeactivate
    created,         \* number of UtCreate calls so far
    now              \* milliseconds since the machine started, unwrapped

queues == <<ReadyQueue, SleepQueue, WaitQueue>>
clients == <<live, parked, created>>
vars == <<NumberOfThreads, SwitchCount, ReadyQueue, SleepQueue, WaitQueue,
          RunningThread, MainThread, phase, live, parked, created, now>>

Sleepers == {SleepQueue[i].thread : i \in DOMAIN SleepQueue}
Joiners == {WaitQueue[i].joiner : i \in DOMAIN WaitQueue}

SleepBlock == [thread : Threads, wake : Nat, due : Nat]
WaitBlock == [target : Threads, joiner : Threads]

GetTickCount == now % TickModulus
CountSwitch == SwitchCount' = (SwitchCount + 1) % CounterModulus

(***************************************************************************)
(* Internal operations.                                                    *)
(***************************************************************************)
\* Slip: a sleeper one millisecond short of its time counts as due.
SlipDueEarly == SleepQueue # <<>> /\ Head(SleepQueue).wake <= GetTickCount + 1

SleeperDue == SleepQueue # <<>> /\ Head(SleepQueue).wake <= GetTickCount

\* Slip: the sleep block stays in its queue.
SlipWakeKeepsBlock ==
    /\ ReadyQueue' = IF SleeperDue THEN Cons(Head(SleepQueue).thread, ReadyQueue)
                                   ELSE ReadyQueue
    /\ UNCHANGED SleepQueue

\* Slip: the block's link, not the thread's, goes into the ready queue.
SlipWakeLinksBlock ==
    IF SleeperDue
    THEN /\ ReadyQueue' = Cons(Head(SleepQueue), ReadyQueue)
         /\ SleepQueue' = Tail(SleepQueue)
    ELSE UNCHANGED <<ReadyQueue, SleepQueue>>

\* At most one sleeper moves, to the head of the ready queue.
WakeSleepThread ==
    IF SleeperDue
    THEN /\ ReadyQueue' = Cons(Head(SleepQueue).thread, ReadyQueue)
         /\ SleepQueue' = Tail(SleepQueue)
    ELSE UNCHANGED <<ReadyQueue, SleepQueue>>

\* Slip: the code as it was before UtSleep; the sleep queue is not looked at.
SlipExtractForgetsSleepers ==
    /\ RunningThread' = IF ReadyQueue = <<>> THEN MainThread ELSE Head(ReadyQueue)
    /\ ReadyQueue' = IF ReadyQueue = <<>> THEN <<>> ELSE Tail(ReadyQueue)
    /\ UNCHANGED SleepQueue

\* Slip: spinning for a sleeper without asking whether there is one.
SlipExtractAlwaysSpins ==
    \/ /\ ReadyQueue # <<>>
       /\ RunningThread' = Head(ReadyQueue)
       /\ ReadyQueue' = Tail(ReadyQueue)
       /\ UNCHANGED SleepQueue
    \/ /\ ReadyQueue = <<>> /\ SleeperDue
       /\ RunningThread' = Head(SleepQueue).thread
       /\ SleepQueue' = Tail(SleepQueue)
       /\ UNCHANGED ReadyQueue

\* With nothing ready and somebody asleep the caller spins in
\* while(!WakeSleepThread()): no disjunct is enabled until a sleeper is due.
ExtractNextReadyThread ==
    \/ /\ ReadyQueue # <<>>
       /\ RunningThread' = Head(ReadyQueue)
       /\ ReadyQueue' = Tail(ReadyQueue)
       /\ UNCHANGED SleepQueue
    \/ /\ ReadyQueue = <<>> /\ SleepQueue = <<>>
       /\ RunningThread' = MainThread
       /\ UNCHANGED <<ReadyQueue, SleepQueue>>
    \/ /\ ReadyQueue = <<>> /\ SleeperDue
       /\ RunningThread' = Head(SleepQueue).thread
       /\ SleepQueue' = Tail(SleepQueue)
       /\ UNCHANGED ReadyQueue

\* Slip: the block is linked at the tail, whatever its time.
SlipSleepAtTail(wake) == Len(SleepQueue) + 1

\* UtSleep walks past every block whose wake time is not after the new one's.
SleepPosition(wake) ==
    CHOOSE i \in 1 .. Len(SleepQueue) + 1 :
        /\ \A j \in 1 .. i - 1 : SleepQueue[j].wake <= wake
        /\ i <= Len(SleepQueue) => SleepQueue[i].wake > wake

UtAlive(t) ==
    \/ t = RunningThread
    \/ t \in ToSet(ReadyQueue)
    \/ t \in Sleepers

\* Slip: the first block is taken whomever it waits for.
SlipAnyWaiter(t, i) == i = 1

IsFirstWaiter(t, i) ==
    /\ i \in DOMAIN WaitQueue
    /\ WaitQueue[i].target = t
    /\ \A j \in 1 .. i - 1 : WaitQueue[j].target # t

\* Slip: the block is removed and its thread forgotten.
SlipWaiterNotActivated ==
    /\ WaitQueue' = SelectSeq(WaitQueue, LAMBDA w : w.target # RunningThread)
    /\ UNCHANGED ReadyQueue

\* The loop breaks after the first block that waits for the exiting thread.
VerifyWait ==
    IF \E i \in DOMAIN WaitQueue : IsFirstWaiter(RunningThread, i)
    THEN LET i == CHOOSE k \in DOMAIN WaitQueue : IsFirstWaiter(RunningThread, k)
         IN /\ WaitQueue' = RemoveAt(WaitQueue, i)
            /\ ReadyQueue' = Append(ReadyQueue, WaitQueue[i].joiner)
    ELSE UNCHANGED <<WaitQueue, ReadyQueue>>

(***************************************************************************)
(* Init is the state UtInit() leaves.  User code runs when phase is "user" *)
(* and RunningThread is a thread, or NULL: main() outside UtRun.           *)
(***************************************************************************)
Init ==
    /\ NumberOfThreads = 0 /\ SwitchCount = 0
    /\ ReadyQueue = <<>> /\ SleepQueue = <<>> /\ WaitQueue = <<>>
    /\ RunningThread = NoThread /\ MainThread = NoThread
    /\ phase = "user"
    /\ live = {} /\ parked = {} /\ created = 0
    /\ now = 0

InUserThread == phase = "user" /\ RunningThread \in Threads

UtCreate(t) ==
    /\ phase = "user" /\ RunningThread # Main
    /\ t \notin live
    /\ created < MaxCreates
    /\ live' = live \cup {t}
    /\ created' = created + 1
    /\ NumberOfThreads' = NumberOfThreads + 1
    /\ ReadyQueue' = Append(ReadyQueue, t)
    /\ UNCHANGED <<SwitchCount, SleepQueue, WaitQueue, RunningThread, MainThread,
                   phase, parked, now>>

UtRun ==
    /\ phase = "user" /\ RunningThread = NoThread
    /\ ReadyQueue # <<>> \/ SleepQueue # <<>>
    /\ MainThread' = Main
    /\ RunningThread' = Main
    /\ phase' = "schedule"
    /\ UNCHANGED <<NumberOfThreads, SwitchCount, queues, clients, now>>

\* The rest of UtRun, after its Schedule() has come back.
UtRunReturn ==
    /\ phase = "user" /\ RunningThread = Main
    /\ RunningThread' = NoThread
    /\ MainThread' = NoThread
    /\ UNCHANGED <<NumberOfThreads, SwitchCount, queues, phase, clients, now>>

\* Slip: the yielding thread goes to the head, where it is chosen again.
SlipYieldToHead ==
    /\ InUserThread
    /\ ReadyQueue # <<>>
    /\ ReadyQueue' = Cons(RunningThread, ReadyQueue)
    /\ phase' = "schedule"
    /\ UNCHANGED <<NumberOfThreads, SwitchCount, SleepQueue, WaitQueue,
                   RunningThread, MainThread, clients, now>>

\* Slip: the yielding thread is not queued.
SlipYieldForgetsSelf ==
    /\ InUserThread
    /\ ReadyQueue # <<>>
    /\ phase' = "schedule"
    /\ UNCHANGED <<NumberOfThreads, SwitchCount, queues, RunningThread, MainThread,
                   clients, now>>

\* With an empty ready queue UtYield returns and changes nothing.
UtYield ==
    /\ InUserThread
    /\ ReadyQueue # <<>>
    /\ ReadyQueue' = Append(ReadyQueue, RunningThread)
    /\ phase' = "schedule"
    /\ UNCHANGED <<NumberOfThreads, SwitchCount, SleepQueue, WaitQueue,
                   RunningThread, MainThread, clients, now>>

UtDeactivate ==
    /\ InUserThread
    /\ RunningThread \in Parkers
    /\ parked' = parked \cup {RunningThread}
    /\ phase' = "schedule"
    /\ UNCHANGED <<NumberOfThreads, SwitchCount, queues, RunningThread, MainThread,
                   live, created, now>>

\* Callers know which threads have parked themselves and activate only those.
UtActivate(t) ==
    /\ phase = "user" /\ RunningThread # Main
    /\ t \in parked
    /\ ReadyQueue' = Append(ReadyQueue, t)
    /\ parked' = parked \ {t}
    /\ UNCHANGED <<NumberOfThreads, SwitchCount, SleepQueue, WaitQueue,
                   RunningThread, MainThread, phase, live, created, now>>

\* The bound MaxTick limits the sleeps that have a length, not UtSleep(0): at the
\* next Schedule() it has the effect of working for a millisecond and UtSleep(1).
UtSleep(ms) ==
    /\ InUserThread
    /\ now + ms <= MaxTick
    /\ LET wake == (GetTickCount + ms) % TickModulus
       IN SleepQueue' = InsertAt(SleepQueue, SleepPosition(wake),
              [thread |-> RunningThread, wake |-> wake, due |-> now + ms])
    /\ phase' = "schedule"
    /\ UNCHANGED <<NumberOfThreads, SwitchCount, ReadyQueue, WaitQueue,
                   RunningThread, MainThread, clients, now>>

\* For a thread UtAlive denies UtJoin returns -1 and changes nothing.
UtJoin(t) ==
    /\ InUserThread
    /\ <<RunningThread, t>> \in JoinPairs
    /\ UtAlive(t)
    /\ WaitQueue' = Cons([target |-> t, joiner |-> RunningThread], WaitQueue)
    /\ phase' = "schedule"
    /\ UNCHANGED <<NumberOfThreads, SwitchCount, ReadyQueue, SleepQueue,
                   RunningThread, MainThread, clients, now>>

\* Slip: UtExit does not count the thread out.
SlipExitUncounted ==
    /\ InUserThread
    /\ CountSwitch
    /\ VerifyWait
    /\ phase' = "exit"
    /\ UNCHANGED <<NumberOfThreads, SleepQueue, RunningThread, MainThread, clients, now>>

\* Called by the program or by InternalStart when the thread's function returns.
UtExit ==
    /\ InUserThread
    /\ NumberOfThreads' = NumberOfThreads - 1
    /\ CountSwitch
    /\ VerifyWait
    /\ phase' = "exit"
    /\ UNCHANGED <<SleepQueue, RunningThread, MainThread, clients, now>>

Schedule ==
    /\ phase = "schedule"
    /\ WakeSleepThread
    /\ phase' = "extract"
    /\ UNCHANGED <<NumberOfThreads, SwitchCount, WaitQueue, RunningThread,
                   MainThread, clients, now>>

\* The rest of Schedule: choose a thread, count, switch to it.
ContextSwitch ==
    /\ phase = "extract"
    /\ ExtractNextReadyThread
    /\ CountSwitch
    /\ phase' = "user"
    /\ UNCHANGED <<NumberOfThreads, WaitQueue, MainThread, clients, now>>

\* Switch away from an exiting thread and free it from the next one's stack.
InternalExit ==
    /\ phase = "exit"
    /\ ExtractNextReadyThread
    /\ live' = live \ {RunningThread}
    /\ phase' = "user"
    /\ UNCHANGED <<NumberOfThreads, SwitchCount, WaitQueue, MainThread, parked,
                   created, now>>

Tick ==
    /\ now < MaxTick
    /\ now' = now + 1
    /\ UNCHANGED <<NumberOfThreads, SwitchCount, queues, RunningThread, MainThread,
                   phase, clients>>

Next ==
    \/ \E t \in Threads : UtCreate(t) \/ UtActivate(t) \/ UtJoin(t)
    \/ \E ms \in SleepTimes : UtSleep(ms)
    \/ UtRun \/ UtRunReturn \/ UtYield \/ UtDeactivate \/ UtExit
    \/ Schedule \/ ContextSwitch \/ InternalExit
    \/ Tick

Spec == Init /\ [][Next]_vars

(***************************************************************************)
(* The library's own steps are executed by the one processor and the clock *)
(* advances.  Of the programs it is assumed that they cooperate: a thread  *)
(* does not keep the processor for ever while others are ready.            *)
(***************************************************************************)
FairSpec ==
    /\ Spec
    /\ WF_vars(Schedule) /\ WF_vars(ContextSwitch) /\ WF_vars(InternalExit)
    /\ WF_vars(UtRunReturn) /\ WF_vars(Tick)
    /\ \A t \in Threads :
          WF_vars(RunningThread = t /\ ReadyQueue # <<>> /\ (UtYield \/ UtExit))

\* Some properties need more of the programs: every thread that keeps being
\* given the processor ends its function (InternalStart makes that a UtExit).
ProgramsEnd == \A t \in Threads : SF_vars(RunningThread = t /\ UtExit)

(***************************************************************************)
(* Properties.                                                             *)
(***************************************************************************)

\* Every variable holds what its declaration in UThread.c and WaitJoin.h says.
TypeOK ==
    /\ NumberOfThreads \in Nat
    /\ SwitchCount \in 0 .. CounterModulus - 1
    /\ ReadyQueue \in Seq(Threads)
    /\ SleepQueue \in Seq(SleepBlock)
    /\ WaitQueue \in Seq(WaitBlock)
    /\ RunningThread \in Threads \cup {Main, NoThread}
    /\ MainThread \in {Main, NoThread}
    /\ phase \in {"user", "schedule", "extract", "exit"}
    /\ live \subseteq Threads
    /\ parked \subseteq Threads
    /\ created \in 0 .. MaxCreates
    /\ now \in 0 .. MaxTick

\* The thread whose UTHREAD link is in no list because it owns the processor.
Executing == IF phase \in {"user", "exit"} THEN {RunningThread} \cap Threads ELSE {}

\* No queue holds a thread twice and no two places hold the same thread: the
\* single Link of a UTHREAD is never threaded through two lists, and no
\* thread can be resumed twice for one suspension (UtSleep, UtJoin, UtYield,
\* UtDeactivate all hand the thread to exactly one waker).
OnePlace ==
    /\ IsInjective(ReadyQueue)
    /\ \A i, j \in DOMAIN SleepQueue :
          SleepQueue[i].thread = SleepQueue[j].thread => i = j
    /\ \A i, j \in DOMAIN WaitQueue :
          WaitQueue[i].joiner = WaitQueue[j].joiner => i = j
    /\ ToSet(ReadyQueue) \cap (Sleepers \cup Joiners \cup parked \cup Executing) = {}
    /\ Sleepers \cap (Joiners \cup parked \cup Executing) = {}
    /\ Joiners \cap (parked \cup Executing) = {}
    /\ parked \cap Executing = {}

\* No thread is lost and no freed UTHREAD is reachable: the allocated threads
\* are exactly those the scheduler's places hold (InternalExit frees only
\* what nothing refers to any more).
NoThreadLost ==
    live = ToSet(ReadyQueue) \cup Sleepers \cup Joiners \cup parked \cup Executing

\* NumberOfThreads, which UtRun asserts to be 0, counts the allocated threads;
\* between UtExit's decrement and the switch away one thread more is allocated.
CountMatches ==
    Cardinality(live) = NumberOfThreads + (IF phase = "exit" THEN 1 ELSE 0)

\* The 2^32 milliseconds between two wraps of GetTickCount().
Epoch(ms) == ms \div TickModulus

\* UtSleep keeps the sleep queue in wake order, so the one block that
\* WakeSleepThread looks at is due first among those of an epoch.
SleepQueueSorted ==
    \A i, j \in DOMAIN SleepQueue :
        i < j /\ Epoch(SleepQueue[i].due) = Epoch(SleepQueue[j].due)
            => SleepQueue[i].due <= SleepQueue[j].due

\* UtSleep is a timed wait: nobody leaves the sleep queue before the
\* milliseconds asked for have gone by, unless they end after the next wrap of
\* the clock (line 284 adds in 32 bits; such a sleep may end at once).
NoEarlyWake ==
    [][\A i \in DOMAIN SleepQueue :
          SleepQueue[i].thread \notin Sleepers' =>
              SleepQueue[i].due <= now \/ Epoch(SleepQueue[i].due) > Epoch(now)]_vars

\* A joiner is let go only by the exit of the thread it joined, and becomes
\* ready in that step (UtJoin may return 0 only when its target is gone).
JoinOnlyAfterExit ==
    [][\A i \in DOMAIN WaitQueue :
          WaitQueue[i].joiner \notin Joiners' =>
             /\ phase' = "exit" /\ RunningThread = WaitQueue[i].target
             /\ WaitQueue[i].joiner \in ToSet(ReadyQueue)']_vars

\* The assertions at the end of UtRun: it "resumes execution only when all user
\* threads have exited".  Holds when no thread parks itself and each thread
\* is joined by at most one other, without cycles.
RunEndsClean ==
    phase = "user" /\ RunningThread = Main =>
        ReadyQueue = <<>> /\ SleepQueue = <<>> /\ NumberOfThreads = 0

Resumed(t) == phase = "user" /\ RunningThread = t

\* It does not happen for ever that each Schedule() finds a sleeper due.
SchedulesWithoutWake ==
    <>[][~Schedule]_vars \/ []<><<Schedule /\ ~SleeperDue>>_vars

\* A thread in the ready queue of a running scheduler is resumed, although woken
\* sleepers are put in front of it and the others may yield for ever: unless from
\* some moment on each Schedule() wakes a sleeper.  Then it need not be: a thread
\* that calls UtSleep(0) for ever, or two that in turn work for a millisecond and
\* UtSleep(1), find the sleeper due each time, who goes to the head of the queue
\* (lines 134-139, 306), and the rest is never reached.
ReadyThreadRuns ==
    SchedulesWithoutWake =>
        \A t \in Threads :
            t \in ToSet(ReadyQueue) /\ RunningThread # NoThread ~> Resumed(t)

\* A sleeper is resumed, although each Schedule() wakes at most one and a
\* thread alone in the ready queue never lets Schedule() run by yielding.
SleeperRuns == ProgramsEnd => \A t \in Threads : t \in Sleepers ~> Resumed(t)

\* A thread blocked in UtJoin is resumed.  (At most one joiner, no cycles.)
JoinerRuns == ProgramsEnd => \A t \in Threads : t \in Joiners ~> Resumed(t)

\* UtRun comes back to main(): ExtractNextReadyThread does not spin for ever.
UtRunReturns == ProgramsEnd => (RunningThread # NoThread ~> RunningThread = NoThread)
=============================================================================
