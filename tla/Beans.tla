-------------------------------- MODULE Beans --------------------------------
(***************************************************************************)
(* The bean container (bean/beans.py) and the suppliers it is used         *)
(* through (utils/supplier.py) in a Lambda function whose threads ask for  *)
(* beans for the first time at the same time.  Building a bean asks for    *)
(* the beans it needs, under the bean's own lock; a bean that the          *)
(* function's profile leaves out cannot be built.                          *)
(*                                                                         *)
(* A node is a bean or a supplier.  A thread's stack holds the nodes it is *)
(* waiting for, each with the point it has reached in get_instance or get. *)
(***************************************************************************)
EXTENDS BeanTable, Integers, FiniteSets, SequencesExt

CONSTANTS
    Threads,
    MaxCalls,       \* bound on the calls of a thread
    MaxFaults       \* bound on loaders that fail

ASSUME BeanBoundsAssumption == MaxCalls \in Nat /\ MaxFaults \in Nat

VARIABLES
    profile,        \* ACTIVE_PROFILES
    queueUrl,       \* SQS_PUSH_NOTIFICATION_QUEUE_URL is set
    built,          \* nodes with __initialized, or __value_set
    mutex,          \* nodes whose __mutex is not None
    held,           \* <<n, t>>: t holds the RLock of n
    stack,          \* of each thread, the innermost node last
    calls,          \* calls each thread has made
    remade,         \* history: nodes whose value was made more than once
    handed,         \* history: nodes given to a caller before they had a value
    failed,         \* history: <<t, node>>, calls that raised
    faults          \* history: loaders that failed

beansVars == <<profile, queueUrl, built, mutex, held, stack, calls, remade, handed, failed, faults>>

Frames == [node : Nodes, pc : {"check", "mutex", "lock", "init", "clear", "unlock", "fail"}, next : Nat \ {0}]

BeansTypeOK ==
    /\ profile \in Profiles /\ queueUrl \in BOOLEAN
    /\ built \subseteq Nodes /\ mutex \subseteq Nodes /\ held \subseteq Nodes \X Threads
    /\ \A t \in Threads : \A i \in DOMAIN stack[t] : stack[t][i] \in Frames
    /\ calls \in [Threads -> 0..MaxCalls] /\ remade \subseteq Nodes /\ handed \subseteq Nodes
    /\ failed \subseteq Threads \X Nodes /\ faults \in 0..MaxFaults

(* Whether the variable may be set. *)
Urls(p) == IF p \in PushProfiles THEN BOOLEAN ELSE {FALSE}

BeansInit ==
    /\ profile \in Profiles
    /\ queueUrl \in Urls(profile)
    /\ built = {} /\ mutex = DOMAIN Suppliers
    /\ held = {}
    /\ stack = [t \in Threads |-> <<>>] /\ calls = [t \in Threads |-> 0]
    /\ remade = {} /\ handed = {} /\ failed = {} /\ faults = 0

(* What a node asks for, by name or by type. *)
Declared(n) ==
    IF n \in DOMAIN Suppliers THEN Suppliers[n]
    ELSE IF n \in DOMAIN Injected THEN Injected[n] ELSE <<>>

(* _set_name: not in the profile p, or its variable is not set. *)
DisabledIn(p, url, n) ==
    /\ n \in Beans
    /\ p \notin ProfilesOf[n] \/ (n = "SQS_PUSH_NOTIFIER" /\ ~url)

NeedsIn(p, url, n) ==
    SelectSeq(Declared(n), LAMBDA d : (n \in DOMAIN ByType /\ d \in ToSet(ByType[n])) => ~DisabledIn(p, url, d))

Disabled(n) == DisabledIn(profile, queueUrl, n)

(* A fault for Needs: get_beans_with_matching_type ignores __disabled. *)
NeedsDisabledToo(n) == Declared(n)

(* load_bean_args *)
Needs(n) == NeedsIn(profile, queueUrl, n)

(* The function whose profile lacks a bean that its code asks for: the     *)
(* credentials of Firebase need ADMIN_CLIENT, a bean of the web profile.   *)
GapIn(p, call) == p = "notification-publisher" /\ call = "gcp_app"
Gap(call) == GapIn(profile, call)

(* How deep loaders go, and what a call asks for on its way. *)
Depth[n \in Nodes] ==
    IF Declared(n) = <<>> THEN 0 ELSE 1 + Max({Depth[d] : d \in ToSet(Declared(n))})

Reach(p, url) ==
    LET reach[n \in Nodes] == {n} \cup UNION {reach[d] : d \in ToSet(NeedsIn(p, url, n))}
    IN  reach

(* The wiring: what a loader asks for is declared, and loaders need each   *)
(* other without a cycle; a call finds all it asks for active, but for the *)
(* gap.                                                                    *)
ASSUME WiringAssumption ==
    \A p \in Profiles : \A url \in Urls(p) :
        /\ \A n \in Nodes :
            /\ NeedsIn(p, url, n) \in Seq(Nodes) /\ Depth[n] \in Nat
            /\ \A d \in ToSet(NeedsIn(p, url, n)) : Depth[d] < Depth[n]
            /\ n \in Reach(p, url)[n]
            /\ \A m \in Reach(p, url)[n] : ToSet(NeedsIn(p, url, m)) \subseteq Reach(p, url)[n]
        /\ \A call \in Calls[p] :
            /\ call \in Nodes
            /\ GapIn(p, call) \/ \A n \in Reach(p, url)[call] : ~DisabledIn(p, url, n)

-----------------------------------------------------------------------------
Top(t) == Last(stack[t])
At(t, pc) == stack[t] # <<>> /\ Top(t).pc = pc
Goto(t, pc) == stack' = [stack EXCEPT ![t][Len(stack[t])].pc = pc]
Holders(n) == {t \in Threads : <<n, t>> \in held}
Entered(n) == [node |-> n, pc |-> "check", next |-> 1]

(* The innermost node's get_instance, or get, returns: the loader that     *)
(* asked for it goes on.                                                   *)
Returns(t) ==
    LET rest == Front(stack[t]) IN
    /\ stack' = [stack EXCEPT ![t] = IF rest = <<>> THEN rest
                                     ELSE [rest EXCEPT ![Len(rest)].next = @ + 1]]
    /\ handed' = IF Top(t).node \in built THEN handed ELSE handed \cup {Top(t).node}
    /\ UNCHANGED failed

(* It raises: the loader that asked for it fails in its turn. *)
Raises(t) ==
    LET rest == Front(stack[t]) IN
    /\ stack' = [stack EXCEPT ![t] = IF rest = <<>> THEN rest
                                     ELSE [rest EXCEPT ![Len(rest)].pc = "fail"]]
    /\ failed' = IF rest = <<>> THEN failed \cup {<<t, Top(t).node>>} ELSE failed
    /\ UNCHANGED handed

Call(t) ==
    /\ stack[t] = <<>> /\ calls[t] < MaxCalls
    /\ \E n \in Calls[profile] : stack' = [stack EXCEPT ![t] = <<Entered(n)>>]
    /\ calls' = [calls EXCEPT ![t] = @ + 1]
    /\ UNCHANGED <<profile, queueUrl, built, mutex, held, remade, handed, failed, faults>>

(* if not self.__initialized / if not self.__value_set *)
Check(t) ==
    /\ At(t, "check")
    /\ IF Top(t).node \in built THEN Returns(t) ELSE Goto(t, "mutex") /\ UNCHANGED <<handed, failed>>
    /\ UNCHANGED <<profile, queueUrl, built, mutex, held, calls, remade, faults>>

(* __execute_with_lock reads the mutex and, under the global one, makes it *)
(* unless the bean has come up; a supplier without its mutex has a value.  *)
ReadMutex(t) ==
    LET n == Top(t).node IN
    /\ At(t, "mutex")
    /\ IF n \in mutex \/ (n \in Beans /\ n \notin built)
       THEN Goto(t, "lock") /\ mutex' = mutex \cup {n} /\ UNCHANGED <<handed, failed>>
       ELSE Returns(t) /\ UNCHANGED mutex
    /\ UNCHANGED <<profile, queueUrl, built, held, calls, remade, faults>>

(* A fault for UnderLock: the second look at __initialized is missing. *)
UnderLockNoSecondLook(n) == IF Disabled(n) THEN "fail" ELSE "init"

(* What is left to do for the thread that has got the lock. *)
UnderLock(n) ==
    IF n \notin mutex \/ n \in built THEN "unlock"
    ELSE IF Disabled(n) THEN "fail" ELSE "init"

(* with m: ...  The lock is reentrant: a thread that comes back to a bean  *)
(* it is building fails on __init_in_progress.                             *)
Lock(t) ==
    LET n == Top(t).node IN
    /\ At(t, "lock")
    /\ \/ /\ Holders(n) = {}
          /\ held' = held \cup {<<n, t>>}
          /\ Goto(t, UnderLock(n)) /\ UNCHANGED <<handed, failed>>
       \/ Holders(n) = {t} /\ Raises(t) /\ UNCHANGED held
    /\ UNCHANGED <<profile, queueUrl, built, mutex, calls, remade, faults>>

(* _LazyLoader.invoke: the loader's next argument *)
Ask(t) ==
    /\ At(t, "init") /\ Top(t).next <= Len(Needs(Top(t).node))
    /\ stack' = [stack EXCEPT ![t] = Append(@, Entered(Needs(Top(t).node)[Top(t).next]))]
    /\ UNCHANGED <<profile, queueUrl, built, mutex, held, calls, remade, handed, failed, faults>>

Ready(t) == Top(t).next > Len(Needs(Top(t).node))

(* The loader itself runs: it makes the value or it raises. *)
Construct(t) ==
    LET n == Top(t).node IN
    /\ At(t, "init") /\ Ready(t)
    /\ \/ /\ built' = built \cup {n}
          /\ remade' = remade \cup ({n} \cap built)
          /\ Goto(t, "clear") /\ UNCHANGED faults
       \/ /\ faults < MaxFaults /\ faults' = faults + 1
          /\ Goto(t, "fail") /\ UNCHANGED <<built, remade>>
    /\ UNCHANGED <<profile, queueUrl, mutex, held, calls, handed, failed>>

(* self.__mutex = None.  The Firebase application keeps its mutex. *)
Clear(t) ==
    /\ At(t, "clear")
    /\ mutex' = IF Top(t).node = "gcp_app" THEN mutex ELSE mutex \ {Top(t).node}
    /\ Goto(t, "unlock")
    /\ UNCHANGED <<profile, queueUrl, built, held, calls, remade, handed, failed, faults>>

Unlock(t) ==
    /\ At(t, "unlock")
    /\ held' = held \ {<<Top(t).node, t>>}
    /\ Returns(t)
    /\ UNCHANGED <<profile, queueUrl, built, mutex, calls, remade, faults>>

(* A fault for Released: an exception leaves the lock taken. *)
ReleasedOnlyOnSuccess(t) == held

Released(t) == held \ {<<Top(t).node, t>>}

(* BeanInitializationException: the lock is released, the mutex stays.  *)
Fail(t) ==
    /\ At(t, "fail")
    /\ held' = Released(t)
    /\ Raises(t)
    /\ UNCHANGED <<profile, queueUrl, built, mutex, calls, remade, faults>>

Step(t) == Check(t) \/ ReadMutex(t) \/ Lock(t) \/ Ask(t) \/ Construct(t) \/ Clear(t) \/ Unlock(t) \/ Fail(t)

BeansNext == \E t \in Threads : Call(t) \/ Step(t)

BeansSpec == BeansInit /\ [][BeansNext]_beansVars

-----------------------------------------------------------------------------
(* However many threads ask for a bean, or call an injected function, for  *)
(* the first time at once (get_instance, __execute_with_lock,              *)
(* MemoizedSupplier.get), its value is made once and only when everything  *)
(* it is to be made from has a value, and nobody is handed it before.      *)
MadeOnceFromWhole ==
    /\ BeansTypeOK
    /\ remade = {} /\ handed = {}
    /\ \A n \in built : ToSet(Needs(n)) \subseteq built

(* In every Lambda function every call finds its beans active, the one     *)
(* gap aside: a loader that raises fails the calls of the one thread that  *)
(* ran it, and a bean it left unbuilt is built for the next that asks.     *)
FailuresPaidFor == Cardinality({f \in failed : ~Gap(f[2])}) <= faults

(* A call waits only for a lock that another call still has, and never all *)
(* calls for each other: the locks of beans are taken in the order in      *)
(* which beans need each other, and that order has no cycle, because       *)
(* @inject(beans=...) hands over Beans where it would have one.            *)
Waits(t) == At(t, "lock") /\ Holders(Top(t).node) \notin {{}, {t}}

CallsEnd ==
    \A t \in Threads : Waits(t) =>
        /\ \A u \in Holders(Top(t).node) : \E i \in DOMAIN stack[u] : stack[u][i].node = Top(t).node
        /\ \E u \in Threads : stack[u] # <<>> /\ ~Waits(u)
=============================================================================
