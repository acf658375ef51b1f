--------------------------- MODULE PollerStartup ---------------------------
(***************************************************************************)
(* The constructor of NotificationPoller against the first statement of the   *)
(* thread it starts.  Members are initialised in the order of declaration:    *)
(* the thread runs before m_mutex and m_cv are constructed and before the     *)
(* constructor's body fills the CPU set that the thread pins itself to.       *)
(***************************************************************************)
EXTENDS FiniteSets

CONSTANT CPUs

VARIABLES
    cpu,        \* the CPU set; it is never cleared, so it starts as anything
    pc,         \* where the constructor is
    started,    \* the thread exists and has not pinned itself yet
    pinned,     \* the thread is past its sched_setaffinity
    affinity    \* the CPUs each of the two threads may run on

vars == <<cpu, pc, started, pinned, affinity>>

\* sched_setaffinity(0, ..): a set without a CPU is refused, which neither
\* caller looks at.
SetAffinity(who) ==
    affinity' = [affinity EXCEPT ![who] = IF cpu = {} THEN @ ELSE cpu]

\* m_thread{..}: a thread inherits the affinity of its creator.
StartThread ==
    /\ pc = "m_thread"
    /\ started' = TRUE
    /\ affinity' = [affinity EXCEPT !["poller"] = affinity["user"]]
    /\ pc' = "m_mutex"
    /\ UNCHANGED <<cpu, pinned>>

\* m_mutex{}, m_cv{}
ConstructMembers ==
    /\ pc = "m_mutex"
    /\ pc' = "body"
    /\ UNCHANGED <<cpu, started, pinned, affinity>>

\* CPU_SET(sched_getcpu(), &cpu)
CpuSet ==
    /\ pc = "body"
    /\ \E c \in affinity["user"] : cpu' = cpu \union {c}
    /\ pc' = "pin"
    /\ UNCHANGED <<started, pinned, affinity>>

Pin ==
    /\ pc = "pin"
    /\ SetAffinity("user")
    /\ pc' = "done"
    /\ UNCHANGED <<cpu, started, pinned>>

\* The first statement of poll_notifications().
PollerPin ==
    /\ started /\ ~pinned
    /\ SetAffinity("poller")
    /\ pinned' = TRUE
    /\ UNCHANGED <<cpu, pc, started>>

Init ==
    /\ cpu \in SUBSET CPUs
    /\ pc = "m_thread"
    /\ started = FALSE /\ pinned = FALSE
    /\ affinity = [t \in {"user", "poller"} |-> CPUs]

Next == StartThread \/ ConstructMembers \/ CpuSet \/ Pin \/ PollerPin

Spec == Init /\ [][Next]_vars

\* notification_poller.h:34: the CPU set is "Used to restrict process to single
\* CPU": once both threads have pinned themselves they share one CPU.
SingleCpu ==
    pc = "done" /\ pinned =>
        /\ affinity["user"] = affinity["poller"]
        /\ Cardinality(affinity["user"]) = 1
=============================================================================
