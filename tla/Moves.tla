-------------------------------- MODULE Moves --------------------------------
(***************************************************************************)
(* Moves of Connection, PhysicalBuffer and RingBuffer.  Their move            *)
(* constructors are defaulted and their members are raw pointers and          *)
(* numbers, so a move copies the members and leaves the source as it was;     *)
(* the destructor of each of the two objects releases what the members name.  *)
(* (Endpoint is not movable in fact: NotificationPoller is not.)              *)
(***************************************************************************)
EXTENDS Naturals, FiniteSets

CONSTANTS Objects,     \* places for objects
          MaxOpened    \* bound: objects constructed other than by a move

Classes == {"Connection", "PhysicalBuffer", "RingBuffer"}

\* What the constructor acquires and the destructor releases.
Resources(class) ==
    CASE class = "Connection"     -> {"port", "handle"}
      [] class = "PhysicalBuffer" -> {"mapping"}
      [] class = "RingBuffer"     -> {"region", "memory"}

Dead == [class |-> "none", members |-> {}]

VARIABLES
    object,     \* the object at each place
    opened,     \* objects constructed so far
    released    \* how often each resource was released

vars == <<object, opened, released>>

Construct(o, class) ==
    /\ object[o] = Dead
    /\ opened < MaxOpened
    /\ opened' = opened + 1
    /\ object' = [object EXCEPT ![o] =
                    [class |-> class, members |-> {opened} \X Resources(class)]]
    /\ UNCHANGED released

\* Class(Class&&) = default
Move(from, to) ==
    /\ object[from] # Dead /\ object[to] = Dead
    /\ object' = [object EXCEPT ![to] = object[from]]
    /\ UNCHANGED <<opened, released>>

Destruct(o) ==
    /\ object[o] # Dead
    /\ released' = [r \in DOMAIN released |->
                      released[r] + IF r \in object[o].members THEN 1 ELSE 0]
    /\ object' = [object EXCEPT ![o] = Dead]
    /\ UNCHANGED opened

Init ==
    /\ object = [o \in Objects |-> Dead]
    /\ opened = 0
    /\ released = [r \in (0 .. MaxOpened - 1) \X UNION {Resources(c) : c \in Classes} |-> 0]

Next ==
    \/ \E o \in Objects, class \in Classes : Construct(o, class)
    \/ \E from, to \in Objects : Move(from, to)
    \/ \E o \in Objects : Destruct(o)

Spec == Init /\ [][Next]_vars

\* connection.h:34, buffer.h:45 and buffer.h:105: "This class is moveable": a
\* port, handle, mapping, region or allocation is released at most once.
ReleasedOnce == \A r \in DOMAIN released : released[r] <= 1
=============================================================================
