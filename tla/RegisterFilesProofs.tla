------------------------- MODULE RegisterFilesProofs -------------------------
(***************************************************************************)
(* Proofs about RegisterFiles: for every word the hardware returns and every *)
(* sequence of setters, the classes whose setters replace the bits of their   *)
(* field, or that have a single field, keep their fields and their word in    *)
(* step.                                                                    *)
(***************************************************************************)
EXTENDS RegisterFiles, TLAPS

\* All classes but Info and the two NotificationBehaviours.
Synchronized == {"HostEndpoint", "Address", "Size", "Flag", "CounterReset"}

\* What was shifted up comes back when it is shifted down.
LEMMA ShiftedBack ==
  ASSUME NEW v \in SUBSET Nat, NEW lo \in Nat, NEW width \in Nat, lo + width <= 64,
         NEW b \in 0 .. width - 1
  PROVE  b + lo \in ShiftUp(Low(v, width), lo) <=> b \in v
<1>1. b + lo \in Word /\ (b + lo) - lo = b /\ b < width
  BY DEF Word
<1> QED BY <1>1 DEF ShiftUp, Low

LEMMA LowBits ==
  ASSUME NEW v \in SUBSET Nat, NEW width \in Nat
  PROVE  Low(v, width) = {b \in 0 .. width - 1 : b \in v}
<1>1. ASSUME NEW b \in v PROVE b < width <=> b \in 0 .. width - 1
  <2>1. b \in Nat
    OBVIOUS
  <2> QED BY <2>1
<1> QED BY <1>1 DEF Low

\* A field reads as the low bits of the value it was replaced by.
LEMMA GetReplaced ==
  ASSUME NEW w \in SUBSET Word, NEW v \in SUBSET Nat,
         NEW lo \in Nat, NEW width \in Nat, lo + width <= 64
  PROVE  Get(Replace(w, lo, width, v), lo, width) = Low(v, width)
<1>1. ASSUME NEW b \in 0 .. width - 1
      PROVE  b + lo \in Replace(w, lo, width, v) <=> b \in v
  <2>1. ~(b + lo < lo \/ b + lo >= lo + width)
    OBVIOUS
  <2> QED BY <2>1, ShiftedBack DEF Replace
<1> QED BY <1>1, LowBits DEF Get

\* The bits of a field that does not overlap the replaced one stay.
LEMMA GetBesides ==
  ASSUME NEW w \in SUBSET Word, NEW v \in SUBSET Nat,
         NEW lo \in Nat, NEW width \in Nat, lo + width <= 64,
         NEW lo2 \in Nat, NEW width2 \in Nat,
         lo2 + width2 <= lo \/ lo + width <= lo2
  PROVE  Get(Replace(w, lo, width, v), lo2, width2) = Get(w, lo2, width2)
  BY DEF Get, Replace, Low, ShiftUp, Word

\* A word overwritten by one field reads as that field.
LEMMA GetOverwritten ==
  ASSUME NEW w, NEW v \in SUBSET Nat, NEW lo \in Nat, NEW width \in Nat,
         lo + width <= 64
  PROVE  Get(Overwrite(w, lo, width, v), lo, width) = Low(v, width)
<1>1. ASSUME NEW b \in 0 .. width - 1
      PROVE  b + lo \in Overwrite(w, lo, width, v) <=> b \in v
  BY ShiftedBack DEF Overwrite
<1> QED BY <1>1, LowBits DEF Get

LEMMA SetterStaysInWord ==
  ASSUME NEW w \in SUBSET Word, NEW v \in SUBSET Nat, NEW lo, NEW width
  PROVE  /\ Replace(w, lo, width, v) \in SUBSET Word
         /\ Overwrite(w, lo, width, v) \in SUBSET Word
  BY DEF Replace, Overwrite, ShiftUp, Word

-----------------------------------------------------------------------------
IInv ==
    /\ class \in Classes
    /\ raw \in SUBSET Word
    /\ fields = [f \in DOMAIN Layout(class) |-> Getter(class, raw, f)]

OneField == {"Address", "Size", "Flag", "CounterReset"}

LEMMA OneFieldLayout ==
  ASSUME NEW c \in OneField, NEW f \in DOMAIN Layout(c)
  PROVE  /\ \A g \in DOMAIN Layout(c) : g = f
         /\ Layout(c)[f].lo = 0
         /\ Layout(c)[f].width \in 0..64
<1>1. CASE c = "Address"
  BY <1>1 DEF Layout, Address, Field
<1>2. CASE c = "Size"
  BY <1>2 DEF Layout, Size, Field
<1>3. CASE c = "Flag"
  BY <1>3 DEF Layout, Flag, Field
<1>4. CASE c = "CounterReset"
  BY <1>4 DEF Layout, CounterReset, Field
<1> QED BY <1>1, <1>2, <1>3, <1>4 DEF OneField

LEMMA SingleField ==
  ASSUME NEW w \in SUBSET Word, NEW v \in SUBSET Nat,
         NEW c \in OneField, NEW f \in DOMAIN Layout(c)
  PROVE  /\ Setter(c, w, f, v) \in SUBSET Word
         /\ Getter(c, Setter(c, w, f, v), f) = Low(v, Layout(c)[f].width)
<1> DEFINE width == Layout(c)[f].width
<1>1. Layout(c)[f].lo = 0 /\ width \in Nat /\ 0 + width <= 64
  BY OneFieldLayout
<1>2. \/ Setter(c, w, f, v) = Replace(w, 0, width, v)
      \/ Setter(c, w, f, v) = Overwrite(w, 0, width, v)
  BY <1>1 DEF Setter, OneField, Replacing, Overwriting
<1>3. \A s : Getter(c, s, f) = Get(s, 0, width)
  BY <1>1 DEF Getter
<1> HIDE DEF width
<1>4. /\ Get(Replace(w, 0, width, v), 0, width) = Low(v, width)
      /\ Get(Overwrite(w, 0, width, v), 0, width) = Low(v, width)
  BY <1>1, GetReplaced, GetOverwritten
<1>5. Setter(c, w, f, v) \in SUBSET Word
  BY <1>2, SetterStaysInWord
<1>6. Getter(c, Setter(c, w, f, v), f) = Low(v, width)
  BY <1>2, <1>3, <1>4
<1> QED BY <1>5, <1>6 DEF width

LEMMA HostEndpointFields ==
  ASSUME NEW w \in SUBSET Word, NEW v \in SUBSET Nat,
         NEW f \in DOMAIN HostEndpoint
  PROVE  /\ Setter("HostEndpoint", w, f, v) \in SUBSET Word
         /\ Getter("HostEndpoint", Setter("HostEndpoint", w, f, v), f)
              = Low(v, HostEndpoint[f].width)
         /\ \A g \in DOMAIN HostEndpoint \ {f} :
              Getter("HostEndpoint", Setter("HostEndpoint", w, f, v), g)
                = Getter("HostEndpoint", w, g)
<1>1. Layout("HostEndpoint") = HostEndpoint
  BY DEF Layout
<1>2. \A g \in DOMAIN HostEndpoint :
        /\ HostEndpoint[g].lo \in Nat /\ HostEndpoint[g].width \in Nat
        /\ HostEndpoint[g].lo + HostEndpoint[g].width <= 64
  BY DEF HostEndpoint, Field
<1>3. \A g \in DOMAIN HostEndpoint \ {f} :
        \/ HostEndpoint[g].lo + HostEndpoint[g].width <= HostEndpoint[f].lo
        \/ HostEndpoint[f].lo + HostEndpoint[f].width <= HostEndpoint[g].lo
  BY DEF HostEndpoint, Field
<1>4. Setter("HostEndpoint", w, f, v)
        = Replace(w, HostEndpoint[f].lo, HostEndpoint[f].width, v)
  BY <1>1 DEF Setter, Replacing
<1>5. \A u : \A g \in DOMAIN HostEndpoint :
        Getter("HostEndpoint", u, g) = Get(u, HostEndpoint[g].lo, HostEndpoint[g].width)
  BY <1>1 DEF Getter
<1> HIDE DEF HostEndpoint
<1>6. Setter("HostEndpoint", w, f, v) \in SUBSET Word
  BY <1>4, SetterStaysInWord
<1>7. Getter("HostEndpoint", Setter("HostEndpoint", w, f, v), f)
        = Low(v, HostEndpoint[f].width)
  BY <1>2, <1>4, <1>5, GetReplaced
<1>8. ASSUME NEW g \in DOMAIN HostEndpoint \ {f}
      PROVE  Getter("HostEndpoint", Setter("HostEndpoint", w, f, v), g)
               = Getter("HostEndpoint", w, g)
  BY <1>2, <1>3, <1>4, <1>5, GetBesides
<1> QED BY <1>6, <1>7, <1>8

\* Whatever fields are set in whatever order, every field reads as what it
\* was last set to, in all classes but Info and NotificationBehaviour.
THEOREM FieldsStayInSync ==
  ASSUME Classes \subseteq Synchronized
  PROVE  Spec => []FieldsInSync
<1>1. Init => IInv
  BY RegisterAssumption DEF Init, IInv
<1>2. IInv /\ [Next]_vars => IInv'
  <2> SUFFICES ASSUME IInv, [Next]_vars PROVE IInv'
    OBVIOUS
  <2>1. CASE UNCHANGED vars
    BY <2>1 DEF IInv, vars
  <2>2. ASSUME NEW f \in DOMAIN Layout(class), NEW v \in Arguments, Set(f, v)
        PROVE  IInv'
    <3>1. v \in SUBSET Nat /\ class \in Synchronized /\ class' = class
      BY <2>2, RegisterAssumption DEF IInv, Set
    <3>2. raw' \in SUBSET Word
      BY <2>2, <3>1, SingleField, HostEndpointFields
      DEF Set, IInv, Synchronized, OneField, Layout
    <3>3. \A g \in DOMAIN Layout(class) :
            Getter(class, raw', g) = IF g = f THEN Low(v, Layout(class)[f].width)
                                     ELSE Getter(class, raw, g)
      <4>1. CASE class = "HostEndpoint"
        BY <2>2, <3>1, <4>1, HostEndpointFields DEF Set, IInv, Layout
      <4>2. CASE class # "HostEndpoint"
        <5>1. class \in OneField /\ raw \in SUBSET Word
          BY <3>1, <4>2 DEF IInv, Synchronized, OneField
        <5>2. \A g \in DOMAIN Layout(class) : g = f
          BY <5>1, OneFieldLayout
        <5>3. Getter(class, Setter(class, raw, f, v), f) = Low(v, Layout(class)[f].width)
          BY <3>1, <5>1, SingleField
        <5>4. Getter(class, raw', f) = Low(v, Layout(class)[f].width)
          BY <2>2, <5>3 DEF Set
        <5> QED BY <5>2, <5>4
      <4> QED BY <4>1, <4>2
    <3>4. fields' = [fields EXCEPT ![f] = Low(v, Layout(class)[f].width)]
      BY <2>2 DEF Set
    <3>5. fields' = [g \in DOMAIN Layout(class) |-> Getter(class, raw', g)]
      BY <3>3, <3>4 DEF IInv
    <3> QED BY <3>1, <3>2, <3>5 DEF IInv
  <2> QED BY <2>1, <2>2 DEF Next
<1>3. IInv => FieldsInSync
  BY DEF IInv, FieldsInSync
<1> QED BY <1>1, <1>2, <1>3, PTL DEF Spec
=============================================================================
