----------------------------- MODULE BitFields -----------------------------
(***************************************************************************)
(* The shifts and masks of the register file classes.  A word or a value is  *)
(* the set of its bits that are one, so & is intersection, | is union and    *)
(* << adds to every position.                                                *)
(***************************************************************************)
EXTENDS Integers

Word == 0..63

\* v & (2^width - 1), and v << lo in 64 bits.
Low(v, width)  == {b \in v : b < width}
ShiftUp(v, lo) == {b \in Word : b - lo \in v}

\* raw >> lo & (2^width - 1)
Get(raw, lo, width) == {b \in 0 .. width - 1 : b + lo \in raw}

\* Faulty variant: a mask one bit too wide.
ReplaceWide(raw, lo, width, v) ==
    {b \in raw : b < lo \/ b > lo + width} \union ShiftUp(Low(v, width), lo)

\* raw &= ~(mask << lo); raw |= (value & mask) << lo;
Replace(raw, lo, width, v) ==
    {b \in raw : b < lo \/ b >= lo + width} \union ShiftUp(Low(v, width), lo)

\* raw |= (value & mask) << lo;
Merge(raw, lo, width, v) == raw \union ShiftUp(Low(v, width), lo)

\* raw = uint64_t(value) << lo;
Overwrite(raw, lo, width, v) == ShiftUp(Low(v, width), lo)
=============================================================================
