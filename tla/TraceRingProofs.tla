--------------------------- MODULE TraceRingProofs ---------------------------
(***************************************************************************)
(* Theorems about the execution trace, for a ring of any capacity, any     *)
(* buffer and any number of records, however a reader races the writer.    *)
(*                                                                         *)
(* Inv says of the ring that a slot holds a record of its own, and one at  *)
(* least as new as any record already counted; of a copy, that it holds    *)
(* only records of slots it has passed.  The rest is arithmetic: numbers   *)
(* less than a ring apart are in different slots.                          *)
(***************************************************************************)
EXTENDS TraceRing, SequenceTheorems, TLAPS

-----------------------------------------------------------------------------
(* Remainders.                                                             *)

LEMMA DivMod ==
  ASSUME NEW c \in Nat \ {0}, NEW x \in Int
  PROVE  x % c \in 0..(c - 1) /\ x = c * (x \div c) + (x % c) /\ (x \div c) \in Int
OBVIOUS

LEMMA Gap ==
  ASSUME NEW c \in Nat \ {0}, NEW k \in Int, c * k < c, c * k > 0 - c
  PROVE  k = 0
<1>1. CASE k >= 1
  <2>1. c * k >= c
    BY <1>1
  <2> QED
    BY <2>1
<1>2. CASE k <= 0 - 1
  <2>1. c * k <= 0 - c
    BY <1>2
  <2> QED
    BY <2>1
<1> QED
  BY <1>1, <1>2

(* Two numbers less than a ring apart that share a slot are the same.      *)
LEMMA Near ==
  ASSUME NEW c \in Nat \ {0}, NEW x \in Int, NEW y \in Int,
         x % c = y % c, x <= y, y < x + c
  PROVE  x = y
<1> DEFINE p == x \div c
           q == y \div c
           r == x % c
<1>1. x = c * p + r /\ y = c * q + r /\ p \in Int /\ q \in Int /\ r \in Int
  BY DivMod
<1> HIDE DEF p, q, r
<1>2. y - x = c * (q - p)
  BY <1>1
<1>3. c * (q - p) < c /\ c * (q - p) > 0 - c /\ q - p \in Int
  BY <1>1, <1>2
<1>4. q - p = 0
  BY <1>3, Gap
<1>5. c * 0 = 0
  OBVIOUS
<1> QED
  BY <1>1, <1>2, <1>4, <1>5

LEMMA SlotType ==
  /\ \A n \in Int : SlotFor(n) \in Slot
  /\ \A n \in Int : n % Capacity \in Slot
<1>1. \A n \in Int : n % Capacity \in Slot
  BY TraceAssumption, DivMod DEF Slot
<1> QED
  BY <1>1 DEF SlotFor

-----------------------------------------------------------------------------
(* The invariant.                                                          *)

(* The newest record in the ring; while the writer is between its stores,  *)
(* one that is not counted yet.                                            *)
Latest == IF storing THEN written + 1 ELSE written

RingOK ==
  /\ storing => written < MaxRecords
  /\ \A s \in Slot : trace[s] # 0 => SlotFor(trace[s]) = s /\ trace[s] <= Latest
  /\ \A n \in 1..Latest : trace[SlotFor(n)] >= n

(* The slots a copy has passed.                                            *)
Passed(s) == \E o \in (offset + 1)..Capacity : s = (loaded - o) % Capacity

CopyOK ==
  /\ offset <= loaded /\ loaded <= written
  /\ offset + Len(copied) <= Capacity
  /\ \A i \in DOMAIN copied : Passed(SlotFor(copied[i]))
  /\ ordered /\ quiet => loaded = written /\ ~storing

Inv ==
  /\ TypeOK
  /\ RingOK
  /\ CopyOK
  /\ NoRecordTwice
  /\ NeverOlderThanAsked
  /\ ExactWhenQuiet

LEMMA AskedEmpty == copied = <<>> => Asked = <<>> /\ DOMAIN copied = {}
BY DEF Asked

LEMMA InvInit == Init => Inv
<1> SUFFICES ASSUME Init PROVE Inv
  OBVIOUS
<1>1. TypeOK
  BY TraceAssumption, EmptySeq DEF Init, TypeOK, Slot, Records
<1>2. RingOK
  BY DEF Init, RingOK, Latest
<1>3. copied = <<>> /\ DOMAIN copied = {} /\ Asked = <<>>
  BY AskedEmpty DEF Init
<1>4. CopyOK
  <2>1. Len(copied) = 0
    BY <1>3
  <2> QED
    BY <1>3, <2>1, TraceAssumption DEF Init, CopyOK
<1>5. NoRecordTwice /\ NeverOlderThanAsked /\ ExactWhenQuiet
  BY <1>3 DEF Init, NoRecordTwice, IsInjective, NeverOlderThanAsked, ExactWhenQuiet
<1> QED
  BY <1>1, <1>2, <1>4, <1>5 DEF Inv

(* The writer.                                                             *)
LEMMA WriterKeepsCopy ==
  ASSUME Inv, UNCHANGED <<ordered, reader>>, quiet' = FALSE,
         written' \in {written, written + 1}
  PROVE  CopyOK' /\ NoRecordTwice' /\ NeverOlderThanAsked' /\ ExactWhenQuiet'
<1>1. CopyOK'
  BY TraceAssumption DEF Inv, TypeOK, Records, CopyOK, Passed, reader
<1>2. NoRecordTwice'
  BY DEF Inv, NoRecordTwice, reader
<1>3. NeverOlderThanAsked'
  BY DEF Inv, NeverOlderThanAsked, Asked, reader
<1>4. ExactWhenQuiet'
  BY DEF ExactWhenQuiet
<1> QED
  BY <1>1, <1>2, <1>3, <1>4

LEMMA StoreSlotKeeps == Inv /\ StoreSlot => Inv'
<1> SUFFICES ASSUME Inv, StoreSlot PROVE Inv'
  OBVIOUS
<1>a. /\ trace \in [Slot -> Records] /\ written \in Records
      /\ ~storing /\ storing' = TRUE /\ written' = written /\ written < MaxRecords
      /\ trace' = [trace EXCEPT ![SlotFor(written + 1)] = written + 1]
  BY DEF Inv, TypeOK, StoreSlot
<1>b. written \in Nat /\ MaxRecords \in Nat /\ written + 1 \in Int
      /\ written + 1 \in Records
  BY <1>a, TraceAssumption DEF Records
<1>c. SlotFor(written + 1) \in Slot
  BY <1>b, SlotType
<1>1. /\ trace \in [Slot -> Records] /\ written \in Nat /\ written < MaxRecords
      /\ written + 1 \in Records /\ MaxRecords \in Nat
      /\ ~storing /\ storing' = TRUE /\ written' = written
      /\ trace' = [trace EXCEPT ![SlotFor(written + 1)] = written + 1]
      /\ SlotFor(written + 1) \in Slot
  BY <1>a, <1>b, <1>c
<1>2. TypeOK'
  BY <1>1 DEF Inv, TypeOK, StoreSlot, reader
<1>3. Latest = written /\ Latest' = written + 1
  BY <1>1 DEF Latest
<1>4. \A s \in Slot : trace'[s] = IF s = SlotFor(written + 1) THEN written + 1 ELSE trace[s]
  BY <1>1
<1>5. \A s \in Slot :
        trace'[s] # 0 => SlotFor(trace'[s]) = s /\ trace'[s] <= Latest'
  <2> SUFFICES ASSUME NEW s \in Slot, trace'[s] # 0
               PROVE  SlotFor(trace'[s]) = s /\ trace'[s] <= Latest'
    OBVIOUS
  <2>1. CASE s = SlotFor(written + 1)
    BY <1>1, <1>3, <1>4, <2>1
  <2>2. CASE s # SlotFor(written + 1)
    <3>1. trace'[s] = trace[s] /\ trace[s] \in Nat
      BY <1>1, <1>4, <2>2 DEF Records
    <3>2. SlotFor(trace[s]) = s /\ trace[s] <= written
      BY <1>3, <3>1 DEF Inv, RingOK
    <3> QED
      BY <1>1, <1>3, <3>1, <3>2
  <2> QED
    BY <2>1, <2>2
<1>6. \A n \in 1..Latest' : trace'[SlotFor(n)] >= n
  <2> SUFFICES ASSUME NEW n \in 1..(written + 1) PROVE trace'[SlotFor(n)] >= n
    BY <1>3
  <2>1. n \in Nat /\ n <= written + 1 /\ SlotFor(n) \in Slot
    BY <1>1, SlotType
  <2>2. CASE SlotFor(n) = SlotFor(written + 1)
    BY <1>1, <1>4, <2>1, <2>2
  <2>3. CASE SlotFor(n) # SlotFor(written + 1)
    <3>1. n \in 1..written
      BY <1>1, <2>3
    <3>2. trace[SlotFor(n)] >= n
      BY <1>3, <3>1 DEF Inv, RingOK
    <3> QED
      BY <1>4, <2>1, <2>3, <3>2
  <2> QED
    BY <2>2, <2>3
<1>7. RingOK'
  BY <1>1, <1>5, <1>6 DEF RingOK
<1> QED
  BY <1>1, <1>2, <1>7, WriterKeepsCopy DEF Inv, StoreSlot

LEMMA StoreCountKeeps == Inv /\ StoreCount => Inv'
<1> SUFFICES ASSUME Inv, StoreCount PROVE Inv'
  OBVIOUS
<1>1. written \in Nat /\ written < MaxRecords /\ MaxRecords \in Nat
  BY TraceAssumption DEF Inv, TypeOK, Records, RingOK, StoreCount
<1>5. written + 1 \in Records
  BY <1>1 DEF Records
<1>2. TypeOK'
  BY <1>5 DEF Inv, TypeOK, StoreCount, reader
<1>3. Latest' = Latest /\ trace' = trace /\ ~storing'
  BY DEF Latest, StoreCount
<1>4. RingOK'
  BY <1>3 DEF Inv, RingOK
<1> QED
  BY <1>2, <1>4, WriterKeepsCopy DEF Inv, StoreCount

-----------------------------------------------------------------------------
(* The reader.                                                             *)

LEMMA WantedType ==
  ASSUME NEW w \in Nat, NEW size \in Sizes
  PROVE  Wanted(w, size) \in 0..Capacity /\ Wanted(w, size) <= w
BY TraceAssumption DEF Wanted, Minimum

LEMMA BeginCopyKeeps ==
  ASSUME Inv, NEW size \in Sizes, BeginCopy(size)
  PROVE  Inv'
<1>1. PICK w \in CountsSeen : loaded' = w /\ offset' = Wanted(w, size)
  BY DEF BeginCopy
<1>2. w \in Nat /\ w <= written /\ w \in Records /\ (ordered => w = written)
  BY <1>1, TraceAssumption DEF CountsSeen, Inv, TypeOK, Records
<1>3. copied' = <<>> /\ DOMAIN copied' = {} /\ Asked' = <<>>
  BY DEF BeginCopy, Asked
<1>4. TypeOK'
  BY <1>1, <1>2, <1>3, WantedType, EmptySeq DEF Inv, TypeOK, BeginCopy, writer
<1>5. RingOK'
  BY DEF Inv, RingOK, Latest, BeginCopy, writer
<1>6. CopyOK'
  <2>1. offset' + Len(copied') <= Capacity
    <3>1. Len(copied') = 0
      BY <1>3
    <3>2. offset' \in 0..Capacity /\ Capacity \in Nat
      BY <1>1, <1>2, WantedType, TraceAssumption
    <3>3. ASSUME NEW c \in Nat, NEW o \in 0..c, NEW l, l = 0
          PROVE  o + l <= c
      BY <3>3
    <3> QED
      BY <3>1, <3>2, <3>3
  <2>2. offset' <= loaded' /\ loaded' <= written'
    BY <1>1, <1>2, WantedType DEF BeginCopy, writer
  <2>3. (ordered /\ quiet => loaded = written /\ ~storing)'
    BY <1>1, <1>2 DEF BeginCopy, writer
  <2> QED
    BY <1>3, <2>1, <2>2, <2>3 DEF CopyOK
<1>7. NoRecordTwice' /\ NeverOlderThanAsked' /\ ExactWhenQuiet'
  BY <1>3 DEF NoRecordTwice, IsInjective, NeverOlderThanAsked, ExactWhenQuiet
<1> QED
  BY <1>4, <1>5, <1>6, <1>7 DEF Inv

(* What a slot may give a reader: nothing, or a record of that slot.       *)
LEMMA SlotGives ==
  ASSUME Inv, NEW n \in SlotValues(SlotOf)
  PROVE  /\ n \in Records
         /\ n # 0 => SlotFor(n) = SlotOf
<1>a. loaded \in Int /\ offset \in Int /\ trace \in [Slot -> Records]
  BY TraceAssumption DEF Inv, TypeOK, Records
<1>b. loaded - offset \in Int
  BY <1>a
<1>c. SlotOf \in Slot
  BY <1>b, SlotType DEF SlotOf
<1>1. SlotOf \in Slot /\ trace[SlotOf] \in Records
  BY <1>a, <1>c
<1>2. CASE ordered
  BY <1>1, <1>2 DEF SlotValues, Inv, RingOK
<1>3. CASE ~ordered
  BY <1>1, <1>3, TraceAssumption DEF SlotValues, Records
<1> QED
  BY <1>2, <1>3

(* A reader that sees stores in order finds the record it asks the slot    *)
(* for, or a newer one of the same slot.                                   *)
LEMMA OrderedGives ==
  ASSUME Inv, ReadSlot, ordered
  PROVE  /\ trace[SlotOf] \in Records /\ trace[SlotOf] # 0
         /\ trace[SlotOf] >= loaded - offset + 1
         /\ SlotOf = SlotFor(loaded - offset + 1)
         /\ quiet => trace[SlotOf] = loaded - offset + 1
<1> DEFINE n == loaded - offset + 1
           v == trace[SlotOf]
<1>1. /\ loaded \in Nat /\ offset \in 1..Capacity /\ offset <= loaded
      /\ loaded <= written /\ written \in Nat /\ Capacity \in Nat \ {0}
  BY TraceAssumption DEF Inv, TypeOK, Records, CopyOK, ReadSlot
<1>2. n \in Nat /\ n \in 1..written /\ n - 1 = loaded - offset
  BY <1>1
<1>3. SlotOf = SlotFor(n) /\ SlotOf \in Slot
  BY <1>1, <1>2, SlotType DEF SlotOf, SlotFor
<1>4. n \in 1..Latest
  BY <1>1, <1>2 DEF Latest
<1>5. v \in Records /\ v >= n
  BY <1>3, <1>4 DEF Inv, TypeOK, RingOK
<1>6. v \in Nat /\ v # 0
  BY <1>2, <1>5, TraceAssumption DEF Records
<1>7. ASSUME quiet PROVE v = n
  <2>1. loaded = written /\ ~storing
    BY <1>7 DEF Inv, CopyOK
  <2>2. v <= written /\ SlotFor(v) = SlotFor(n)
    BY <1>3, <1>6, <2>1 DEF Inv, RingOK, Latest
  <2>3. /\ n - 1 \in Int /\ v - 1 \in Int /\ n - 1 <= v - 1
        /\ v - 1 < n - 1 + Capacity /\ (n - 1) % Capacity = (v - 1) % Capacity
    BY <1>1, <1>2, <1>5, <1>6, <2>1, <2>2 DEF SlotFor
  <2>4. n - 1 = v - 1
    BY <1>1, <2>3, Near
  <2> QED
    BY <1>2, <1>6, <2>4
<1> QED
  BY <1>3, <1>5, <1>6, <1>7

(* A slot still to be read holds none of the records read so far: the two  *)
(* slots are less than a ring apart.                                       *)
LEMMA NewSlot ==
  ASSUME Inv, ReadSlot, NEW i \in DOMAIN copied
  PROVE  SlotFor(copied[i]) # SlotOf
<1>1. /\ loaded \in Nat /\ offset \in 1..Capacity /\ Capacity \in Nat \ {0}
  BY TraceAssumption DEF Inv, TypeOK, Records, ReadSlot
<1>2. PICK o \in (offset + 1)..Capacity :
        SlotFor(copied[i]) = (loaded - o) % Capacity
  BY DEF Inv, CopyOK, Passed
<1>3. /\ loaded - o \in Int /\ loaded - offset \in Int
      /\ loaded - o < loaded - offset
      /\ loaded - offset < loaded - o + Capacity
  BY <1>1
<1> DEFINE x == loaded - o
           y == loaded - offset
<1>4. x \in Int /\ y \in Int /\ x <= y /\ x # y /\ y < x + Capacity
  BY <1>1, <1>3
<1> HIDE DEF x, y
<1>5. x % Capacity # y % Capacity
  BY <1>1, <1>4, Near
<1> QED
  BY <1>2, <1>5 DEF SlotOf, x, y

LEMMA AsFunction ==
  ASSUME NEW S, NEW s \in Seq(S)
  PROVE  s = [i \in 1..Len(s) |-> s[i]]
OBVIOUS

LEMMA ReadSlotKeeps == Inv /\ ReadSlot => Inv'
<1> SUFFICES ASSUME Inv, ReadSlot PROVE Inv'
  OBVIOUS
<1>1. PICK n \in SlotValues(SlotOf) :
        copied' = IF n = 0 THEN copied ELSE Append(copied, n)
  BY DEF ReadSlot
<1>2. n \in Records /\ (n # 0 => SlotFor(n) = SlotOf)
  BY SlotGives
<1>3. /\ offset' = offset - 1 /\ loaded' = loaded /\ quiet' = quiet
      /\ ordered' = ordered /\ UNCHANGED <<trace, written, storing, reading>>
  BY DEF ReadSlot, writer
<1>4. /\ loaded \in Nat /\ offset \in 1..Capacity /\ Capacity \in Nat
      /\ copied \in Seq(Records)
  BY TraceAssumption DEF Inv, TypeOK, Records, ReadSlot
<1>5. CASE n = 0
  <2>1. copied' = copied
    BY <1>1, <1>5
  <2>2. ~ordered
    BY <1>5, OrderedGives DEF SlotValues
  <2>3. TypeOK'
    BY <1>3, <1>4, <2>1 DEF Inv, TypeOK
  <2>4. RingOK'
    BY <1>3 DEF Inv, RingOK, Latest
  <2>5. CopyOK'
    <3>1. Len(copied) \in Nat
      BY <1>4, LenProperties
    <3> QED
      BY <1>3, <1>4, <2>1, <2>2, <3>1 DEF Inv, CopyOK, Passed
  <2>6. NoRecordTwice' /\ NeverOlderThanAsked' /\ ExactWhenQuiet'
    BY <1>3, <2>1, <2>2 DEF Inv, NoRecordTwice, NeverOlderThanAsked, ExactWhenQuiet
  <2> QED
    BY <2>3, <2>4, <2>5, <2>6 DEF Inv
<1>6. CASE n # 0
  <2> DEFINE m == Len(copied)
  <2>1. /\ copied' = Append(copied, n) /\ copied' \in Seq(Records)
        /\ m \in Nat /\ DOMAIN copied = 1..m
        /\ DOMAIN copied' = 1..(m + 1) /\ Len(copied') = m + 1
        /\ copied'[m + 1] = n
        /\ \A i \in 1..m : copied'[i] = copied[i]
    BY <1>1, <1>2, <1>4, <1>6
  <2>2. TypeOK'
    BY <1>3, <1>4, <2>1 DEF Inv, TypeOK
  <2>3. RingOK'
    BY <1>3 DEF Inv, RingOK, Latest
  <2> HIDE DEF m
  <2>4. \A i \in 1..(m + 1) : i \in 1..m \/ i = m + 1
    BY <2>1
  <2>5. CopyOK'
    <3>1. \A i \in 1..m : \E o \in (offset' + 1)..Capacity :
            SlotFor(copied'[i]) = (loaded' - o) % Capacity
      <4> SUFFICES ASSUME NEW i \in 1..m
                   PROVE  \E o \in (offset' + 1)..Capacity :
                            SlotFor(copied'[i]) = (loaded' - o) % Capacity
        OBVIOUS
      <4>1. PICK o \in (offset + 1)..Capacity :
              SlotFor(copied[i]) = (loaded - o) % Capacity
        BY <2>1 DEF Inv, CopyOK, Passed
      <4>2. o \in (offset' + 1)..Capacity
        BY <1>3, <1>4
      <4> QED
        BY <1>3, <2>1, <4>1, <4>2
    <3>2. \E o \in (offset' + 1)..Capacity : SlotFor(copied'[m + 1]) = (loaded' - o) % Capacity
      <4>1. offset \in (offset' + 1)..Capacity
        BY <1>3, <1>4
      <4> QED
        BY <1>2, <1>3, <1>6, <2>1, <4>1 DEF SlotOf
    <3>3. (\A i \in DOMAIN copied : Passed(SlotFor(copied[i])))'
      BY <2>1, <2>4, <3>1, <3>2 DEF Passed
    <3>4. /\ offset' <= loaded' /\ loaded' <= written'
          /\ offset' + Len(copied') <= Capacity
      BY <1>3, <1>4, <2>1 DEF Inv, CopyOK, m
    <3>5. (ordered /\ quiet => loaded = written /\ ~storing)'
      BY <1>3 DEF Inv, CopyOK
    <3> QED
      BY <3>3, <3>4, <3>5 DEF CopyOK
  <2>6. NoRecordTwice'
    <3>1. \A i \in 1..m : copied'[i] # n
      BY <1>2, <1>6, <2>1, NewSlot
    <3>2. \A i, j \in 1..m : copied'[i] = copied'[j] => i = j
      BY <2>1 DEF Inv, NoRecordTwice, IsInjective
    <3>3. \A i, j \in 1..(m + 1) : copied'[i] = copied'[j] => i = j
      BY <2>1, <2>4, <3>1, <3>2
    <3> QED
      BY <2>1, <3>3 DEF NoRecordTwice, IsInjective
  <2>7. /\ DOMAIN Asked' = 1..(m + 1) /\ Asked'[m + 1] = loaded - offset + 1
        /\ \A i \in 1..m : Asked'[i] = Asked[i]
    <3>1. Asked' = [i \in 1..(m + 1) |-> loaded - (offset - 1) - (m + 1) + i]
      BY <1>3, <2>1 DEF Asked
    <3>2. Asked = [i \in 1..m |-> loaded - offset - m + i]
      BY DEF Asked, m
    <3> QED
      BY <1>4, <2>1, <3>1, <3>2
  <2>8. ASSUME ordered
        PROVE  /\ n >= loaded - offset + 1
               /\ SlotFor(n) = SlotFor(loaded - offset + 1)
               /\ quiet => n = loaded - offset + 1
    BY <1>2, <1>6, <2>8, OrderedGives DEF SlotValues
  <2>9. NeverOlderThanAsked'
    <3> SUFFICES ASSUME ordered, NEW i \in 1..(m + 1)
                 PROVE  /\ copied'[i] >= Asked'[i]
                        /\ SlotFor(copied'[i]) = SlotFor(Asked'[i])
      BY <1>3, <2>1 DEF NeverOlderThanAsked
    <3>1. CASE i \in 1..m
      BY <2>1, <2>7, <3>1 DEF Inv, NeverOlderThanAsked
    <3>2. CASE i = m + 1
      BY <2>1, <2>7, <2>8, <3>2
    <3> QED
      BY <2>4, <3>1, <3>2
  <2>10. ExactWhenQuiet'
    <3> SUFFICES ASSUME ordered, quiet PROVE copied' = Asked'
      BY <1>3 DEF ExactWhenQuiet
    <3>1. \A i \in 1..m : copied'[i] = Asked'[i]
      BY <2>1, <2>7 DEF Inv, ExactWhenQuiet
    <3>2. \A i \in 1..(m + 1) : copied'[i] = Asked'[i]
      BY <2>1, <2>4, <2>7, <2>8, <3>1
    <3>3. copied' = [i \in 1..(m + 1) |-> copied'[i]]
      BY <2>1, AsFunction
    <3>4. Asked' = [i \in 1..(m + 1) |-> Asked'[i]]
      BY <2>7, <1>3, <2>1 DEF Asked
    <3> QED
      BY <3>2, <3>3, <3>4
  <2> QED
    BY <2>2, <2>3, <2>5, <2>6, <2>9, <2>10 DEF Inv
<1> QED
  BY <1>5, <1>6

LEMMA EndCopyKeeps == Inv /\ EndCopy => Inv'
<1> SUFFICES ASSUME Inv, EndCopy PROVE Inv'
  OBVIOUS
<1>1. UNCHANGED <<trace, written, storing, ordered, loaded, offset, copied, quiet>>
      /\ reading' \in BOOLEAN
  BY DEF EndCopy, writer
<1>2. TypeOK' /\ RingOK' /\ CopyOK'
  BY <1>1 DEF Inv, TypeOK, RingOK, Latest, CopyOK, Passed
<1>3. NoRecordTwice' /\ NeverOlderThanAsked' /\ ExactWhenQuiet'
  BY <1>1 DEF Inv, NoRecordTwice, NeverOlderThanAsked, ExactWhenQuiet, Asked
<1> QED
  BY <1>2, <1>3 DEF Inv

LEMMA InvNext == Inv /\ [Next]_traceVars => Inv'
<1> SUFFICES ASSUME Inv, [Next]_traceVars PROVE Inv'
  OBVIOUS
<1>1. CASE Next
  BY <1>1, StoreSlotKeeps, StoreCountKeeps, BeginCopyKeeps, ReadSlotKeeps,
     EndCopyKeeps DEF Next
<1>2. CASE UNCHANGED traceVars
  <2>1. UNCHANGED <<trace, written, storing, ordered, reading, loaded, offset,
                    copied, quiet>>
    BY <1>2 DEF traceVars, writer, reader
  <2>2. TypeOK' /\ RingOK' /\ CopyOK'
    BY <2>1 DEF Inv, TypeOK, RingOK, Latest, CopyOK, Passed
  <2>3. NoRecordTwice' /\ NeverOlderThanAsked' /\ ExactWhenQuiet'
    BY <2>1 DEF Inv, NoRecordTwice, NeverOlderThanAsked, ExactWhenQuiet, Asked
  <2> QED
    BY <2>2, <2>3 DEF Inv
<1> QED
  BY <1>1, <1>2

-----------------------------------------------------------------------------
LEMMA TraceInvariant == Spec => []Inv
BY InvInit, InvNext, PTL DEF Spec

(* Every copy stays within the ring and its buffer, whatever the writer    *)
(* does meanwhile (record_execution, copy_recent_execution).               *)
THEOREM TraceTypeOK == Spec => []TypeOK
<1>1. Inv => TypeOK
  BY DEF Inv
<1> QED
  BY <1>1, TraceInvariant, PTL

(* A copy reports no record twice, whether or not its reader sees the      *)
(* writer's stores in order (copy_recent_execution).                       *)
THEOREM TraceNoRecordTwice == Spec => []NoRecordTwice
<1>1. Inv => NoRecordTwice
  BY DEF Inv
<1> QED
  BY <1>1, TraceInvariant, PTL

(* A reader that sees stores in order gets, for each record it asks for,   *)
(* that record or a newer one of the same slot (the count is published     *)
(* after the slot).                                                        *)
THEOREM TraceNeverOlderThanAsked == Spec => []NeverOlderThanAsked
<1>1. Inv => NeverOlderThanAsked
  BY DEF Inv
<1> QED
  BY <1>1, TraceInvariant, PTL

(* A copy no store overlaps is exactly the last records, oldest first.     *)
THEOREM TraceExactWhenQuiet == Spec => []ExactWhenQuiet
<1>1. Inv => ExactWhenQuiet
  BY DEF Inv
<1> QED
  BY <1>1, TraceInvariant, PTL

-----------------------------------------------------------------------------
(* What is left of the order.                                              *)

(* A copy asks for fewer records than the ring holds, so a record in it    *)
(* that was already counted cannot be a later one of the slot it was asked *)
(* from: it is the record asked for.                                       *)
LEMMA CountedIsAsked ==
  ASSUME Inv, ordered, NEW i \in DOMAIN copied, copied[i] <= loaded
  PROVE  copied[i] = Asked[i]
<1> DEFINE n == copied[i]
           k == Asked[i]
<1>1. /\ loaded \in Nat /\ offset \in Nat /\ Capacity \in Nat \ {0}
      /\ copied \in Seq(Records)
  BY TraceAssumption DEF Inv, TypeOK, Records
<1>2. /\ DOMAIN copied = 1..Len(copied) /\ Len(copied) \in Nat
      /\ n \in Records
  BY <1>1, LenProperties, ElementOfSeq
<1>3. k = loaded - offset - Len(copied) + i /\ i \in 1..Len(copied)
  BY <1>2 DEF Asked
<1>4. offset + Len(copied) <= Capacity
  BY DEF Inv, CopyOK
<1>5. n \in Int /\ k \in Int /\ k > loaded - Capacity
  BY <1>1, <1>2, <1>3, <1>4, TraceAssumption DEF Records
<1>6. k <= n /\ SlotFor(n) = SlotFor(k)
  BY DEF Inv, NeverOlderThanAsked
<1> HIDE DEF n, k
<1>7. /\ k - 1 \in Int /\ n - 1 \in Int /\ k - 1 <= n - 1 /\ n - 1 < k - 1 + Capacity
      /\ (k - 1) % Capacity = (n - 1) % Capacity
  BY <1>1, <1>5, <1>6 DEF SlotFor, n
<1>8. k - 1 = n - 1
  BY <1>1, <1>7, Near
<1>9. k = n
  BY <1>5, <1>8
<1> QED
  BY <1>9 DEF n, k

(* While the guest runs, a copy is not oldest first, as the header says it *)
(* is; but for a reader that sees stores in order only records that were   *)
(* not counted yet when it began can be out of order: all the others are   *)
(* in their places, in order (copy_recent_execution).                      *)
THEOREM TraceOldestFirstUnlessOvertaken == Spec => []OldestFirstUnlessOvertaken
<1>1. Inv => OldestFirstUnlessOvertaken
  <2> SUFFICES ASSUME Inv, ordered, NEW i \in DOMAIN copied, ~(copied[i] > loaded)
               PROVE  /\ copied[i] = Asked[i]
                      /\ \A j \in DOMAIN copied : i < j => copied[i] < copied[j]
    BY DEF OldestFirstUnlessOvertaken
  <2>1. /\ loaded \in Nat /\ offset \in Nat /\ copied \in Seq(Records)
        /\ DOMAIN copied = 1..Len(copied) /\ Len(copied) \in Nat
        /\ \A j \in 1..Len(copied) : copied[j] \in Nat
    BY TraceAssumption, LenProperties, ElementOfSeq DEF Inv, TypeOK, Records
  <2>2. copied[i] = Asked[i]
    BY <2>1, CountedIsAsked
  <2>3. ASSUME NEW j \in DOMAIN copied, i < j PROVE copied[i] < copied[j]
    <3>1. /\ Asked[i] = loaded - offset - Len(copied) + i
          /\ Asked[j] = loaded - offset - Len(copied) + j
      BY <2>1 DEF Asked
    <3>2. copied[j] >= Asked[j]
      BY DEF Inv, NeverOlderThanAsked
    <3> QED
      BY <2>1, <2>2, <2>3, <3>1, <3>2
  <2> QED
    BY <2>2, <2>3
<1> QED
  BY <1>1, TraceInvariant, PTL
=============================================================================
