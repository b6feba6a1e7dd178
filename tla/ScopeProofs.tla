----------------------------- MODULE ScopeProofs -----------------------------
(***************************************************************************)
(* active_overrides and suppressions_ mirror the C++ call stack, for any   *)
(* depth of nesting and any title, and no override is entered inside       *)
(* itself.  A scope pops whatever is last, so the argument is one about    *)
(* counting: an entry is at the position of the scopes opened before it.   *)
(***************************************************************************)
EXTENDS ExecutorSteps, FiniteSetTheorems

Mark == ExecutionIdentity \union {None}

-----------------------------------------------------------------------------
(* Counting marks.                                                         *)

Marked(m, i) == {j \in 1..i : m[j] # None}

LEMMA MarkedFinite ==
  ASSUME NEW m, NEW i \in Nat
  PROVE  IsFiniteSet(Marked(m, i)) /\ MarkedUpTo(m, i) \in Nat
<1>1. IsFiniteSet(1..i) /\ Marked(m, i) \in SUBSET (1..i)
  BY FS_Interval DEF Marked
<1>2. IsFiniteSet(Marked(m, i))
  BY <1>1, FS_Subset
<1> QED
  BY <1>2, FS_CardinalityType DEF MarkedUpTo, Marked

LEMMA MarkedNone ==
  ASSUME NEW m
  PROVE  MarkedUpTo(m, 0) = 0
<1>1. Marked(m, 0) = {}
  BY DEF Marked
<1> QED
  BY <1>1, FS_EmptySet DEF MarkedUpTo, Marked

LEMMA MarkedStep ==
  ASSUME NEW m, NEW i \in Nat \ {0}
  PROVE  MarkedUpTo(m, i) =
           IF m[i] = None THEN MarkedUpTo(m, i - 1) ELSE MarkedUpTo(m, i - 1) + 1
<1>1. i - 1 \in Nat /\ i \notin 1..(i - 1) /\ 1..i = 1..(i - 1) \union {i}
  OBVIOUS
<1>2. IsFiniteSet(Marked(m, i - 1)) /\ i \notin Marked(m, i - 1)
  BY <1>1, MarkedFinite DEF Marked
<1>3. CASE m[i] = None
  <2>1. Marked(m, i) = Marked(m, i - 1)
    BY <1>1, <1>3 DEF Marked
  <2> QED
    BY <1>3, <2>1 DEF MarkedUpTo, Marked
<1>4. CASE m[i] # None
  <2>1. Marked(m, i) = Marked(m, i - 1) \union {i}
    BY <1>1, <1>4 DEF Marked
  <2>2. Cardinality(Marked(m, i)) = Cardinality(Marked(m, i - 1)) + 1
    BY <1>2, <2>1, FS_AddElement
  <2> QED
    BY <1>4, <2>2 DEF MarkedUpTo, Marked
<1> QED
  BY <1>3, <1>4

LEMMA MarkedMonotone ==
  ASSUME NEW m, NEW i \in Nat, NEW k \in Nat, i <= k
  PROVE  MarkedUpTo(m, i) <= MarkedUpTo(m, k)
<1>1. Marked(m, i) \in SUBSET Marked(m, k)
  BY DEF Marked
<1>2. Cardinality(Marked(m, i)) <= Cardinality(Marked(m, k))
  BY <1>1, MarkedFinite, FS_Subset
<1> QED
  BY <1>2 DEF MarkedUpTo, Marked

LEMMA MarkedAgree ==
  ASSUME NEW m, NEW n, NEW i \in Nat, \A j \in 1..i : m[j] = n[j]
  PROVE  MarkedUpTo(m, i) = MarkedUpTo(n, i)
<1>1. Marked(m, i) = Marked(n, i)
  BY DEF Marked
<1> QED
  BY <1>1 DEF MarkedUpTo, Marked

(* A marked frame has its entry within the sequence, and it is the last    *)
(* entry only if no marked frame is above.                                 *)
LEMMA MarkedPosition ==
  ASSUME NEW m, NEW n \in Nat, NEW i \in 1..n, m[i] # None
  PROVE  MarkedUpTo(m, i) \in 1..MarkedUpTo(m, n)
<1>1. i \in Nat \ {0} /\ i - 1 \in Nat /\ i <= n
  OBVIOUS
<1>2. MarkedUpTo(m, i) = MarkedUpTo(m, i - 1) + 1
  BY <1>1, MarkedStep
<1>3. MarkedUpTo(m, i) <= MarkedUpTo(m, n)
  BY <1>1, MarkedMonotone
<1> QED
  BY <1>1, <1>2, <1>3, MarkedFinite

-----------------------------------------------------------------------------
(* Opening and closing scopes.                                             *)

LEMMA MirrorsEmpty == Mirrors(<<>>, <<>>)
BY MarkedNone, EmptySeq DEF Mirrors

LEMMA MirrorsPush ==
  ASSUME NEW q \in Seq(ExecutionIdentity), NEW m \in Seq(Mark), Mirrors(q, m),
         NEW v \in Mark
  PROVE  Mirrors(IF v = None THEN q ELSE Append(q, v), Append(m, v))
<1> DEFINE p == Append(m, v)
           r == IF v = None THEN q ELSE Append(q, v)
           n == Len(m)
<1>1. /\ n \in Nat /\ Len(p) = n + 1 /\ DOMAIN p = 1..(n + 1) /\ DOMAIN m = 1..n
      /\ \A i \in 1..n : p[i] = m[i]
      /\ p[n + 1] = v
  BY LenProperties, AppendProperties
<1>2. /\ Len(q) \in Nat /\ DOMAIN q = 1..Len(q)
      /\ v = None => r = q
      /\ v # None => /\ v \in ExecutionIdentity
                     /\ Len(r) = Len(q) + 1 /\ DOMAIN r = 1..(Len(q) + 1)
                     /\ \A i \in 1..Len(q) : r[i] = q[i]
                     /\ r[Len(q) + 1] = v
  BY LenProperties, AppendProperties DEF Mark
<1> HIDE DEF p, r
<1>3. \A i \in 0..n : MarkedUpTo(p, i) = MarkedUpTo(m, i)
  <2> SUFFICES ASSUME NEW i \in 0..n PROVE MarkedUpTo(p, i) = MarkedUpTo(m, i)
    OBVIOUS
  <2>1. i \in Nat /\ \A j \in 1..i : p[j] = m[j]
    BY <1>1
  <2> QED
    BY <2>1, MarkedAgree
<1>4. n + 1 \in Nat \ {0} /\ (n + 1) - 1 = n /\ n \in 0..n
  BY <1>1
<1>5. MarkedUpTo(p, n + 1) = IF v = None THEN MarkedUpTo(m, n) ELSE MarkedUpTo(m, n) + 1
  BY <1>1, <1>3, <1>4, MarkedStep
<1>6. Len(q) = MarkedUpTo(m, n)
  BY DEF Mirrors
<1>7. Len(r) = MarkedUpTo(p, Len(p))
  BY <1>1, <1>2, <1>5, <1>6
<1>8. \A i \in 1..n : m[i] # None =>
         MarkedUpTo(m, i) \in 1..Len(q) /\ q[MarkedUpTo(m, i)] = m[i]
  BY <1>1, <1>6, MarkedPosition DEF Mirrors
<1>9. \A i \in DOMAIN p : p[i] # None => r[MarkedUpTo(p, i)] = p[i]
  <2> SUFFICES ASSUME NEW i \in DOMAIN p, p[i] # None
               PROVE  r[MarkedUpTo(p, i)] = p[i]
    OBVIOUS
  <2>1. CASE i = n + 1
    BY <1>1, <1>2, <1>5, <1>6, <2>1
  <2>2. CASE i # n + 1
    <3>1. i \in 1..n /\ i \in 0..n
      BY <1>1, <2>2
    <3>2. p[i] = m[i] /\ MarkedUpTo(p, i) = MarkedUpTo(m, i)
      BY <1>1, <1>3, <3>1
    <3> QED
      BY <1>2, <1>8, <3>1, <3>2
  <2> QED
    BY <2>1, <2>2
<1>10. \A k \in DOMAIN r : \E i \in DOMAIN p : p[i] # None /\ MarkedUpTo(p, i) = k
  <2> SUFFICES ASSUME NEW k \in DOMAIN r
               PROVE  \E i \in DOMAIN p : p[i] # None /\ MarkedUpTo(p, i) = k
    OBVIOUS
  <2>1. CASE k \in 1..Len(q)
    <3>1. PICK i \in DOMAIN m : m[i] # None /\ MarkedUpTo(m, i) = k
      BY <1>2, <2>1 DEF Mirrors
    <3>2. i \in 1..n /\ i \in 0..n /\ i \in DOMAIN p
      BY <1>1
    <3> QED
      BY <1>1, <1>3, <3>1, <3>2
  <2>2. CASE k \notin 1..Len(q)
    <3>1. v # None /\ k = Len(q) + 1 /\ n + 1 \in DOMAIN p
      BY <1>1, <1>2, <2>2
    <3> QED
      BY <1>1, <1>5, <1>6, <3>1
  <2> QED
    BY <2>1, <2>2
<1>11. Mirrors(r, p)
  BY <1>7, <1>9, <1>10 DEF Mirrors
<1> QED
  BY <1>11 DEF p, r

LEMMA MirrorsPop ==
  ASSUME NEW q \in Seq(ExecutionIdentity), NEW m \in Seq(Mark), Mirrors(q, m),
         m # <<>>
  PROVE  /\ Mirrors(IF m[Len(m)] = None THEN q ELSE PopBack(q), PopBack(m))
         /\ m[Len(m)] # None => q # <<>>
<1> DEFINE p == PopBack(m)
           v == m[Len(m)]
           r == IF v = None THEN q ELSE PopBack(q)
           n == Len(m)
<1>1. /\ n \in Nat \ {0} /\ n - 1 \in Nat /\ Len(p) = n - 1 /\ DOMAIN p = 1..(n - 1)
      /\ DOMAIN m = 1..n
      /\ \A i \in 1..(n - 1) : p[i] = m[i]
  BY LenProperties, EmptySeq, PopBackType
<1> HIDE DEF p
<1>2. \A i \in 0..(n - 1) : MarkedUpTo(p, i) = MarkedUpTo(m, i)
  <2> SUFFICES ASSUME NEW i \in 0..(n - 1) PROVE MarkedUpTo(p, i) = MarkedUpTo(m, i)
    OBVIOUS
  <2>1. i \in Nat /\ \A j \in 1..i : p[j] = m[j]
    BY <1>1
  <2> QED
    BY <2>1, MarkedAgree
<1>3. MarkedUpTo(m, n) = IF v = None THEN MarkedUpTo(m, n - 1) ELSE MarkedUpTo(m, n - 1) + 1
  BY <1>1, MarkedStep
<1>4. Len(q) = MarkedUpTo(m, n) /\ Len(q) \in Nat /\ MarkedUpTo(m, n - 1) \in Nat
  BY <1>1, MarkedFinite, LenProperties DEF Mirrors
<1>5. v # None => q # <<>>
  BY <1>3, <1>4, EmptySeq
<1>6. /\ Len(r) = MarkedUpTo(m, n - 1) /\ DOMAIN r = 1..Len(r)
      /\ \A k \in 1..Len(r) : r[k] = q[k]
  <2>1. CASE v = None
    BY <1>3, <1>4, <2>1, LenProperties
  <2>2. CASE v # None
    <3>1. /\ Len(r) = Len(q) - 1 /\ r \in Seq(ExecutionIdentity)
          /\ \A k \in 1..(Len(q) - 1) : r[k] = q[k]
      BY <1>5, <2>2, PopBackType
    <3> HIDE DEF r
    <3> QED
      BY <1>3, <1>4, <2>2, <3>1, LenProperties
  <2> QED
    BY <2>1, <2>2
<1> HIDE DEF r, v
<1>7. Len(r) = MarkedUpTo(p, Len(p))
  BY <1>1, <1>2, <1>6
<1>8. \A i \in DOMAIN p : p[i] # None => r[MarkedUpTo(p, i)] = p[i]
  <2> SUFFICES ASSUME NEW i \in DOMAIN p, p[i] # None
               PROVE  r[MarkedUpTo(p, i)] = p[i]
    OBVIOUS
  <2>1. /\ i \in 1..(n - 1) /\ i \in 0..(n - 1) /\ i \in DOMAIN m
        /\ p[i] = m[i] /\ MarkedUpTo(p, i) = MarkedUpTo(m, i)
    BY <1>1, <1>2
  <2>2. MarkedUpTo(m, i) \in 1..Len(r)
    BY <1>1, <1>6, <2>1, MarkedPosition
  <2> QED
    BY <1>6, <2>1, <2>2 DEF Mirrors
<1>9. \A k \in DOMAIN r : \E i \in DOMAIN p : p[i] # None /\ MarkedUpTo(p, i) = k
  <2> SUFFICES ASSUME NEW k \in DOMAIN r
               PROVE  \E i \in DOMAIN p : p[i] # None /\ MarkedUpTo(p, i) = k
    OBVIOUS
  <2>1. k \in 1..Len(r) /\ k \in DOMAIN q
    <3>1. DOMAIN q = 1..Len(q) /\ Len(r) <= Len(q)
      BY <1>3, <1>4, <1>6, LenProperties
    <3> QED
      BY <1>4, <1>6, <3>1
  <2>2. PICK i \in DOMAIN m : m[i] # None /\ MarkedUpTo(m, i) = k
    BY <2>1 DEF Mirrors
  <2>3. i # n
    BY <1>3, <1>4, <1>6, <2>1, <2>2 DEF v
  <2>4. i \in 1..(n - 1) /\ i \in 0..(n - 1) /\ i \in DOMAIN p
    BY <1>1, <2>3
  <2> QED
    BY <1>1, <1>2, <2>2, <2>4
<1>10. Mirrors(r, p)
  BY <1>7, <1>8, <1>9 DEF Mirrors
<1> QED
  BY <1>5, <1>10 DEF p, r, v

-----------------------------------------------------------------------------
(* The marks of a stack.                                                   *)

LEMMA MarkType ==
  ASSUME NEW f \in Frame
  PROVE  ActiveMark(f) \in Mark /\ ScopeMark(f) \in Mark
BY FrameKinds DEF ActiveMark, ScopeMark, Mark, RunFrame, NativeFrame

LEMMA MarksType ==
  ASSUME NEW s \in Seq(Frame)
  PROVE  /\ ActiveMarks(s) \in Seq(Mark) /\ Len(ActiveMarks(s)) = Len(s)
         /\ ScopeMarks(s) \in Seq(Mark) /\ Len(ScopeMarks(s)) = Len(s)
         /\ \A i \in 1..Len(s) : /\ ActiveMarks(s)[i] = ActiveMark(s[i])
                                 /\ ScopeMarks(s)[i] = ScopeMark(s[i])
<1>1. DOMAIN s = 1..Len(s) /\ Len(s) \in Nat /\ \A i \in 1..Len(s) : s[i] \in Frame
  BY LenProperties, ElementOfSeq
<1>2. /\ ActiveMarks(s) \in [1..Len(s) -> Mark]
      /\ ScopeMarks(s) \in [1..Len(s) -> Mark]
  BY <1>1, MarkType DEF ActiveMarks, ScopeMarks
<1>3. /\ ActiveMarks(s) \in Seq(Mark) /\ Len(ActiveMarks(s)) = Len(s)
      /\ ScopeMarks(s) \in Seq(Mark) /\ Len(ScopeMarks(s)) = Len(s)
  BY <1>1, <1>2, SeqDef, LenProperties
<1> QED
  BY <1>1, <1>3 DEF ActiveMarks, ScopeMarks

LEMMA MarksAppend ==
  ASSUME NEW s \in Seq(Frame), NEW f \in Frame
  PROVE  /\ ActiveMarks(Append(s, f)) = Append(ActiveMarks(s), ActiveMark(f))
         /\ ScopeMarks(Append(s, f)) = Append(ScopeMarks(s), ScopeMark(f))
<1> DEFINE p == Append(s, f)
           a == Append(ActiveMarks(s), ActiveMark(f))
           c == Append(ScopeMarks(s), ScopeMark(f))
           n == Len(s)
<1>1. /\ n \in Nat /\ p \in Seq(Frame) /\ Len(p) = n + 1 /\ p[n + 1] = f
      /\ \A i \in 1..n : p[i] = s[i]
  BY LenProperties, AppendProperties
<1>2. /\ a \in Seq(Mark) /\ Len(a) = n + 1 /\ a[n + 1] = ActiveMark(f)
      /\ \A i \in 1..n : a[i] = ActiveMark(s[i])
  BY MarksType, MarkType, AppendProperties
<1>3. /\ c \in Seq(Mark) /\ Len(c) = n + 1 /\ c[n + 1] = ScopeMark(f)
      /\ \A i \in 1..n : c[i] = ScopeMark(s[i])
  BY MarksType, MarkType, AppendProperties
<1> HIDE DEF p, a, c
<1>4. /\ ActiveMarks(p) \in Seq(Mark) /\ Len(ActiveMarks(p)) = n + 1
      /\ ScopeMarks(p) \in Seq(Mark) /\ Len(ScopeMarks(p)) = n + 1
      /\ \A i \in 1..(n + 1) : /\ ActiveMarks(p)[i] = ActiveMark(p[i])
                               /\ ScopeMarks(p)[i] = ScopeMark(p[i])
  BY <1>1, MarksType
<1>5. \A i \in 1..(n + 1) : i \in 1..n \/ i = n + 1
  BY <1>1
<1>6. \A i \in 1..(n + 1) : ActiveMarks(p)[i] = a[i] /\ ScopeMarks(p)[i] = c[i]
  BY <1>1, <1>2, <1>3, <1>4, <1>5
<1>7. ActiveMarks(p) = a /\ ScopeMarks(p) = c
  BY <1>2, <1>3, <1>4, <1>6, SeqEqual
<1> QED
  BY <1>7 DEF p, a, c

LEMMA MarksPop ==
  ASSUME NEW s \in Seq(Frame), s # <<>>
  PROVE  /\ ActiveMarks(PopBack(s)) = PopBack(ActiveMarks(s))
         /\ ScopeMarks(PopBack(s)) = PopBack(ScopeMarks(s))
<1> DEFINE p == PopBack(s)
           a == PopBack(ActiveMarks(s))
           c == PopBack(ScopeMarks(s))
           n == Len(s) - 1
<1>1. /\ Len(s) \in Nat /\ p \in Seq(Frame) /\ Len(p) = n
      /\ \A i \in 1..n : p[i] = s[i] /\ i \in 1..Len(s)
      /\ ActiveMarks(s) # <<>> /\ ScopeMarks(s) # <<>>
  BY LenProperties, PopBackType, MarksType, EmptySeq
<1>2. /\ a \in Seq(Mark) /\ Len(a) = n /\ \A i \in 1..n : a[i] = ActiveMark(s[i])
      /\ c \in Seq(Mark) /\ Len(c) = n /\ \A i \in 1..n : c[i] = ScopeMark(s[i])
  BY <1>1, MarksType, PopBackType
<1> HIDE DEF p, a, c
<1>3. /\ ActiveMarks(p) \in Seq(Mark) /\ Len(ActiveMarks(p)) = n
      /\ ScopeMarks(p) \in Seq(Mark) /\ Len(ScopeMarks(p)) = n
      /\ \A i \in 1..n : /\ ActiveMarks(p)[i] = ActiveMark(p[i])
                         /\ ScopeMarks(p)[i] = ScopeMark(p[i])
  BY <1>1, MarksType
<1>4. \A i \in 1..n : ActiveMarks(p)[i] = a[i] /\ ScopeMarks(p)[i] = c[i]
  BY <1>1, <1>2, <1>3
<1>5. ActiveMarks(p) = a /\ ScopeMarks(p) = c
  BY <1>2, <1>3, <1>4, SeqEqual
<1> QED
  BY <1>5 DEF p, a, c

LEMMA MarksExcept ==
  ASSUME NEW s \in Seq(Frame), NEW i \in 1..Len(s), NEW f,
         ActiveMark(f) = ActiveMark(s[i]), ScopeMark(f) = ScopeMark(s[i])
  PROVE  /\ ActiveMarks([s EXCEPT ![i] = f]) = ActiveMarks(s)
         /\ ScopeMarks([s EXCEPT ![i] = f]) = ScopeMarks(s)
BY DEF ActiveMarks, ScopeMarks

-----------------------------------------------------------------------------
(* The two scope stacks over a step.                                       *)

Mirror(s, act, sup) ==
  /\ s \in Seq(Frame)
  /\ act \in Seq(ExecutionIdentity) /\ sup \in Seq(ExecutionIdentity)
  /\ Mirrors(act, ActiveMarks(s))
  /\ Mirrors(sup, ScopeMarks(s))

Opened(q, v) == IF v = None THEN q ELSE Append(q, v)
Closed(q, v) == IF v = None THEN q ELSE PopBack(q)

LEMMA OpeningMirrors ==
  ASSUME NEW s, NEW act, NEW sup, Mirror(s, act, sup), NEW f \in Frame
  PROVE  Mirror(Append(s, f), Opened(act, ActiveMark(f)), Opened(sup, ScopeMark(f)))
<1>1. /\ ActiveMarks(s) \in Seq(Mark) /\ ScopeMarks(s) \in Seq(Mark)
      /\ ActiveMark(f) \in Mark /\ ScopeMark(f) \in Mark
  BY MarksType, MarkType DEF Mirror
<1>2. /\ Append(s, f) \in Seq(Frame)
      /\ Opened(act, ActiveMark(f)) \in Seq(ExecutionIdentity)
      /\ Opened(sup, ScopeMark(f)) \in Seq(ExecutionIdentity)
  BY <1>1, AppendProperties DEF Mirror, Opened, Mark
<1>3. /\ Mirrors(Opened(act, ActiveMark(f)), Append(ActiveMarks(s), ActiveMark(f)))
      /\ Mirrors(Opened(sup, ScopeMark(f)), Append(ScopeMarks(s), ScopeMark(f)))
  BY <1>1, MirrorsPush DEF Mirror, Opened
<1> QED
  BY <1>2, <1>3, MarksAppend DEF Mirror

LEMMA ClosingMirrors ==
  ASSUME NEW s, NEW act, NEW sup, Mirror(s, act, sup), s # <<>>,
         NEW f, f = s[Len(s)]
  PROVE  Mirror(PopBack(s), Closed(act, ActiveMark(f)), Closed(sup, ScopeMark(f)))
<1>1. /\ ActiveMarks(s) \in Seq(Mark) /\ ScopeMarks(s) \in Seq(Mark)
      /\ Len(ActiveMarks(s)) = Len(s) /\ Len(ScopeMarks(s)) = Len(s)
      /\ \A i \in 1..Len(s) : /\ ActiveMarks(s)[i] = ActiveMark(s[i])
                              /\ ScopeMarks(s)[i] = ScopeMark(s[i])
  BY MarksType DEF Mirror
<1>2. Len(s) \in 1..Len(s) /\ ActiveMarks(s) # <<>> /\ ScopeMarks(s) # <<>>
  BY <1>1, LenProperties, EmptySeq DEF Mirror
<1>3. /\ PopBack(s) \in Seq(Frame)
      /\ Closed(act, ActiveMark(f)) \in Seq(ExecutionIdentity)
      /\ Closed(sup, ScopeMark(f)) \in Seq(ExecutionIdentity)
  BY PopBackType DEF Mirror, Closed
<1>4. /\ Mirrors(Closed(act, ActiveMark(f)), PopBack(ActiveMarks(s)))
      /\ Mirrors(Closed(sup, ScopeMark(f)), PopBack(ScopeMarks(s)))
  BY <1>1, <1>2, MirrorsPop DEF Mirror, Closed
<1> QED
  BY <1>3, <1>4, MarksPop DEF Mirror

LEMMA MarkOf ==
  /\ \A f : f.kind = "run" => ActiveMark(f) = None /\ ScopeMark(f) = f.scope
  /\ \A f : f.kind = "native" => ActiveMark(f) = f.id /\ ScopeMark(f) = f.id
  /\ \A f : f.kind = "handler" => ActiveMark(f) = None /\ ScopeMark(f) = None
BY DEF ActiveMark, ScopeMark

LEMMA BelowCallerPops ==
  ASSUME Inv, Len(stack) - 2 \in 0..Len(stack)
  PROVE  BelowCaller = PopBack(PopBack(stack)) /\ PopBack(stack) # <<>>
<1> DEFINE p == PopBack(stack)
           r == PopBack(p)
<1>1. stack \in Seq(Frame) /\ Len(stack) \in Nat /\ Len(stack) >= 2 /\ stack # <<>>
  BY LenProperties, EmptySeq DEF Inv, StackOK
<1>2. /\ p \in Seq(Frame) /\ Len(p) = Len(stack) - 1
      /\ \A i \in 1..(Len(stack) - 1) : p[i] = stack[i]
  BY <1>1, PopBackType
<1>3. p # <<>>
  BY <1>1, <1>2, EmptySeq
<1>4. /\ r \in Seq(Frame) /\ Len(r) = Len(p) - 1
      /\ \A i \in 1..(Len(p) - 1) : r[i] = p[i]
  BY <1>2, <1>3, PopBackType
<1> HIDE DEF p, r
<1>5. /\ Len(r) = Len(stack) - 2
      /\ \A i \in 1..(Len(stack) - 2) : r[i] = stack[i]
  BY <1>1, <1>2, <1>4
<1>6. BelowCaller \in Seq(Frame) /\ Len(BelowCaller) = Len(stack) - 2
  BY PrefixOK DEF BelowCaller, Inv, StackOK
<1>7. \A i \in 1..(Len(stack) - 2) : BelowCaller[i] = stack[i]
  BY <1>1 DEF BelowCaller
<1>8. BelowCaller = r
  BY <1>4, <1>5, <1>6, <1>7, SeqEqual
<1> QED
  BY <1>3, <1>8 DEF p, r

Mirrored == Mirror(stack, active, suppressions)

LEMMA RunLoopMirrors ==
  ASSUME Inv, Mirrored, HandlerEnter \/ OverrideEnter \/ Counts \/ \E x : Stops(x)
  PROVE  Mirrored'
<1>1. CASE HandlerEnter
  <2> DEFINE f == [kind |-> "handler"]
  <2>1. f \in Frame /\ f.kind = "handler" /\ stack' = Append(stack, f)
    BY <1>1 DEF HandlerEnter, Frame, HandlerFrame
  <2> HIDE DEF f
  <2> QED
    BY <1>1, <2>1, OpeningMirrors, MarkOf DEF HandlerEnter, registryVars, Mirrored, Opened
<1>2. CASE OverrideEnter
  <2> DEFINE f == [kind |-> "native", id |-> Identity]
  <2>1. /\ f \in Frame /\ f.kind = "native" /\ f.id = Identity /\ Identity # None
        /\ stack' = Append(stack, f)
    BY <1>2, InvParts, ExecutorAssumption DEF OverrideEnter, Frame, NativeFrame
  <2> HIDE DEF f
  <2> QED
    BY <1>2, <2>1, OpeningMirrors, MarkOf DEF OverrideEnter, Mirrored, Opened
<1>3. CASE Counts
  <2>1. /\ stack \in Seq(Frame) /\ Len(stack) \in 1..Len(stack)
        /\ Top \in RunFrame /\ Top.kind = "run"
    BY <1>3, TopOK, CountedOK DEF Counts, Dispatching, Running, Inv, StackOK
  <2>2. Counted(Top).kind = "run" /\ Counted(Top).scope = Top.scope
    BY <2>1 DEF Counted, RunFrame
  <2>3. stack' = [stack EXCEPT ![Len(stack)] = Counted(Top)]
    BY <1>3 DEF Counts
  <2>4. /\ ActiveMark(Counted(Top)) = ActiveMark(stack[Len(stack)])
        /\ ScopeMark(Counted(Top)) = ScopeMark(stack[Len(stack)])
    BY <2>1, <2>2, MarkOf DEF Top
  <2>5. ActiveMarks(stack') = ActiveMarks(stack) /\ ScopeMarks(stack') = ScopeMarks(stack)
    BY <2>1, <2>3, <2>4, MarksExcept
  <2>6. stack' \in Seq(Frame)
    BY <1>3, <2>3, CountedOK DEF Counts, StackOK
  <2> QED
    BY <1>3, <2>5, <2>6 DEF Counts, Mirrored, Mirror
<1>4. CASE \E x : Stops(x)
  <2>1. stack # <<>> /\ Top.kind = "run" /\ Top = stack[Len(stack)]
    BY <1>4 DEF Stops, Running, Top
  <2> QED
    BY <1>4, <2>1, ClosingMirrors, MarkOf DEF Stops, Mirrored, Closed
<1> QED
  BY <1>1, <1>2, <1>3, <1>4

LEMMA CallbackMirrors ==
  ASSUME Inv, Mirrored, CallbackEnds
  PROVE  Mirrored'
<1> DEFINE p == PopBack(stack)
           act == Closed(active, ActiveMark(Top))
           sup == Closed(suppressions, ScopeMark(Top))
<1>1. /\ stack # <<>> /\ Top.kind \in {"native", "handler"}
      /\ Caller \in RunFrame /\ Caller.kind = "run"
      /\ Len(stack) - 2 \in 0..Len(stack)
      /\ Len(p) = Len(stack) - 1 /\ p[Len(stack) - 1] = Caller
  BY CallbackAbove, TopOK
<1>2. /\ Top.kind = "native" =>
           Top.id # None /\ act = PopBack(active) /\ sup = PopBack(suppressions)
      /\ Top.kind = "handler" => act = active /\ sup = suppressions
  BY <1>1, TopOK, MarkOf, ExecutorAssumption DEF NativeFrame, Closed
<1>3. Mirror(p, act, sup)
  BY <1>1, ClosingMirrors DEF Mirrored, Top
<1> HIDE DEF act, sup
<1>4. Mirror(BelowCaller, act, IF Caller.scope = None THEN sup ELSE PopBack(sup))
  <2>1. BelowCaller = PopBack(p) /\ p # <<>>
    BY <1>1, BelowCallerPops
  <2> HIDE DEF p
  <2>2. Mirror(PopBack(p), Closed(act, ActiveMark(Caller)), Closed(sup, ScopeMark(Caller)))
    BY <1>1, <1>3, <2>1, ClosingMirrors
  <2> QED
    BY <1>1, <2>1, <2>2, MarkOf DEF Closed
<1>5. ASSUME NEW x, NativeContinues(x) PROVE Mirrored'
  <2>1. /\ active' = act /\ suppressions' = sup
        /\ stack' = [p EXCEPT ![Len(stack) - 1] = Reauthorized(Caller)]
    BY <1>2, <1>5 DEF NativeContinues, InNative
  <2> HIDE DEF p
  <2>2. p \in Seq(Frame) /\ Len(stack) - 1 \in 1..Len(p)
    BY <1>1, <1>3, LenProperties DEF Mirror
  <2>3. /\ Reauthorized(Caller).kind = "run"
        /\ Reauthorized(Caller).scope = Caller.scope
        /\ Reauthorized(Caller) \in Frame
    BY <1>1, InvParts DEF Reauthorized, RunFrame, Frame
  <2>4. /\ ActiveMark(Reauthorized(Caller)) = ActiveMark(p[Len(stack) - 1])
        /\ ScopeMark(Reauthorized(Caller)) = ScopeMark(p[Len(stack) - 1])
    BY <1>1, <2>3, MarkOf
  <2>5. ActiveMarks(stack') = ActiveMarks(p) /\ ScopeMarks(stack') = ScopeMarks(p)
    BY <2>1, <2>2, <2>4, MarksExcept
  <2>6. stack' \in Seq(Frame)
    BY <2>1, <2>2, <2>3, ExceptSeq
  <2> QED
    BY <1>3, <2>1, <2>5, <2>6 DEF Mirrored, Mirror
<1>6. ASSUME NEW x, NativeReturns(x) PROVE Mirrored'
  BY <1>2, <1>4, <1>6 DEF NativeReturns, InNative, EndRun, Mirrored
<1>7. CASE HandlerReturns
  BY <1>2, <1>4, <1>7 DEF HandlerReturns, EndRun, Mirrored
<1>8. CASE CallbackThrows
  BY <1>1, <1>2, <1>4, <1>8 DEF CallbackThrows, InNative, Mirrored
<1> QED
  BY <1>5, <1>6, <1>7, <1>8 DEF CallbackEnds

LEMMA StepMirrors ==
  ASSUME Inv, Mirrored, Next
  PROVE  Mirrored'
<1>1. StepShape
  BY EveryStepHasAShape
<1>2. CASE Still
  BY <1>2 DEF Still, Mirrored
<1>3. ASSUME NEW f \in RunFrame, StartsRun(f) PROVE Mirrored'
  <2>1. f \in Frame /\ f.kind = "run"
    BY DEF Frame, RunFrame
  <2> QED
    BY <1>3, <2>1, OpeningMirrors, MarkOf DEF StartsRun, Mirrored, Opened
<1> QED
  BY <1>1, <1>2, <1>3, RunLoopMirrors, CallbackMirrors DEF StepShape

LEMMA InitMirrors == Init => Mirrored
<1> SUFFICES ASSUME Init PROVE Mirrored
  OBVIOUS
<1>1. stack = <<>> /\ active = <<>> /\ suppressions = <<>>
  BY DEF Init, RegistryInit
<1>2. ActiveMarks(<<>>) = <<>> /\ ScopeMarks(<<>>) = <<>>
  BY DEF ActiveMarks, ScopeMarks
<1> QED
  BY <1>1, <1>2, MirrorsEmpty, EmptySeq DEF Mirrored, Mirror

(* active_overrides and suppressions_ hold one entry for each C++ scope    *)
(* alive on the call stack, in its order, at any depth and on every way    *)
(* out (ActiveOverrideScope, ScopedSuppression).                           *)
THEOREM ExecutorScopesMirrorStack == Spec => []ScopesMirrorStack
<1>1. Inv /\ Mirrored /\ [Next]_vars => Mirrored'
  BY StepMirrors DEF vars, Mirrored, registryVars
<1>2. Mirrored => ScopesMirrorStack
  BY DEF Mirrored, Mirror, ScopesMirrorStack
<1> QED
  BY <1>1, <1>2, InitMirrors, InvInit, InvNext, PTL DEF Spec

-----------------------------------------------------------------------------
(* No override inside itself.                                              *)

(* What is active is suppressed: by the scope of its own activation.       *)
LEMMA ActiveIsSuppressed ==
  ASSUME Mirrored
  PROVE  Range(active) \subseteq Range(suppressions)
<1> SUFFICES ASSUME NEW k \in DOMAIN active
             PROVE  active[k] \in Range(suppressions)
  BY DEF Range
<1>1. /\ stack \in Seq(Frame) /\ Len(stack) \in Nat
      /\ DOMAIN ActiveMarks(stack) = 1..Len(stack)
      /\ DOMAIN ScopeMarks(stack) = 1..Len(stack)
      /\ Len(ScopeMarks(stack)) = Len(stack)
      /\ DOMAIN suppressions = 1..Len(suppressions)
  BY MarksType, LenProperties DEF Mirrored, Mirror
<1>2. PICK i \in DOMAIN ActiveMarks(stack) :
        /\ ActiveMarks(stack)[i] # None
        /\ MarkedUpTo(ActiveMarks(stack), i) = k
  BY DEF Mirrored, Mirror, Mirrors
<1>3. active[k] = ActiveMarks(stack)[i]
  BY <1>2 DEF Mirrored, Mirror, Mirrors
<1>4. i \in 1..Len(stack) /\ ActiveMarks(stack)[i] = ActiveMark(stack[i])
      /\ ScopeMarks(stack)[i] = ScopeMark(stack[i])
  BY <1>1, MarksType
<1>5. ScopeMarks(stack)[i] = active[k] /\ ScopeMarks(stack)[i] # None
  BY <1>2, <1>3, <1>4 DEF ActiveMark, ScopeMark
<1>6. MarkedUpTo(ScopeMarks(stack), i) \in DOMAIN suppressions
  BY <1>1, <1>4, <1>5, MarkedPosition DEF Mirrored, Mirror, Mirrors
<1>7. suppressions[MarkedUpTo(ScopeMarks(stack), i)] = active[k]
  BY <1>1, <1>4, <1>5 DEF Mirrored, Mirror, Mirrors
<1> QED
  BY <1>6, <1>7 DEF Range

LEMMA StaysInjective ==
  ASSUME Inv, Mirrored, IsInjective(active), Next
  PROVE  IsInjective(active')
<1>1. active \in Seq(ExecutionIdentity) /\ DOMAIN active = 1..Len(active)
      /\ Len(active) \in Nat
  BY LenProperties DEF Mirrored, Mirror
<1>2. CASE OverrideEnter
  <2>1. Identity \in ExecutionIdentity /\ Identity \notin Range(active)
    BY <1>2, InvParts, ActiveIsSuppressed DEF OverrideEnter, Finds, IsSuppressed
  <2>2. active' = Append(active, Identity)
    BY <1>2 DEF OverrideEnter
  <2>3. /\ DOMAIN active' = 1..(Len(active) + 1)
        /\ \A i \in 1..Len(active) : active'[i] = active[i]
        /\ active'[Len(active) + 1] = Identity
    BY <1>1, <2>1, <2>2, AppendProperties
  <2>4. \A i \in 1..Len(active) : active[i] # Identity
    BY <1>1, <2>1 DEF Range
  <2>5. \A i \in 1..(Len(active) + 1) : i \in 1..Len(active) \/ i = Len(active) + 1
    BY <1>1
  <2> QED
    BY <1>1, <2>3, <2>4, <2>5 DEF IsInjective
<1>3. CASE active' = PopBack(active)
  <2>1. CASE active = <<>>
    BY <1>3, <2>1 DEF PopBack, IsInjective
  <2>2. CASE active # <<>>
    <3>1. /\ PopBack(active) \in Seq(ExecutionIdentity)
          /\ Len(PopBack(active)) = Len(active) - 1
          /\ \A i \in 1..(Len(active) - 1) : PopBack(active)[i] = active[i]
      BY <1>1, <2>2, PopBackType
    <3>2. DOMAIN PopBack(active) = 1..(Len(active) - 1)
      BY <3>1, LenProperties
    <3>3. \A i \in 1..(Len(active) - 1) : i \in 1..Len(active)
      BY <1>1
    <3> QED
      BY <1>1, <1>3, <3>1, <3>2, <3>3 DEF IsInjective
  <2> QED
    BY <2>1, <2>2
<1>4. CASE active' = active
  BY <1>4
<1>5. StepShape
  BY EveryStepHasAShape
<1> QED
  BY <1>2, <1>3, <1>4, <1>5
     DEF StepShape, Still, StartsRun, HandlerEnter, Counts, Stops, CallbackEnds,
         NativeContinues, NativeReturns, HandlerReturns, CallbackThrows

(* No override is entered while an activation of it is on the stack, at    *)
(* any depth of nested calls (run_override, OverrideRegistry::find).       *)
THEOREM ExecutorNeverReenters == Spec => []NoOverrideReentered
<1>1. Inv /\ Mirrored /\ [Next]_vars => Mirrored'
  BY StepMirrors DEF vars, Mirrored, registryVars
<1>2. Inv /\ Mirrored /\ IsInjective(active) /\ [Next]_vars => IsInjective(active)'
  BY StaysInjective DEF vars
<1>3. Init => IsInjective(active)
  BY DEF Init, IsInjective
<1>4. Mirrored /\ IsInjective(active) => NoOverrideReentered
  BY ActiveIsSuppressed DEF NoOverrideReentered
<1> QED
  BY <1>1, <1>2, <1>3, <1>4, InitMirrors, InvInit, InvNext, PTL DEF Spec

-----------------------------------------------------------------------------
(* Nothing is left behind.                                                 *)

(* The activation that keeps an entry of active_overrides open.            *)
LEMMA ActiveHasFrame ==
  ASSUME Mirrored, NEW k \in DOMAIN active
  PROVE  \E i \in 1..Len(stack) : stack[i].kind = "native" /\ stack[i].id = active[k]
<1>1. PICK i \in DOMAIN ActiveMarks(stack) :
        /\ ActiveMarks(stack)[i] # None
        /\ MarkedUpTo(ActiveMarks(stack), i) = k
  BY DEF Mirrored, Mirror, Mirrors
<1>2. active[k] = ActiveMarks(stack)[i]
  BY <1>1 DEF Mirrored, Mirror, Mirrors
<1>3. i \in 1..Len(stack) /\ ActiveMarks(stack)[i] = ActiveMark(stack[i])
  BY MarksType, LenProperties DEF Mirrored, Mirror
<1> QED
  BY <1>1, <1>2, <1>3 DEF ActiveMark

LEMMA FrameIsActive ==
  ASSUME Mirrored, NEW i \in 1..Len(stack), stack[i].kind = "native"
  PROVE  stack[i].id \in Range(active)
<1> DEFINE m == ActiveMarks(stack)
<1>1. /\ stack \in Seq(Frame) /\ Len(stack) \in Nat /\ m \in Seq(Mark)
      /\ Len(m) = Len(stack) /\ m[i] = ActiveMark(stack[i])
      /\ DOMAIN active = 1..Len(active)
  BY MarksType, LenProperties DEF Mirrored, Mirror
<1>2. stack[i] \in NativeFrame
  BY <1>1, ElementOfSeq, FrameKinds
<1>3. m[i] = stack[i].id /\ m[i] # None
  BY <1>1, <1>2, MarkOf, ExecutorAssumption DEF NativeFrame
<1>4. DOMAIN m = 1..Len(stack) /\ Mirrors(active, m)
  BY <1>1, LenProperties DEF Mirrored, Mirror
<1> HIDE DEF m
<1>5. MarkedUpTo(m, i) \in DOMAIN active /\ active[MarkedUpTo(m, i)] = m[i]
  BY <1>1, <1>3, <1>4, MarkedPosition DEF Mirrors
<1> QED
  BY <1>3, <1>5 DEF Range

(* The run that a call started keeps the caller's override suppressed, and *)
(* the caller is below it on the stack.                                    *)
ScopedBelow(s) ==
  \A i \in 1..Len(s) : s[i].kind = "run" /\ s[i].scope # None =>
    \E j \in 1..(i - 1) : s[j].kind = "native" /\ s[j].id = s[i].scope

LEMMA ScopedPrefix ==
  ASSUME NEW s, StackOK(s), ScopedBelow(s), NEW k \in 0..Len(s)
  PROVE  ScopedBelow(SubSeq(s, 1, k))
<1> DEFINE p == SubSeq(s, 1, k)
<1>1. /\ Len(s) \in Nat /\ Len(p) = k /\ \A i \in 1..k : i \in 1..Len(s) /\ p[i] = s[i]
  BY PrefixOK, LenProperties DEF StackOK
<1> HIDE DEF p
<1>2. \A i \in 1..k : \A j \in 1..(i - 1) : j \in 1..k
  BY <1>1
<1>3. ScopedBelow(p)
  BY <1>1, <1>2 DEF ScopedBelow
<1> QED
  BY <1>3 DEF p

LEMMA ScopedPush ==
  ASSUME NEW s \in Seq(Frame), ScopedBelow(s), NEW f \in Frame,
         f.kind = "run" /\ f.scope # None =>
           \E j \in 1..Len(s) : s[j].kind = "native" /\ s[j].id = f.scope
  PROVE  ScopedBelow(Append(s, f))
<1> DEFINE p == Append(s, f)
<1>1. /\ Len(s) \in Nat /\ Len(p) = Len(s) + 1 /\ p[Len(s) + 1] = f
      /\ \A i \in 1..Len(s) : p[i] = s[i]
  BY LenProperties, AppendProperties
<1> HIDE DEF p
<1>2. \A i \in 1..(Len(s) + 1) : i \in 1..Len(s) \/ (i = Len(s) + 1 /\ i - 1 = Len(s))
  <2>1. \A n \in Nat : \A i \in 1..(n + 1) : i \in 1..n \/ (i = n + 1 /\ i - 1 = n)
    OBVIOUS
  <2> QED
    BY <1>1, <2>1
<1>3. \A i \in 1..Len(s) : \A j \in 1..(i - 1) : j \in 1..Len(s)
  BY <1>1
<1>4. ScopedBelow(p)
  <2> SUFFICES ASSUME NEW i \in 1..Len(p), p[i].kind = "run", p[i].scope # None
               PROVE  \E j \in 1..(i - 1) : p[j].kind = "native" /\ p[j].id = p[i].scope
    BY DEF ScopedBelow
  <2>1. CASE i \in 1..Len(s)
    BY <1>1, <1>3, <2>1 DEF ScopedBelow
  <2>2. CASE i = Len(s) + 1 /\ i - 1 = Len(s)
    BY <1>1, <2>2
  <2> QED
    BY <1>1, <1>2, <2>1, <2>2
<1> QED
  BY <1>4 DEF p

LEMMA ScopedReplace ==
  ASSUME NEW s \in Seq(Frame), ScopedBelow(s), NEW k \in 1..Len(s), NEW f \in Frame,
         s[k].kind = "run", f.kind = "run", f.scope = s[k].scope
  PROVE  ScopedBelow([s EXCEPT ![k] = f])
<1> DEFINE p == [s EXCEPT ![k] = f]
<1>1. /\ Len(s) \in Nat /\ DOMAIN s = 1..Len(s) /\ Len(p) = Len(s)
      /\ \A i \in 1..Len(s) : p[i] = IF i = k THEN f ELSE s[i]
  BY LenProperties, ExceptSeq
<1> HIDE DEF p
<1>2. \A i \in 1..Len(s) : p[i].kind = s[i].kind
      /\ (s[i].kind = "native" => p[i] = s[i])
      /\ (s[i].kind = "run" => p[i].scope = s[i].scope)
  BY <1>1
<1>3. \A i \in 1..Len(s) : \A j \in 1..(i - 1) : j \in 1..Len(s)
  BY <1>1
<1>4. ScopedBelow(p)
  BY <1>1, <1>2, <1>3 DEF ScopedBelow
<1> QED
  BY <1>4 DEF p

LEMMA StepScopes ==
  ASSUME Inv, Mirrored, ScopedBelow(stack), Next
  PROVE  ScopedBelow(stack')
<1>1. /\ stack \in Seq(Frame) /\ StackOK(stack) /\ Len(stack) \in Nat /\ StepShape
      /\ active \in Seq(ExecutionIdentity)
  BY EveryStepHasAShape, LenProperties, InvParts DEF StackOK
<1>2. CASE Still
  BY <1>2 DEF Still
<1>3. ASSUME NEW f \in RunFrame, StartsRun(f) PROVE ScopedBelow(stack')
  <2>1. f \in Frame /\ stack' = Append(stack, f)
    BY <1>3 DEF StartsRun, Frame
  <2>2. f.scope # None =>
          \E j \in 1..Len(stack) : stack[j].kind = "native" /\ stack[j].id = f.scope
    <3> SUFFICES ASSUME f.scope # None
                 PROVE  \E j \in 1..Len(stack) :
                          stack[j].kind = "native" /\ stack[j].id = f.scope
      OBVIOUS
    <3>1. f.scope = active[Len(active)] /\ Len(active) \in DOMAIN active
      BY <1>1, <1>3, LastInRange DEF StartsRun, Last
    <3> QED
      BY <3>1, ActiveHasFrame
  <2> QED
    BY <1>1, <2>1, <2>2, ScopedPush
<1>4. CASE HandlerEnter \/ OverrideEnter
  <2>1. PICK f \in Frame : stack' = Append(stack, f) /\ f.kind # "run"
    <3>1. /\ [kind |-> "handler"] \in Frame
          /\ [kind |-> "native", id |-> Identity] \in Frame
      BY InvParts DEF Frame, HandlerFrame, NativeFrame
    <3> QED
      BY <1>4, <3>1 DEF HandlerEnter, OverrideEnter
  <2> QED
    BY <1>1, <2>1, ScopedPush
<1>5. CASE Counts
  <2>1. /\ Len(stack) \in 1..Len(stack) /\ Top = stack[Len(stack)]
        /\ Top \in RunFrame /\ Top.kind = "run"
    BY <1>1, <1>5, TopOK, CountedOK DEF Counts, Dispatching, Running, Top
  <2>2. /\ Counted(Top) \in Frame /\ Counted(Top).kind = "run"
        /\ Counted(Top).scope = Top.scope
    BY <1>5, <2>1, CountedOK DEF Counts, Counted, RunFrame, Frame
  <2>3. stack' = [stack EXCEPT ![Len(stack)] = Counted(Top)]
    BY <1>5 DEF Counts
  <2> QED
    BY <1>1, <2>1, <2>2, <2>3, ScopedReplace
<1>6. CASE \E x : Stops(x)
  <2>1. Len(stack) - 1 \in 0..Len(stack) /\ stack' = PopBack(stack)
    BY <1>1, <1>6, TopOK DEF Stops, Running
  <2> QED
    BY <1>1, <2>1, ScopedPrefix DEF PopBack
<1>7. CASE CallbackEnds
  <2> DEFINE p == PopBack(stack)
  <2>1. /\ Len(stack) - 2 \in 0..Len(stack) /\ Len(stack) - 1 \in 0..Len(stack)
        /\ Caller \in RunFrame /\ Caller.kind = "run"
        /\ Len(p) = Len(stack) - 1 /\ p[Len(stack) - 1] = Caller
        /\ p \in Seq(Frame) /\ Len(stack) - 1 \in 1..Len(p)
    BY <1>1, <1>7, CallbackAbove, TopOK, PopBackType
  <2>2. CASE stack' = BelowCaller
    BY <1>1, <2>1, <2>2, ScopedPrefix DEF BelowCaller
  <2>3. ASSUME NEW x, NativeContinues(x) PROVE ScopedBelow(stack')
    <3>1. ScopedBelow(p)
      BY <1>1, <2>1, ScopedPrefix DEF PopBack
    <3>2. stack' = [p EXCEPT ![Len(stack) - 1] = Reauthorized(Caller)]
      BY <2>3 DEF NativeContinues
    <3> HIDE DEF p
    <3>3. /\ Reauthorized(Caller) \in Frame /\ Reauthorized(Caller).kind = "run"
          /\ Reauthorized(Caller).scope = Caller.scope
      BY <2>1, InvParts DEF Reauthorized, RunFrame, Frame
    <3> QED
      BY <2>1, <3>1, <3>2, <3>3, ScopedReplace
  <2> QED
    BY <1>7, <2>2, <2>3
       DEF CallbackEnds, NativeReturns, HandlerReturns, CallbackThrows, EndRun
<1> QED
  BY <1>1, <1>2, <1>3, <1>4, <1>5, <1>6, <1>7 DEF StepShape

LEMMA SuppressedIsActive ==
  ASSUME Mirrored, ScopedBelow(stack)
  PROVE  Range(suppressions) \subseteq Range(active)
<1> SUFFICES ASSUME NEW k \in DOMAIN suppressions
             PROVE  suppressions[k] \in Range(active)
  BY DEF Range
<1>1. PICK i \in DOMAIN ScopeMarks(stack) :
        /\ ScopeMarks(stack)[i] # None
        /\ MarkedUpTo(ScopeMarks(stack), i) = k
  BY DEF Mirrored, Mirror, Mirrors
<1>2. suppressions[k] = ScopeMarks(stack)[i]
  BY <1>1 DEF Mirrored, Mirror, Mirrors
<1>3. /\ Len(stack) \in Nat /\ i \in 1..Len(stack)
      /\ ScopeMarks(stack)[i] = ScopeMark(stack[i])
  BY MarksType, LenProperties DEF Mirrored, Mirror
<1>4. CASE stack[i].kind = "native"
  BY <1>2, <1>3, <1>4, FrameIsActive, MarkOf
<1>5. CASE stack[i].kind = "run" /\ stack[i].scope # None
  <2>1. PICK j \in 1..(i - 1) : stack[j].kind = "native" /\ stack[j].id = stack[i].scope
    BY <1>3, <1>5 DEF ScopedBelow
  <2>2. j \in 1..Len(stack)
    BY <1>3, <2>1
  <2>3. stack[i].scope \in Range(active)
    BY <2>1, <2>2, FrameIsActive
  <2> QED
    BY <1>2, <1>3, <1>5, <2>3, MarkOf
<1> QED
  BY <1>1, <1>3, <1>4, <1>5 DEF ScopeMark

(* An override is out of use exactly while an activation of it is on the   *)
(* call stack: with NoOverrideReentered, find refuses an identity if and   *)
(* only if it is in active_overrides (ScopedSuppression).                  *)
THEOREM ExecutorHidesOnlyActive == Spec => []HiddenOnlyWhileActive
<1>1. Inv /\ Mirrored /\ [Next]_vars => Mirrored'
  BY StepMirrors DEF vars, Mirrored, registryVars
<1>2. Inv /\ Mirrored /\ ScopedBelow(stack) /\ [Next]_vars => ScopedBelow(stack)'
  BY StepScopes DEF vars, ScopedBelow
<1>3. Init => ScopedBelow(stack)
  BY EmptySeq DEF Init, ScopedBelow
<1>4. Mirrored /\ ScopedBelow(stack) => HiddenOnlyWhileActive
  BY SuppressedIsActive DEF HiddenOnlyWhileActive
<1> QED
  BY <1>1, <1>2, <1>3, <1>4, InitMirrors, InvInit, InvNext, PTL DEF Spec

(* Guest code that a registered override replaces runs only inside an      *)
(* activation of that override, or once because continue_original asked    *)
(* for it, however the scopes before it were left (run's original_once,    *)
(* run_override, and OverrideRegistry::find).                              *)
THEOREM ExecutorOriginalOnlyByRequest == Spec => OriginalOnlyByRequest
<1> DEFINE Promise == GuestSteps /\ Identity \in overrides =>
                        \/ Identity \in Range(active)
                        \/ pending = Identity /\ pending' = None
<1>1. Inv /\ HiddenOnlyWhileActive /\ [Next]_vars => [Promise]_vars
  <2> SUFFICES ASSUME Inv, HiddenOnlyWhileActive, Next, GuestSteps,
                      Identity \in overrides, Identity \notin Range(active)
               PROVE  pending = Identity /\ pending' = None
    OBVIOUS
  <2>1. \/ GuestStep \/ OverrideEnter
        \/ \E tag \in Tags : GuestStepReplacesImage(tag)
    BY DispatchIsAStep DEF GuestSteps
  <2>2. ~OverrideEnter
    BY EnteringDeepens DEF GuestSteps
  <2>3. Finds(Identity)
    BY DEF Finds, IsSuppressed, HiddenOnlyWhileActive
  <2>4. CASE GuestStep
    BY <2>3, <2>4 DEF GuestStep, CoreSteps, PendingAfterStep
  <2>5. ASSUME NEW tag \in Tags, GuestStepReplacesImage(tag)
        PROVE  pending = Identity /\ pending' = None
    BY <2>3, <2>5 DEF GuestStepReplacesImage, CoreSteps
  <2> QED
    BY <2>1, <2>2, <2>4, <2>5
<1> QED
  BY <1>1, InvInit, InvNext, ExecutorHidesOnlyActive, PTL
     DEF Spec, OriginalOnlyByRequest

(* Between two calls of the title no scope is alive: every registered      *)
(* override is dispatched again, whatever the calls before did, and        *)
(* however their callbacks ended (run_override; ScopedSuppression).        *)
THEOREM ExecutorIdleFindsEveryOverride ==
  Spec => [](stack = <<>> => /\ active = <<>> /\ suppressions = <<>>
                             /\ \A id : Finds(id) <=> id \in overrides)
<1> DEFINE Idle == stack = <<>> => /\ active = <<>> /\ suppressions = <<>>
                                   /\ \A id : Finds(id) <=> id \in overrides
<1>1. Inv /\ Mirrored /\ [Next]_vars => Mirrored'
  BY StepMirrors DEF vars, Mirrored, registryVars
<1>2. Mirrored => Idle
  <2> SUFFICES ASSUME Mirrored, stack = <<>>
               PROVE  /\ active = <<>> /\ suppressions = <<>>
                      /\ \A id : Finds(id) <=> id \in overrides
    OBVIOUS
  <2>1. ActiveMarks(stack) = <<>> /\ ScopeMarks(stack) = <<>> /\ Len(<<>>) = 0
    BY DEF ActiveMarks, ScopeMarks
  <2>2. Len(active) = 0 /\ Len(suppressions) = 0
    BY <2>1, MarkedNone DEF Mirrored, Mirror, Mirrors
  <2>3. active = <<>> /\ suppressions = <<>>
    BY <2>2, EmptySeq DEF Mirrored, Mirror
  <2>4. Range(suppressions) = {}
    BY <2>3 DEF Range
  <2> QED
    BY <2>3, <2>4 DEF Finds, IsSuppressed
<1> QED
  BY <1>1, <1>2, InitMirrors, InvInit, InvNext, PTL DEF Spec

-----------------------------------------------------------------------------
(* How deep overrides nest.                                                *)

(* A sequence without repetitions is no longer than the set it is over.    *)
LEMMA NoLongerThanItsSet ==
  ASSUME NEW S, IsFiniteSet(S), NEW q \in Seq(S), IsInjective(q)
  PROVE  Len(q) <= Cardinality(S)
<1>1. Len(q) \in Nat /\ q \in [1..Len(q) -> S]
  BY LenProperties
<1>2. q \in Injection(1..Len(q), S)
  BY <1>1 DEF Injection
<1>3. Cardinality(1..Len(q)) <= Cardinality(S)
  BY <1>2, FS_Injection
<1>4. Cardinality(1..Len(q)) = Len(q)
  <2>1. Cardinality(1..Len(q)) = IF 1 > Len(q) THEN 0 ELSE Len(q) - 1 + 1
    BY <1>1, FS_Interval
  <2> QED
    BY <1>1, <2>1
<1> QED
  BY <1>3, <1>4

(* One entry of active_overrides for each native activation.               *)
LEMMA NativesCounted ==
  ASSUME Mirrored
  PROVE  Cardinality(Natives) = Len(active)
<1> DEFINE m == ActiveMarks(stack)
<1>1. /\ stack \in Seq(Frame) /\ Len(m) = Len(stack) /\ DOMAIN stack = 1..Len(stack)
      /\ \A i \in 1..Len(stack) : m[i] = ActiveMark(stack[i])
  BY MarksType, LenProperties DEF Mirrored, Mirror
<1>2. \A i \in 1..Len(stack) : ActiveMark(stack[i]) # None <=> stack[i].kind = "native"
  <2> SUFFICES ASSUME NEW i \in 1..Len(stack)
               PROVE  ActiveMark(stack[i]) # None <=> stack[i].kind = "native"
    OBVIOUS
  <2>1. stack[i].kind = "native" => stack[i].id # None
    BY <1>1, ElementOfSeq, FrameKinds, ExecutorAssumption DEF NativeFrame
  <2> QED
    BY <2>1 DEF ActiveMark
<1>3. Len(active) = MarkedUpTo(m, Len(stack))
  BY <1>1 DEF Mirrored, Mirror, Mirrors
<1> HIDE DEF m
<1>4. Natives = {j \in 1..Len(stack) : m[j] # None}
  BY <1>1, <1>2 DEF Natives
<1> QED
  BY <1>3, <1>4 DEF MarkedUpTo

(* What is registered is finite, and what is running is registered.        *)
Registered == IsFiniteSet(overrides) /\ Range(active) \subseteq overrides

(* A title registers and removes only what is not running.                 *)
LEMMA OverridesMove ==
  ASSUME Next
  PROVE  \/ UNCHANGED overrides
         \/ \E id : /\ id \notin Range(active) /\ UNCHANGED active
                    /\ overrides' = overrides \union {id} \/ overrides' = overrides \ {id}
<1>1. CASE CallbackEnds
  BY <1>1 DEF CallbackEnds, NativeContinues, NativeReturns, HandlerReturns,
              CallbackThrows
<1>2. CASE RunLoop
  BY <1>2 DEF RunLoop, RunStops, HandlerEnter, OverrideEnter, GuestStep,
              GuestStepReplacesImage, registryVars
<1>3. ASSUME NEW a \in Addr, RegisterOverride(a)
      PROVE  \E id : /\ id \notin Range(active) /\ UNCHANGED active
                     /\ overrides' = overrides \union {id}
  BY <1>3 DEF RegisterOverride, Install
<1>4. ASSUME NEW id \in overrides, RemoveOverride(id)
      PROVE  /\ id \notin Range(active) /\ UNCHANGED active
             /\ overrides' = overrides \ {id}
  BY <1>4 DEF RemoveOverride, Erase
<1>5. CASE TitleStep
  BY <1>3, <1>4, <1>5
     DEF TitleStep, TitleWritesPc, TitleWritesA7, TitleReturnsForGuest, ReplaceImage,
         TitleProtects, SetBreakpoint, ClearBreakpoint, ClearBreakpoints,
         SetBreakpointHandler, registryVars
<1>6. CASE TitleCall
  BY <1>6 DEF TitleCall, Execute, ContinueCall, CallOriginal, CallOriginalSubroutine,
              CallInterrupt, Call, ContinueOriginal, Unmoved, registryVars
<1> QED
  BY <1>1, <1>2, <1>5, <1>6 DEF Next

LEMMA ActiveMoves ==
  ASSUME Inv, Next
  PROVE  \/ Range(active') \subseteq Range(active)
         \/ OverrideEnter /\ Range(active') = Range(active) \union {Identity}
<1>1. active \in Seq(ExecutionIdentity) /\ Identity \in ExecutionIdentity /\ StepShape
  BY InvParts, EveryStepHasAShape
<1>2. CASE OverrideEnter
  BY <1>1, <1>2, RangeOfAppend DEF OverrideEnter
<1>3. CASE active' \in {active, PopBack(active)}
  BY <1>1, <1>3, RangeOfPop
<1> QED
  BY <1>1, <1>2, <1>3
     DEF StepShape, Still, StartsRun, HandlerEnter, Counts, Stops, CallbackEnds,
         NativeContinues, NativeReturns, HandlerReturns, CallbackThrows

LEMMA RegisteredNext ==
  ASSUME Inv, Registered, Next
  PROVE  Registered'
<1>1. IsFiniteSet(overrides')
  BY OverridesMove, FS_AddElement, FS_RemoveElement DEF Registered
<1>2. CASE UNCHANGED overrides
  <2>1. OverrideEnter => Identity \in overrides
    BY DEF OverrideEnter, Finds
  <2> QED
    BY <1>1, <1>2, <2>1, ActiveMoves DEF Registered
<1>3. CASE \E id : /\ id \notin Range(active) /\ UNCHANGED active
                   /\ overrides' = overrides \union {id} \/ overrides' = overrides \ {id}
  <2>1. PICK id : /\ id \notin Range(active) /\ UNCHANGED active
                  /\ overrides' = overrides \union {id} \/ overrides' = overrides \ {id}
    BY <1>3
  <2>2. ASSUME NEW S, S \subseteq overrides, id \notin S
        PROVE  S \subseteq overrides'
    BY <2>1, <2>2
  <2>3. Range(active) \subseteq overrides'
    BY <2>1, <2>2 DEF Registered
  <2>4. Range(active') = Range(active)
    BY <2>1
  <2> QED
    BY <1>1, <2>3, <2>4 DEF Registered
<1> QED
  BY <1>2, <1>3, OverridesMove

(* Native activations are never deeper than there are registered           *)
(* overrides, so what the guest recurses through cannot grow the C++ stack *)
(* without end (run_override; OverrideRegistry::find).                     *)
THEOREM ExecutorOverridesNestBounded == Spec => []OverridesNestBounded
<1>1. Inv /\ Mirrored /\ [Next]_vars => Mirrored'
  BY StepMirrors DEF vars, Mirrored, registryVars
<1>2. Inv /\ Mirrored /\ IsInjective(active) /\ [Next]_vars => IsInjective(active)'
  BY StaysInjective DEF vars
<1>3. Inv /\ Registered /\ [Next]_vars => Registered'
  BY RegisteredNext DEF vars, registryVars, Registered
<1>4. Init => IsInjective(active) /\ Registered
  BY FS_EmptySet DEF Init, RegistryInit, IsInjective, Registered, Range
<1>5. Inv /\ Mirrored /\ IsInjective(active) /\ Registered => OverridesNestBounded
  <2> SUFFICES ASSUME Inv, Mirrored, IsInjective(active), Registered
               PROVE  OverridesNestBounded
    OBVIOUS
  <2>1. active \in Seq(overrides)
    <3>1. /\ active \in Seq(ExecutionIdentity) /\ Range(active) \subseteq overrides
          /\ Len(active) \in Nat
      BY InvParts, LenProperties DEF Registered
    <3>2. active \in [1..Len(active) -> ExecutionIdentity] /\ DOMAIN active = 1..Len(active)
      BY <3>1, LenProperties
    <3>3. \A k \in 1..Len(active) : active[k] \in overrides
      BY <3>1, <3>2 DEF Range
    <3>4. active \in [1..Len(active) -> overrides]
      BY <3>2, <3>3
    <3> QED
      BY <3>1, <3>4, SeqDef
  <2> QED
    BY <2>1, NoLongerThanItsSet, NativesCounted DEF Registered, OverridesNestBounded
<1> QED
  BY <1>1, <1>2, <1>3, <1>4, <1>5, InitMirrors, InvInit, InvNext, PTL DEF Spec
=============================================================================
