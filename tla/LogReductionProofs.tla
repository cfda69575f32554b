------------------------- MODULE LogReductionProofs -------------------------
(***************************************************************************)
(* Theorems about LogReduction, for any lines, windows, templates,         *)
(* thresholds, processes and bounds.                                       *)
(***************************************************************************)
EXTENDS LogReduction, FiniteSetTheorems, SequenceTheorems, TLAPS

-----------------------------------------------------------------------------
(* The selector.                                                           *)

SelectorTyped ==
    /\ stream \in Seq([line : Lines, from : Nat \ {0}]) /\ instance \in Nat \ {0}
    /\ held \in Seq(DOMAIN stream) /\ trailing \in 0..After /\ kept \in Seq(DOMAIN stream)

(* Nothing is from an instance that is still to be read.                   *)
InstanceIsLast == \A i \in DOMAIN stream : stream[i].from <= instance

(* The deque has the newest lines of the instance, none of them kept, and  *)
(* as many of them as a match could need.                                  *)
HeldNewest ==
    /\ Len(held) <= Before /\ (Len(held) > 0 => trailing = 0)
    /\ \A k \in DOMAIN held : /\ held[k] = Len(stream) - Len(held) + k
                              /\ stream[held[k]].from = instance
    /\ \A a \in DOMAIN kept : kept[a] <= Len(stream) - Len(held)
    /\ \A i \in DOMAIN stream \ Range(kept) :
          stream[i].from = instance /\ i > Len(stream) - Before => i > Len(stream) - Len(held)

(* The counter tells how far the last match of the instance reaches.       *)
MatchOf(i) == stream[i].line \in Mentioned /\ stream[i].from = instance
TrailingReaches ==
    /\ trailing > 0 => \E j \in DOMAIN stream : MatchOf(j) /\ j + After = Len(stream) + trailing
    /\ \A j \in DOMAIN stream : MatchOf(j) => j + After <= Len(stream) + trailing

SelectorRight == InstanceIsLast /\ HeldNewest /\ TrailingReaches /\ ExactlyTheWindows

(* A line fed stands at the end of the stream, which is else as it was.    *)
LEMMA FedStream ==
    ASSUME NEW line \in Lines, SelectorTyped,
           stream' = Append(stream, [line |-> line, from |-> instance])
    PROVE  /\ stream' \in Seq([line : Lines, from : Nat \ {0}])
           /\ Len(stream) \in Nat /\ Len(stream') = Len(stream) + 1
           /\ DOMAIN stream = 1..Len(stream) /\ DOMAIN stream' = 1..(Len(stream) + 1)
           /\ \A i \in 1..Len(stream) : stream'[i] = stream[i]
           /\ stream'[Len(stream) + 1] = [line |-> line, from |-> instance]
  <1>1. [line |-> line, from |-> instance] \in [line : Lines, from : Nat \ {0}]
    BY DEF SelectorTyped
  <1>2. QED
    BY <1>1, AppendProperties, LenProperties DEF SelectorTyped

(* Positions stay positions as the stream grows.                           *)
LEMMA FedTyped ==
    ASSUME NEW line \in Lines, SelectorTyped, Feed(line)
    PROVE  SelectorTyped'
  <1> DEFINE n == Len(stream)
  <1>1. /\ stream' \in Seq([line : Lines, from : Nat \ {0}]) /\ n \in Nat
        /\ DOMAIN stream = 1..n /\ DOMAIN stream' = 1..(n + 1)
    BY FedStream DEF Feed
  <1>2. 1..n \subseteq 1..(n + 1) /\ n + 1 \in 1..(n + 1)
    BY <1>1
  <1>3. held \in Seq(1..(n + 1)) /\ kept \in Seq(1..(n + 1)) /\ Position = n + 1
    BY <1>1, <1>2, SeqMonotonic DEF SelectorTyped, Position
  <1>4. Append(held, n + 1) \in Seq(1..(n + 1)) /\ Append(kept, n + 1) \in Seq(1..(n + 1))
    BY <1>2, <1>3, AppendProperties
  <1>5. kept \o Append(held, n + 1) \in Seq(1..(n + 1))
    BY <1>3, <1>4, ConcatProperties
  <1>6. Newest(Append(held, n + 1)) \in Seq(1..(n + 1))
    <2>1. Append(held, n + 1) # <<>>
      BY <1>2, <1>3, AppendProperties
    <2>2. Tail(Append(held, n + 1)) \in Seq(1..(n + 1))
      BY <1>4, <2>1, HeadTailProperties
    <2>3. QED
      BY <1>4, <2>2 DEF Newest
  <1>7. <<>> \in Seq(1..(n + 1))
    BY EmptySeq
  <1>8. After \in Nat /\ trailing \in 0..After /\ instance \in Nat \ {0} /\ instance' = instance
    BY SelectionAssumption DEF SelectorTyped, Feed
  <1>9. held' \in Seq(1..(n + 1)) /\ trailing' \in 0..After /\ kept' \in Seq(1..(n + 1))
    <2>1. CASE Match(line)
      BY <2>1, <1>3, <1>5, <1>7, <1>8 DEF Match
    <2>2. CASE KeepTrailing(line)
      BY <2>2, <1>3, <1>4, <1>8 DEF KeepTrailing
    <2>3. CASE Hold(line)
      BY <2>3, <1>3, <1>6, <1>8 DEF Hold
    <2>4. QED
      BY <2>1, <2>2, <2>3 DEF Feed
  <1>10. QED
    BY <1>1, <1>8, <1>9 DEF SelectorTyped

(* A selector that has read nothing, or nothing of this instance.          *)
LEMMA FreshRight ==
    ASSUME Fresh
    PROVE  SelectorTyped /\ SelectorRight
  <1>1. /\ \A T : <<>> \in Seq(T)
        /\ Len(<<>>) = 0 /\ DOMAIN <<>> = {}
    BY EmptySeq, LenProperties
  <1>2. Range(kept) = {} /\ Windows = {}
    BY <1>1 DEF Fresh, Range, Windows
  <1>3. QED
    BY <1>1, <1>2, SelectionAssumption
       DEF Fresh, SelectorTyped, SelectorRight, InstanceIsLast, HeldNewest, TrailingReaches,
           ExactlyTheWindows

LEMMA RestartRight ==
    ASSUME Restart
    PROVE  SelectorTyped' /\ SelectorRight'
  <1>1. /\ \A T : <<>> \in Seq(T)
        /\ Len(<<>>) = 0 /\ DOMAIN <<>> = {}
    BY EmptySeq, LenProperties
  <1>2. Range(kept') = {} /\ Windows' = {}
    BY <1>1 DEF Restart, Range, Windows
  <1>3. QED
    BY <1>1, <1>2, SelectionAssumption
       DEF Restart, SelectorTyped, SelectorRight, InstanceIsLast, HeldNewest, TrailingReaches,
           ExactlyTheWindows

LEMMA OpenRight ==
    ASSUME SelectorTyped, SelectorRight, OpenInstance
    PROVE  SelectorTyped' /\ SelectorRight'
  <1>1. /\ \A T : <<>> \in Seq(T)
        /\ Len(<<>>) = 0 /\ DOMAIN <<>> = {}
    BY EmptySeq, LenProperties
  <1>2. stream' = stream /\ kept' = kept /\ instance' = instance + 1 /\ held' = <<>> /\ trailing' = 0
    BY DEF OpenInstance
  <1>3. SelectorTyped'
    BY <1>1, <1>2, SelectionAssumption DEF SelectorTyped
  <1>4. \A i \in DOMAIN stream : stream[i].from \in Nat /\ i \in Nat
    <2>1. DOMAIN stream = 1..Len(stream) /\ Len(stream) \in Nat
      BY LenProperties DEF SelectorTyped
    <2>2. \A i \in 1..Len(stream) : stream[i] \in [line : Lines, from : Nat \ {0}]
      BY ElementOfSeq DEF SelectorTyped
    <2>3. QED
      BY <2>1, <2>2
  <1>5. \A i \in DOMAIN stream : stream[i].from < instance'
    BY <1>2, <1>4 DEF SelectorTyped, SelectorRight, InstanceIsLast
  <1>6. Len(stream) \in Nat /\ \A a \in DOMAIN kept : kept[a] \in 1..Len(stream)
    BY LenProperties DEF SelectorTyped
  <1>7. ExactlyTheWindows'
    BY <1>2 DEF SelectorRight, ExactlyTheWindows, Windows, Near
  <1>8. InstanceIsLast' /\ HeldNewest' /\ TrailingReaches'
    BY <1>1, <1>2, <1>4, <1>5, <1>6, SelectionAssumption
       DEF InstanceIsLast, HeldNewest, TrailingReaches, MatchOf, SelectorTyped
  <1>9. QED
    BY <1>3, <1>7, <1>8 DEF SelectorRight
(* What a match emits: what was kept, the held positions and its own,      *)
(* which are all the positions from the first held one on.                 *)
LEMMA Emitted ==
    ASSUME SelectorTyped, HeldNewest, Len(stream) \in Nat,
           NEW all, all = kept \o Append(held, Len(stream) + 1)
    PROVE  /\ Len(kept) \in Nat /\ Len(held) \in Nat /\ DOMAIN kept = 1..Len(kept)
           /\ DOMAIN all = 1..(Len(kept) + Len(held) + 1)
           /\ \A x \in 1..Len(kept) : all[x] = kept[x]
           /\ \A x \in (Len(kept) + 1)..(Len(kept) + Len(held) + 1) :
                 all[x] = Len(stream) - Len(held) + (x - Len(kept))
  <1> DEFINE n == Len(stream)
             m == Len(kept)
             h == Len(held)
             tail == Append(held, n + 1)
  <1>1. kept \in Seq(Nat) /\ held \in Seq(Nat) /\ n + 1 \in Nat
    <2>1. DOMAIN stream \subseteq Nat
      BY LenProperties DEF SelectorTyped
    <2>2. QED
      BY <2>1, SeqMonotonic DEF SelectorTyped
  <1>2. /\ m \in Nat /\ h \in Nat
        /\ DOMAIN kept = 1..m /\ DOMAIN held = 1..h
    BY <1>1, LenProperties
  <1>3. /\ tail \in Seq(Nat) /\ Len(tail) = h + 1 /\ tail[h + 1] = n + 1
        /\ \A k \in 1..h : tail[k] = held[k]
    BY <1>1, AppendProperties
  <1>4. \A k \in 1..(h + 1) : tail[k] = n - h + k
    <2>1. \A k \in 1..h : held[k] = n - h + k
      BY <1>2 DEF HeldNewest
    <2>2. \A k \in 1..(h + 1) : k \in 1..h \/ k = h + 1
      BY <1>2
    <2>3. n - h + (h + 1) = n + 1
      BY <1>2
    <2>4. QED
      BY <2>1, <2>2, <2>3, <1>3
  <1>5. /\ all \in Seq(Nat) /\ Len(all) = m + (h + 1)
        /\ \A x \in 1..(m + (h + 1)) : all[x] = IF x <= m THEN kept[x] ELSE tail[x - m]
    <2> HIDE DEF tail
    <2>1. /\ kept \o tail \in Seq(Nat) /\ Len(kept \o tail) = m + Len(tail)
          /\ \A x \in 1..(m + Len(tail)) :
                (kept \o tail)[x] = IF x <= m THEN kept[x] ELSE tail[x - m]
      BY <1>1, <1>3, ConcatProperties
    <2>2. all = kept \o tail
      BY DEF tail
    <2>3. QED
      BY <2>1, <2>2, <1>3
  <1>6. DOMAIN all = 1..(m + h + 1)
    BY <1>2, <1>5, LenProperties
  <1>7. \A x \in (m + 1)..(m + h + 1) : all[x] = n - h + (x - m)
    <2> TAKE x \in (m + 1)..(m + h + 1)
    <2>1. x \in 1..(m + (h + 1)) /\ ~(x <= m) /\ x - m \in 1..(h + 1)
      BY <1>2
    <2>2. all[x] = tail[x - m]
      BY <1>5, <2>1
    <2>3. QED
      BY <1>4, <2>1, <2>2
  <1>8. \A x \in 1..m : all[x] = kept[x]
    BY <1>2, <1>5
  <1>9. QED
    BY <1>2, <1>6, <1>7, <1>8

(* The windows after a line is fed: the old ones, and those it opens.      *)
LEMMA FedWindows ==
    ASSUME NEW line \in Lines, SelectorTyped, InstanceIsLast,
           stream' = Append(stream, [line |-> line, from |-> instance])
    PROVE  LET p == Len(stream) + 1
           IN  Windows' = Windows
                 \cup {i \in DOMAIN stream : /\ line \in Mentioned
                                             /\ stream[i].from = instance /\ p - Before <= i}
                 \cup {i \in {p} : \/ line \in Mentioned
                                   \/ \E j \in DOMAIN stream : MatchOf(j) /\ p <= j + After}
  <1> DEFINE n == Len(stream)
             p == n + 1
             back == {i \in DOMAIN stream : /\ line \in Mentioned
                                            /\ stream[i].from = instance /\ p - Before <= i}
             self == {i \in {p} : \/ line \in Mentioned
                                  \/ \E j \in DOMAIN stream : MatchOf(j) /\ p <= j + After}
  <1>1. /\ n \in Nat /\ DOMAIN stream = 1..n /\ DOMAIN stream' = 1..p
        /\ \A i \in 1..n : stream'[i] = stream[i]
        /\ stream'[p] = [line |-> line, from |-> instance]
    BY FedStream
  <1>2. Before \in Nat /\ After \in Nat
    BY SelectionAssumption
  <1>3. 1..p = 1..n \cup {p} /\ p \notin 1..n
    BY <1>1
  <1>4. \A i, j \in 1..p : Near(i, j)' <=> \/ i \in 1..n /\ j \in 1..n /\ Near(i, j)
                                           \/ j = p /\ i \in back
                                           \/ j = p /\ i = p /\ line \in Mentioned
                                           \/ j \in 1..n /\ i = p /\ MatchOf(j) /\ p <= j + After
    <2> SUFFICES ASSUME NEW i \in 1..p, NEW j \in 1..p
                 PROVE  Near(i, j)' <=> \/ i \in 1..n /\ j \in 1..n /\ Near(i, j)
                                        \/ j = p /\ i \in back
                                        \/ j = p /\ i = p /\ line \in Mentioned
                                        \/ j \in 1..n /\ i = p /\ MatchOf(j) /\ p <= j + After
      OBVIOUS
    <2>1. CASE i \in 1..n /\ j \in 1..n
      BY <2>1, <1>1, <1>3 DEF Near
    <2>2. CASE i \in 1..n /\ j = p
      BY <2>2, <1>1, <1>2, <1>3 DEF Near
    <2>3. CASE i = p /\ j \in 1..n
      BY <2>3, <1>1, <1>2, <1>3 DEF Near, MatchOf
    <2>4. CASE i = p /\ j = p
      BY <2>4, <1>1, <1>2, <1>3 DEF Near
    <2>5. QED
      BY <2>1, <2>2, <2>3, <2>4, <1>3
  <1>5. Windows' = {i \in 1..p : \E j \in 1..p : Near(i, j)'}
    BY <1>1 DEF Windows
  <1>6. \A i \in 1..n : i \in Windows' <=> i \in Windows \/ i \in back
    BY <1>1, <1>3, <1>4, <1>5 DEF Windows
  <1>7. p \in self <=> \E j \in 1..p : \/ j = p /\ line \in Mentioned
                                       \/ j \in 1..n /\ MatchOf(j) /\ p <= j + After
    BY <1>1, <1>3
  <1>8. p \in 1..p
    BY <1>3
  <1>9. p \notin back
    BY <1>1, <1>3
  <1>10. \A i \in {p} : i \in {k \in 1..p : \E j \in 1..p : Near(k, j)'} <=> i \in self
    BY <1>3, <1>4, <1>7, <1>8, <1>9
  <1>11. Windows' \subseteq 1..p /\ Windows \subseteq 1..n /\ back \subseteq 1..n /\ self \subseteq {p}
    BY <1>1, <1>5 DEF Windows
  <1>12. QED
    BY <1>3, <1>5, <1>6, <1>10, <1>11

LEMMA MatchRight ==
    ASSUME NEW line \in Lines, SelectorTyped, SelectorRight, Match(line),
           stream' = Append(stream, [line |-> line, from |-> instance]), instance' = instance
    PROVE  SelectorRight'
  <1> DEFINE n == Len(stream)
             m == Len(kept)
             h == Len(held)
             p == n + 1
  <1>1. /\ n \in Nat /\ Len(stream') = p /\ DOMAIN stream = 1..n /\ DOMAIN stream' = 1..p
        /\ \A i \in 1..n : stream'[i] = stream[i]
        /\ stream'[p] = [line |-> line, from |-> instance]
    BY FedStream
  <1>2. Before \in Nat /\ After \in Nat /\ instance \in Nat
    BY SelectionAssumption DEF SelectorTyped
  <1>3. HeldNewest /\ InstanceIsLast /\ TrailingReaches /\ ExactlyTheWindows
    BY DEF SelectorRight
  <1>4. /\ kept' = kept \o Append(held, p) /\ held' = <<>> /\ trailing' = After
        /\ line \in Mentioned
    BY DEF Match, Position
  <1>5. /\ m \in Nat /\ h \in Nat /\ DOMAIN kept = 1..m
        /\ DOMAIN kept' = 1..(m + h + 1)
        /\ \A x \in 1..m : kept'[x] = kept[x]
        /\ \A x \in (m + 1)..(m + h + 1) : kept'[x] = n - h + (x - m)
    BY <1>1, <1>3, <1>4, Emitted
  <1>6. DOMAIN held = 1..h /\ \A a \in 1..m : kept[a] \in 1..n
    BY <1>1, <1>5, LenProperties, ElementOfSeq DEF SelectorTyped
  <1>7. Len(<<>>) = 0 /\ DOMAIN <<>> = {}
    OBVIOUS
  <1>8. h <= n
    <2>1. CASE h = 0
      BY <2>1, <1>1
    <2>2. CASE h > 0
      <3>1. 1 \in DOMAIN held /\ held[1] \in 1..n
        BY <2>2, <1>1, <1>5, <1>6, ElementOfSeq DEF SelectorTyped
      <3>2. held[1] = n - h + 1
        BY <3>1, <1>3 DEF HeldNewest
      <3>3. QED
        BY <3>1, <3>2, <1>1, <1>5
    <2>3. QED
      BY <2>1, <2>2, <1>5
  <1>9. Range(kept') = Range(kept) \cup ((n - h + 1)..p)
    <2>1. \A i \in (n - h + 1)..p : i \in Range(kept')
      <3> TAKE i \in (n - h + 1)..p
      <3>1. PICK x \in (m + 1)..(m + h + 1) : n - h + (x - m) = i
        <4>1. /\ i - (n - h) + m \in (m + 1)..(m + h + 1)
              /\ n - h + ((i - (n - h) + m) - m) = i
          BY <1>1, <1>5
        <4>2. QED
          BY <4>1
      <3>2. kept'[x] = i
        BY <3>1, <1>5
      <3>3. x \in 1..(m + h + 1)
        BY <1>5
      <3>4. QED
        BY <3>2, <3>3, <1>5 DEF Range
    <2>2. \A i \in Range(kept) : i \in Range(kept')
      BY <1>5 DEF Range
    <2>3. \A x \in 1..(m + h + 1) : kept'[x] \in Range(kept) \cup ((n - h + 1)..p)
      <3> TAKE x \in 1..(m + h + 1)
      <3>1. CASE x <= m
        BY <3>1, <1>5 DEF Range
      <3>2. CASE ~(x <= m)
        BY <3>2, <1>1, <1>5
      <3>3. QED
        BY <3>1, <3>2
    <2>4. QED
      BY <2>1, <2>2, <2>3, <1>5 DEF Range
  <1>10. \A a, b \in DOMAIN kept' : a < b => kept'[a] < kept'[b]
    <2> SUFFICES ASSUME NEW a \in 1..(m + h + 1), NEW b \in 1..(m + h + 1), a < b
                 PROVE  kept'[a] < kept'[b]
      BY <1>5
    <2>1. CASE b <= m
      <3>1. a \in 1..m /\ b \in 1..m
        BY <2>1, <1>5
      <3>2. kept[a] < kept[b]
        BY <3>1, <1>3, <1>5 DEF ExactlyTheWindows
      <3>3. QED
        BY <3>1, <3>2, <1>5
    <2>2. CASE a <= m /\ ~(b <= m)
      <3>1. a \in 1..m /\ b \in (m + 1)..(m + h + 1)
        BY <2>2, <1>5
      <3>2. kept[a] <= n - h /\ kept[a] \in 1..n
        BY <3>1, <1>3, <1>5, <1>6 DEF HeldNewest
      <3>3. kept'[a] = kept[a] /\ kept'[b] = n - h + (b - m)
        BY <3>1, <1>5
      <3>4. QED
        BY <3>1, <3>2, <3>3, <1>1, <1>5
    <2>3. CASE ~(a <= m)
      <3>1. a \in (m + 1)..(m + h + 1) /\ b \in (m + 1)..(m + h + 1)
        BY <2>3, <1>5
      <3>2. kept'[a] = n - h + (a - m) /\ kept'[b] = n - h + (b - m)
        BY <3>1, <1>5
      <3>3. QED
        BY <3>1, <3>2, <1>1, <1>5
    <2>4. QED
      BY <2>1, <2>2, <2>3
  <1>11. Range(kept') = Windows'
    <2> DEFINE back == {i \in DOMAIN stream : /\ line \in Mentioned
                                              /\ stream[i].from = instance /\ p - Before <= i}
    <2>1. Windows' = Windows \cup back \cup {p}
      <3>1. {i \in {p} : \/ line \in Mentioned
                         \/ \E j \in DOMAIN stream : MatchOf(j) /\ p <= j + After} = {p}
        BY <1>4
      <3>2. QED
        BY <3>1, <1>3, FedWindows
    <2>2. \A i \in back : i \in Range(kept) \cup ((n - h + 1)..p)
      <3> TAKE i \in back
      <3>1. i \in 1..n /\ stream[i].from = instance /\ i > n - Before
        BY <1>1, <1>2
      <3>2. i \notin Range(kept) => i > n - h
        BY <3>1, <1>1, <1>3 DEF HeldNewest
      <3>3. QED
        BY <3>1, <3>2, <1>1, <1>5
    <2>3. \A i \in (n - h + 1)..n : i \in back
      <3> TAKE i \in (n - h + 1)..n
      <3>1. i - (n - h) \in DOMAIN held /\ i \in 1..n
        BY <1>1, <1>5, <1>6, <1>8
      <3>2. held[i - (n - h)] = n - h + (i - (n - h)) /\ stream[held[i - (n - h)]].from = instance
        BY <3>1, <1>3 DEF HeldNewest
      <3>3. held[i - (n - h)] = i
        BY <3>1, <3>2, <1>1, <1>5
      <3>4. h <= Before
        BY <1>3 DEF HeldNewest
      <3>5. QED
        BY <3>1, <3>2, <3>3, <3>4, <1>1, <1>2, <1>4, <1>5
    <2>4. (n - h + 1)..p = ((n - h + 1)..n) \cup {p}
      BY <1>1, <1>5
    <2>5. Range(kept) = Windows
      BY <1>3 DEF ExactlyTheWindows
    <2>6. QED
      BY <2>1, <2>2, <2>3, <2>4, <2>5, <1>9
  <1>12. HeldNewest'
    <2>1. \A a \in DOMAIN kept' : kept'[a] <= p
      <3> TAKE a \in DOMAIN kept'
      <3>1. CASE a <= m
        <4>1. a \in 1..m
          BY <3>1, <1>5
        <4>2. QED
          BY <4>1, <1>1, <1>5, <1>6
      <3>2. CASE ~(a <= m)
        <4>1. a \in (m + 1)..(m + h + 1)
          BY <3>2, <1>5
        <4>2. QED
          BY <4>1, <1>1, <1>5
      <3>3. QED
        BY <3>1, <3>2
    <2>2. \A i \in DOMAIN stream' \ Range(kept') : i <= n - h \/ i > p
      BY <1>1, <1>5, <1>9
    <2>3. \A i \in DOMAIN stream' \ Range(kept') :
             ~(stream'[i].from = instance' /\ i > p - Before)
      <3> SUFFICES ASSUME NEW i \in DOMAIN stream' \ Range(kept'),
                          stream'[i].from = instance, i > p - Before
                   PROVE  FALSE
        OBVIOUS
      <3>1. i \in 1..n /\ i <= n - h
        BY <2>2, <1>1, <1>5
      <3>2. stream[i].from = instance /\ i \notin Range(kept) /\ i > n - Before
        BY <3>1, <1>1, <1>2, <1>9
      <3>3. i > n - h
        BY <3>1, <3>2, <1>1, <1>3 DEF HeldNewest
      <3>4. QED
        BY <3>1, <3>3, <1>1, <1>5
    <2>4. QED
      BY <2>1, <2>3, <1>1, <1>2, <1>4, <1>7 DEF HeldNewest
  <1>13. InstanceIsLast'
    BY <1>1, <1>2, <1>3 DEF InstanceIsLast
  <1>14. TrailingReaches'
    <2>1. p \in DOMAIN stream' /\ \A j \in DOMAIN stream' : j = p => MatchOf(j)'
      BY <1>1, <1>4 DEF MatchOf
    <2>2. \A j \in DOMAIN stream' : j + After <= p + After
      BY <1>1, <1>2
    <2>3. p + After = Len(stream') + trailing'
      BY <1>1, <1>4
    <2>4. \E j \in DOMAIN stream' : MatchOf(j)' /\ j + After = Len(stream') + trailing'
      BY <2>1, <2>3
    <2>5. \A j \in DOMAIN stream' : MatchOf(j)' => j + After <= Len(stream') + trailing'
      BY <2>2, <2>3
    <2>6. QED
      BY <2>4, <2>5 DEF TrailingReaches
  <1>15. QED
    BY <1>10, <1>11, <1>12, <1>13, <1>14 DEF SelectorRight, ExactlyTheWindows
LEMMA KeepTrailingRight ==
    ASSUME NEW line \in Lines, SelectorTyped, SelectorRight, KeepTrailing(line),
           stream' = Append(stream, [line |-> line, from |-> instance]), instance' = instance
    PROVE  SelectorRight'
  <1> DEFINE n == Len(stream)
             m == Len(kept)
             p == n + 1
  <1>1. /\ n \in Nat /\ Len(stream') = p /\ DOMAIN stream = 1..n /\ DOMAIN stream' = 1..p
        /\ \A i \in 1..n : stream'[i] = stream[i]
        /\ stream'[p] = [line |-> line, from |-> instance]
    BY FedStream
  <1>2. Before \in Nat /\ After \in Nat /\ instance \in Nat /\ trailing \in Nat
    BY SelectionAssumption DEF SelectorTyped
  <1>3. HeldNewest /\ InstanceIsLast /\ TrailingReaches /\ ExactlyTheWindows
    BY DEF SelectorRight
  <1>4. /\ kept' = Append(kept, p) /\ held' = held /\ trailing' = trailing - 1 /\ trailing > 0
        /\ line \notin Mentioned
    BY DEF KeepTrailing, Position
  <1>5. Len(held) = 0 /\ DOMAIN held = {}
    <2>1. Len(held) \in Nat /\ DOMAIN held = 1..Len(held)
      BY LenProperties DEF SelectorTyped
    <2>2. QED
      BY <2>1, <1>3, <1>4 DEF HeldNewest
  <1>6. /\ m \in Nat /\ DOMAIN kept = 1..m /\ DOMAIN kept' = 1..(m + 1)
        /\ \A x \in 1..m : kept'[x] = kept[x] /\ kept[x] \in 1..n
        /\ kept'[m + 1] = p
    <2>1. kept \in Seq(Nat) /\ p \in Nat
      <3>1. DOMAIN stream \subseteq Nat
        BY <1>1
      <3>2. QED
        BY <3>1, <1>1, SeqMonotonic DEF SelectorTyped
    <2>2. /\ m \in Nat /\ DOMAIN kept = 1..m /\ \A x \in 1..m : kept[x] \in 1..n
      BY <1>1, LenProperties, ElementOfSeq DEF SelectorTyped
    <2>3. /\ kept' \in Seq(Nat) /\ Len(kept') = m + 1 /\ kept'[m + 1] = p
          /\ \A x \in 1..m : kept'[x] = kept[x]
      BY <2>1, <1>4, AppendProperties
    <2>4. QED
      BY <2>2, <2>3, LenProperties
  <1>7. \A x \in 1..(m + 1) : x \in 1..m \/ x = m + 1
    BY <1>6
  <1>8. Range(kept') = Range(kept) \cup {p}
    BY <1>6, <1>7 DEF Range
  <1>9. \A a, b \in DOMAIN kept' : a < b => kept'[a] < kept'[b]
    <2> SUFFICES ASSUME NEW a \in 1..(m + 1), NEW b \in 1..(m + 1), a < b
                 PROVE  kept'[a] < kept'[b]
      BY <1>6
    <2>1. a \in 1..m
      BY <1>6
    <2>2. CASE b \in 1..m
      BY <2>1, <2>2, <1>3, <1>6 DEF ExactlyTheWindows
    <2>3. CASE b = m + 1
      BY <2>1, <2>3, <1>1, <1>6
    <2>4. QED
      BY <2>2, <2>3, <1>7
  <1>10. PICK j \in DOMAIN stream : MatchOf(j) /\ j + After = n + trailing
    BY <1>3, <1>4 DEF TrailingReaches
  <1>11. p <= j + After /\ j \in 1..n
    BY <1>1, <1>2, <1>4, <1>10
  <1>12. Windows' = Windows \cup {p}
    <2>1. {i \in DOMAIN stream : /\ line \in Mentioned
                                 /\ stream[i].from = instance /\ p - Before <= i} = {}
      BY <1>4
    <2>2. {i \in {p} : \/ line \in Mentioned
                       \/ \E k \in DOMAIN stream : MatchOf(k) /\ p <= k + After} = {p}
      BY <1>10, <1>11
    <2>3. QED
      BY <2>1, <2>2, <1>3, FedWindows
  <1>13. HeldNewest'
    <2>1. \A a \in DOMAIN kept' : kept'[a] <= p
      BY <1>1, <1>6, <1>7
    <2>2. \A i \in DOMAIN stream' \ Range(kept') :
             ~(stream'[i].from = instance' /\ i > p - Before)
      <3> SUFFICES ASSUME NEW i \in DOMAIN stream' \ Range(kept'),
                          stream'[i].from = instance, i > p - Before
                   PROVE  FALSE
        OBVIOUS
      <3>1. i \in 1..n /\ i \notin Range(kept)
        BY <1>1, <1>8
      <3>2. stream[i].from = instance /\ i > n - Before
        BY <3>1, <1>1, <1>2
      <3>3. i > n - Len(held)
        BY <3>1, <3>2, <1>1, <1>3 DEF HeldNewest
      <3>4. QED
        BY <3>1, <3>3, <1>1, <1>5
    <2>3. QED
      BY <2>1, <2>2, <1>1, <1>2, <1>4, <1>5 DEF HeldNewest
  <1>14. InstanceIsLast'
    BY <1>1, <1>2, <1>3 DEF InstanceIsLast
  <1>15. TrailingReaches'
    <2>1. p + (trailing - 1) = n + trailing /\ Len(stream') + trailing' = n + trailing
      BY <1>1, <1>2, <1>4
    <2>2. \A k \in DOMAIN stream' : MatchOf(k)' => k \in DOMAIN stream /\ MatchOf(k)
      BY <1>1, <1>4 DEF MatchOf
    <2>3. \A k \in DOMAIN stream : k \in DOMAIN stream' /\ (MatchOf(k) => MatchOf(k)')
      BY <1>1 DEF MatchOf
    <2>4. QED
      BY <2>1, <2>2, <2>3, <1>3, <1>10 DEF TrailingReaches
  <1>16. QED
    BY <1>3, <1>8, <1>9, <1>12, <1>13, <1>14, <1>15 DEF SelectorRight, ExactlyTheWindows

(* The deque after a line is held: still the newest positions.             *)
LEMMA NewestHeld ==
    ASSUME SelectorTyped, HeldNewest, Len(stream) \in Nat,
           NEW deque, deque = Newest(Append(held, Len(stream) + 1))
    PROVE  /\ Len(deque) \in Nat /\ Len(held) \in Nat
           /\ DOMAIN deque = 1..Len(deque) /\ DOMAIN held = 1..Len(held)
           /\ \/ Len(deque) = Len(held) + 1
              \/ Len(deque) = Len(held) /\ Len(held) = Before
           /\ Len(deque) <= Before
           /\ \A k \in 1..Len(deque) : deque[k] = (Len(stream) + 1) - Len(deque) + k
  <1> DEFINE n == Len(stream)
             h == Len(held)
             all == Append(held, n + 1)
  <1>1. held \in Seq(Nat) /\ n + 1 \in Nat /\ Before \in Nat
    <2>1. DOMAIN stream \subseteq Nat
      BY LenProperties DEF SelectorTyped
    <2>2. QED
      BY <2>1, SeqMonotonic, SelectionAssumption DEF SelectorTyped
  <1>2. h \in Nat /\ DOMAIN held = 1..h /\ h <= Before
    BY <1>1, LenProperties DEF HeldNewest
  <1>3. /\ all \in Seq(Nat) /\ Len(all) = h + 1 /\ all # <<>> /\ all[h + 1] = n + 1
        /\ \A k \in 1..h : all[k] = held[k]
    BY <1>1, AppendProperties
  <1>4. \A k \in 1..(h + 1) : all[k] = n - h + k
    <2>1. \A k \in 1..h : held[k] = n - h + k
      BY <1>2 DEF HeldNewest
    <2>2. \A k \in 1..(h + 1) : k \in 1..h \/ k = h + 1
      BY <1>2
    <2>3. n - h + (h + 1) = n + 1
      BY <1>2
    <2>4. QED
      BY <2>1, <2>2, <2>3, <1>3
  <1> HIDE DEF all
  <1>5. CASE Len(all) > Before
    <2>1. deque = Tail(all)
      BY <1>5 DEF Newest, all
    <2>2. h = Before
      <3>1. h \in Nat /\ Before \in Nat /\ h <= Before /\ h + 1 > Before
        BY <1>1, <1>2, <1>3, <1>5
      <3> HIDE DEF h
      <3>2. QED
        BY <3>1
    <2>3. /\ Tail(all) \in Seq(Nat) /\ Len(Tail(all)) = h
          /\ \A k \in 1..h : Tail(all)[k] = all[k + 1]
      BY <1>2, <1>3, HeadTailProperties
    <2>4. \A k \in 1..h : deque[k] = (n + 1) - h + k
      <3> TAKE k \in 1..h
      <3>1. k + 1 \in 1..(h + 1) /\ n - h + (k + 1) = (n + 1) - h + k
        BY <1>2
      <3>2. QED
        BY <3>1, <2>1, <2>3, <1>4
    <2>5. DOMAIN deque = 1..Len(deque)
      BY <2>1, <2>3, LenProperties
    <2>6. QED
      BY <2>1, <2>2, <2>3, <2>4, <2>5, <1>1, <1>2
  <1>6. CASE ~(Len(all) > Before)
    <2>1. deque = all /\ DOMAIN all = 1..(h + 1)
      BY <1>3, <1>6, LenProperties DEF Newest, all
    <2>2. \A k \in 1..(h + 1) : deque[k] = (n + 1) - (h + 1) + k
      BY <2>1, <1>2, <1>4
    <2>3. Len(deque) = h + 1 /\ h + 1 <= Before
      <3>1. h \in Nat /\ Before \in Nat /\ ~(h + 1 > Before) /\ Len(deque) = h + 1
        BY <2>1, <1>1, <1>2, <1>3, <1>6
      <3> HIDE DEF h
      <3>2. QED
        BY <3>1
    <2>4. DOMAIN deque = 1..(h + 1) /\ h + 1 \in Nat
      BY <2>1, <1>2
    <2>5. QED
      BY <2>2, <2>3, <2>4, <1>2
  <1>7. QED
    BY <1>5, <1>6

LEMMA HoldRight ==
    ASSUME NEW line \in Lines, SelectorTyped, SelectorRight, Hold(line),
           stream' = Append(stream, [line |-> line, from |-> instance]), instance' = instance
    PROVE  SelectorRight'
  <1> DEFINE n == Len(stream)
             h == Len(held)
             p == n + 1
             g == Len(held')
  <1>1. /\ n \in Nat /\ Len(stream') = p /\ DOMAIN stream = 1..n /\ DOMAIN stream' = 1..p
        /\ \A i \in 1..n : stream'[i] = stream[i]
        /\ stream'[p] = [line |-> line, from |-> instance]
    BY FedStream
  <1>2. Before \in Nat /\ After \in Nat /\ instance \in Nat
    BY SelectionAssumption DEF SelectorTyped
  <1>3. HeldNewest /\ InstanceIsLast /\ TrailingReaches /\ ExactlyTheWindows
    BY DEF SelectorRight
  <1>4. /\ kept' = kept /\ held' = Newest(Append(held, p)) /\ trailing' = trailing
        /\ trailing = 0 /\ line \notin Mentioned
    BY DEF Hold, Position
  <1>5. /\ g \in Nat /\ h \in Nat /\ DOMAIN held' = 1..g /\ DOMAIN held = 1..h /\ g <= Before
        /\ g = h + 1 \/ (g = h /\ h = Before)
        /\ \A k \in 1..g : held'[k] = p - g + k
    BY <1>1, <1>3, <1>4, NewestHeld
  <1>6. DOMAIN kept = 1..Len(kept) /\ \A a \in DOMAIN kept : kept[a] \in 1..n
    BY <1>1, LenProperties, ElementOfSeq DEF SelectorTyped
  <1>0. /\ n \in Nat /\ p = n + 1 /\ g \in Nat /\ h \in Nat
        /\ g = h + 1 \/ (g = h /\ h = Before)
    BY <1>1, <1>5
  <1>7. Windows' = Windows
    <2>1. {i \in DOMAIN stream : /\ line \in Mentioned
                                 /\ stream[i].from = instance /\ p - Before <= i} = {}
      BY <1>4
    <2>2. \A k \in DOMAIN stream : MatchOf(k) => ~(p <= k + After)
      BY <1>1, <1>2, <1>3, <1>4 DEF TrailingReaches
    <2>3. {i \in {p} : \/ line \in Mentioned
                       \/ \E k \in DOMAIN stream : MatchOf(k) /\ p <= k + After} = {}
      BY <2>2, <1>4
    <2>4. QED
      BY <2>1, <2>3, <1>3, FedWindows
  <1>8. \A k \in 1..g : stream'[held'[k]].from = instance
    <2> TAKE k \in 1..g
    <2>1. CASE held'[k] = p
      BY <2>1, <1>1
    <2>2. CASE held'[k] # p
      <3>1. k # g
        <4>1. held'[k] = p - g + k
          BY <1>5
        <4>2. p - g + g = p
          <5> HIDE DEF p, g, n, h
          <5>1. QED
            BY <1>0
        <4>3. QED
          BY <4>1, <4>2, <2>2
      <3>2. PICK q \in 1..h : n - h + q = p - g + k
        <4> HIDE DEF p, g, n, h
        <4>1. CASE g = h + 1
          <5>1. k \in 1..h /\ n - h + k = p - g + k
            BY <4>1, <3>1, <1>0
          <5>2. QED
            BY <5>1
        <4>2. CASE g = h
          <5>1. k + 1 \in 1..h /\ n - h + (k + 1) = p - g + k
            BY <4>2, <3>1, <1>0
          <5>2. QED
            BY <5>1
        <4>3. QED
          BY <4>1, <4>2, <1>0
      <3>3. held[q] = held'[k] /\ stream[held[q]].from = instance
        BY <3>2, <1>3, <1>5 DEF HeldNewest
      <3>4. held[q] \in 1..n
        BY <1>1, <1>5, ElementOfSeq DEF SelectorTyped
      <3>5. QED
        BY <3>3, <3>4, <1>1
    <2>3. QED
      BY <2>1, <2>2
  <1>9. HeldNewest'
    <2>1. \A a \in DOMAIN kept : kept[a] <= p - g
      <3> TAKE a \in DOMAIN kept
      <3>1. kept[a] <= n - h
        BY <1>3 DEF HeldNewest
      <3>2. kept[a] \in Nat
        BY <1>1, <1>6
      <3> HIDE DEF p, g, n, h
      <3>3. QED
        BY <3>1, <3>2, <1>0
    <2>2. \A i \in DOMAIN stream' \ Range(kept) :
             stream'[i].from = instance /\ i > p - Before => i > p - g
      <3> SUFFICES ASSUME NEW i \in 1..p, i \notin Range(kept),
                          stream'[i].from = instance, i > p - Before
                   PROVE  i > p - g
        BY <1>1
      <3>1. CASE g = h /\ h = Before
        BY <3>1, <1>1, <1>2
      <3>2. CASE g = h + 1
        <4>1. CASE i = p
          BY <4>1, <3>2, <1>1, <1>5
        <4>2. CASE i # p
          <5>1. i \in 1..n /\ stream[i].from = instance /\ i > n - Before
            BY <4>2, <1>1, <1>2
          <5>2. i > n - h
            BY <5>1, <1>1, <1>3 DEF HeldNewest
          <5>3. QED
            BY <5>1, <5>2, <3>2, <1>1, <1>5
        <4>3. QED
          BY <4>1, <4>2
      <3>3. QED
        BY <3>1, <3>2, <1>5
    <2>3. QED
      BY <2>1, <2>2, <1>1, <1>2, <1>4, <1>5, <1>8 DEF HeldNewest
  <1>10. InstanceIsLast'
    BY <1>1, <1>2, <1>3 DEF InstanceIsLast
  <1>11. TrailingReaches'
    <2>1. \A k \in DOMAIN stream' : MatchOf(k)' => k \in DOMAIN stream /\ MatchOf(k)
      BY <1>1, <1>4 DEF MatchOf
    <2>2. \A k \in DOMAIN stream : MatchOf(k) => k + After <= n
      BY <1>1, <1>3, <1>4 DEF TrailingReaches
    <2>3. \A k \in DOMAIN stream' : MatchOf(k)' => k + After <= Len(stream') + trailing'
      BY <2>1, <2>2, <1>1, <1>2, <1>4
    <2>4. QED
      BY <2>3, <1>4 DEF TrailingReaches
  <1>12. QED
    BY <1>3, <1>4, <1>7, <1>9, <1>10, <1>11 DEF SelectorRight, ExactlyTheWindows

(* So the selector keeps exactly the windows, line after line.             *)
LEMMA FeedRight ==
    ASSUME NEW line \in Lines, SelectorTyped, SelectorRight, Feed(line)
    PROVE  SelectorRight'
  BY MatchRight, KeepTrailingRight, HoldRight DEF Feed
-----------------------------------------------------------------------------
(* Numbering: the ranks of a finite set of numbers are 1, 2, ... without   *)
(* repetition or gap.                                                      *)

LEMMA RankRange ==
    ASSUME NEW S \in SUBSET Nat, IsFiniteSet(S), NEW i \in S
    PROVE  Rank(S, i) \in 1..Cardinality(S)
  <1> DEFINE A == {j \in S : j <= i}
  <1>1. IsFiniteSet(A) /\ Cardinality(A) <= Cardinality(S) /\ i \in A
    BY FS_Subset
  <1>2. Cardinality(A) \in Nat /\ Cardinality(S) \in Nat /\ Cardinality(A) # 0
    BY <1>1, FS_CardinalityType, FS_EmptySet
  <1>3. QED
    BY <1>1, <1>2 DEF Rank

LEMMA RankGrows ==
    ASSUME NEW S \in SUBSET Nat, IsFiniteSet(S), NEW i \in S, NEW j \in S, i < j
    PROVE  Rank(S, i) < Rank(S, j)
  <1> DEFINE A == {k \in S : k <= i}
             B == {k \in S : k <= j}
  <1>0. i \in Nat /\ j \in Nat /\ \A k \in S : k \in Nat
    OBVIOUS
  <1>1. A \subseteq B /\ j \in B /\ j \notin A
    <2>1. \A k \in S : k <= i => k <= j
      BY <1>0
    <2>2. j <= j /\ ~(j <= i)
      BY <1>0
    <2>3. QED
      BY <2>1, <2>2
  <1>2. IsFiniteSet(A) /\ IsFiniteSet(B)
    BY FS_Subset
  <1>3. Cardinality(A) <= Cardinality(B) /\ Cardinality(A) # Cardinality(B)
    BY <1>1, <1>2, FS_Subset
  <1>4. Cardinality(A) \in Nat /\ Cardinality(B) \in Nat
    BY <1>2, FS_CardinalityType
  <1>5. QED
    BY <1>3, <1>4 DEF Rank

LEMMA RankDistinct ==
    ASSUME NEW S \in SUBSET Nat, IsFiniteSet(S), NEW i \in S, NEW j \in S,
           Rank(S, i) = Rank(S, j)
    PROVE  i = j
  <1>1. Rank(S, i) \in Nat
    BY RankRange
  <1>2. ~(i < j) /\ ~(j < i)
    BY <1>1, RankGrows
  <1>3. QED
    BY <1>2

LEMMA RankOnto ==
    ASSUME NEW S \in SUBSET Nat, IsFiniteSet(S), NEW k \in 1..Cardinality(S)
    PROVE  \E i \in S : Rank(S, i) = k
  <1> DEFINE f == [i \in S |-> Rank(S, i)]
             n == Cardinality(S)
  <1>1. n \in Nat
    BY FS_CardinalityType
  <1>2. f \in Injection(S, 1..n)
    BY RankRange, RankDistinct DEF Injection, IsInjective
  <1>3. IsFiniteSet(1..n) /\ Cardinality(1..n) = n
    BY <1>1, FS_Interval
  <1>4. f \in Surjection(S, 1..n)
    BY <1>2, <1>3, FS_Injection
  <1>5. PICK i \in S : f[i] = k
    BY <1>4 DEF Surjection
  <1>6. QED
    BY <1>5

LEMMA HasFirst ==
    ASSUME NEW S \in SUBSET Nat, IsFiniteSet(S), S # {}
    PROVE  \E i \in S : \A j \in S : i <= j
  <1>1. Cardinality(S) \in Nat /\ Cardinality(S) # 0
    BY FS_CardinalityType, FS_EmptySet
  <1>2. PICK i \in S : Rank(S, i) = 1
    BY <1>1, RankOnto
  <1>3. \A j \in S : ~(j < i)
    <2> SUFFICES ASSUME NEW j \in S, j < i PROVE FALSE
      OBVIOUS
    <2>1. Rank(S, j) < 1 /\ Rank(S, j) \in 1..Cardinality(S)
      BY <1>2, RankGrows, RankRange
    <2>2. QED
      BY <2>1
  <1>4. QED
    BY <1>3

-----------------------------------------------------------------------------
(* The template tree.                                                      *)

LEMMA PrefixMeans ==
    ASSUME NEW T, NEW s \in Seq(T), NEW t \in Seq(T)
    PROVE  IsPrefix(s, t) <=> Len(s) <= Len(t) /\ \A i \in 1..Len(s) : s[i] = t[i]
  <1>1. Len(s) \in Nat /\ Len(t) \in Nat
    BY LenProperties
  <1>2. \A i \in 1..Len(s) : s[i] \in T
    BY ElementOfSeq
  <1>3. CASE Len(s) <= Len(t)
    <2>1. \A i \in 1..Len(s) : t[i] \in T
      BY <1>1, <1>3, ElementOfSeq
    <2> DEFINE a == SubSeq(s, 1, Len(s))
               b == SubSeq(t, 1, Len(s))
    <2>2. /\ a \in Seq(T) /\ Len(a) = IF 1 <= Len(s) THEN Len(s) - 1 + 1 ELSE 0
          /\ \A i \in 1..(Len(s) - 1 + 1) : a[i] = s[1 + i - 1]
      BY <1>1, <1>2, SubSeqProperties
    <2>3. /\ b \in Seq(T) /\ Len(b) = IF 1 <= Len(s) THEN Len(s) - 1 + 1 ELSE 0
          /\ \A i \in 1..(Len(s) - 1 + 1) : b[i] = t[1 + i - 1]
      BY <1>1, <2>1, SubSeqProperties
    <2> HIDE DEF a, b
    <2>4. Len(a) = Len(s) /\ Len(b) = Len(s)
      BY <1>1, <2>2, <2>3
    <2>5. \A i \in 1..Len(s) : a[i] = s[i] /\ b[i] = t[i]
      BY <1>1, <2>2, <2>3
    <2>6. a = b <=> \A i \in 1..Len(s) : s[i] = t[i]
      BY <2>2, <2>3, <2>4, <2>5, SeqEqual
    <2>7. QED
      BY <1>3, <2>6 DEF IsPrefix, a, b
  <1>4. QED
    BY <1>3 DEF IsPrefix

LEMMA PrefixOfPrefix ==
    ASSUME NEW T, NEW s \in Seq(T), NEW t \in Seq(T), NEW u \in Seq(T),
           IsPrefix(s, t), IsPrefix(t, u)
    PROVE  IsPrefix(s, u)
  <1>1. Len(s) \in Nat /\ Len(t) \in Nat /\ Len(u) \in Nat
    BY LenProperties
  <1>2. Len(s) <= Len(t) /\ \A i \in 1..Len(s) : s[i] = t[i]
    BY PrefixMeans
  <1>3. Len(t) <= Len(u) /\ \A i \in 1..Len(t) : t[i] = u[i]
    BY PrefixMeans
  <1>4. Len(s) <= Len(u) /\ \A i \in 1..Len(s) : s[i] = u[i]
    BY <1>1, <1>2, <1>3
  <1>5. QED
    BY <1>4, PrefixMeans

LEMMA PlacesFinite ==
    ASSUME NEW lines \in Seq(Lines), NEW t
    PROVE  /\ Places(lines, t) \subseteq DOMAIN lines /\ DOMAIN lines \subseteq Nat
           /\ IsFiniteSet(Places(lines, t)) /\ Cardinality(Places(lines, t)) \in Nat
  <1>1. DOMAIN lines = 1..Len(lines) /\ Len(lines) \in Nat
    BY LenProperties
  <1>2. IsFiniteSet(DOMAIN lines)
    BY <1>1, FS_Interval
  <1>3. Places(lines, t) \subseteq DOMAIN lines
    BY DEF Places
  <1>4. IsFiniteSet(Places(lines, t))
    BY <1>2, <1>3, FS_Subset
  <1>5. QED
    BY <1>1, <1>3, <1>4, FS_CardinalityType

(* A tree that learns extends itself and knows every line it was given.    *)
LEMMA Learnt ==
    ASSUME NEW tree \in Seq(Templates), NEW lines \in Seq(Lines)
    PROVE  /\ Learn(tree, lines) \in Seq(Templates)
           /\ \A i \in DOMAIN lines :
                 \E k \in DOMAIN Learn(tree, lines) :
                     Learn(tree, lines)[k] = TemplateOf[lines[i]]
  <1> DEFINE new == Unseen(tree, lines)
             n == Cardinality(new)
             at(k) == CHOOSE i \in new : Rank(new, i) = k
             more == [k \in 1..n |-> TemplateOf[lines[at(k)]]]
  <1>1. DOMAIN lines = 1..Len(lines) /\ Len(lines) \in Nat
    BY LenProperties
  <1>2. \A i \in DOMAIN lines : TemplateOf[lines[i]] \in Templates
    <2>1. \A i \in DOMAIN lines : lines[i] \in Lines
      BY <1>1, ElementOfSeq
    <2>2. QED
      BY <2>1, ReductionAssumption
  <1>3. new \subseteq DOMAIN lines /\ new \in SUBSET Nat /\ IsFiniteSet(new) /\ n \in Nat
    <2>1. new \subseteq DOMAIN lines
      BY DEF Unseen
    <2>2. IsFiniteSet(1..Len(lines)) /\ new \subseteq 1..Len(lines)
      BY <2>1, <1>1, FS_Interval
    <2>3. IsFiniteSet(new)
      BY <2>2, FS_Subset
    <2>4. n \in Nat
      BY <2>3, FS_CardinalityType
    <2>5. QED
      BY <2>1, <2>2, <2>3, <2>4
  <1>4. \A k \in 1..n : at(k) \in new /\ Rank(new, at(k)) = k
    BY <1>3, RankOnto
  <1>5. more \in Seq(Templates) /\ Len(more) = n
    <2>1. \A k \in 1..n : TemplateOf[lines[at(k)]] \in Templates
      BY <1>2, <1>3, <1>4
    <2>2. more \in [1..n -> Templates]
      BY <2>1
    <2>3. more \in Seq(Templates)
      BY <2>2, <1>3, SeqDef
    <2>4. Len(more) \in Nat /\ 1..Len(more) = 1..n
      BY <2>2, <2>3, LenProperties
    <2>5. Len(more) = n
      BY <2>4, <1>3
    <2>6. QED
      BY <2>3, <2>5
  <1>6. Learn(tree, lines) = tree \o more
    BY DEF Learn
  <1>7. Len(tree) \in Nat /\ DOMAIN tree = 1..Len(tree)
    BY LenProperties
  <1> HIDE DEF more
  <1>8. /\ tree \o more \in Seq(Templates) /\ Len(tree \o more) = Len(tree) + n
        /\ \A i \in 1..(Len(tree) + n) :
              (tree \o more)[i] = IF i <= Len(tree) THEN tree[i] ELSE more[i - Len(tree)]
    BY <1>5, ConcatProperties
  <1>9. DOMAIN (tree \o more) = 1..(Len(tree) + n)
    BY <1>8, LenProperties
  <1>10. \A i \in DOMAIN lines :
            \E k \in 1..(Len(tree) + n) : (tree \o more)[k] = TemplateOf[lines[i]]
    <2> TAKE i \in DOMAIN lines
    <2> DEFINE t == TemplateOf[lines[i]]
    <2>1. CASE t \in Range(tree)
      <3>1. PICK k \in 1..Len(tree) : tree[k] = t
        BY <2>1, <1>7 DEF Range
      <3>2. k \in 1..(Len(tree) + n) /\ k <= Len(tree)
        BY <1>3, <1>7
      <3>3. QED
        BY <3>1, <3>2, <1>8
    <2>2. CASE t \notin Range(tree)
      <3> DEFINE P == Places(lines, t)
      <3>1. P \in SUBSET Nat /\ IsFiniteSet(P) /\ i \in P
        BY PlacesFinite DEF Places
      <3>2. PICK first \in P : \A j \in P : first <= j
        BY <3>1, HasFirst
      <3>3. first \in DOMAIN lines /\ TemplateOf[lines[first]] = t
        BY DEF Places
      <3>4. \A j \in 1..(first - 1) : TemplateOf[lines[j]] # t
        <4> SUFFICES ASSUME NEW j \in 1..(first - 1), TemplateOf[lines[j]] = t
                     PROVE  FALSE
          OBVIOUS
        <4>1. j \in DOMAIN lines /\ j < first
          BY <3>3, <1>1
        <4>2. j \in P
          BY <4>1 DEF Places
        <4>3. QED
          BY <4>1, <4>2, <3>2, <3>3, <1>1
      <3>5. first \in new
        BY <3>3, <3>4, <2>2 DEF Unseen
      <3> DEFINE r == Rank(new, first)
      <3>6. r \in 1..n
        BY <3>5, <1>3, RankRange
      <3>7. at(r) = first
        <4>1. at(r) \in new /\ Rank(new, at(r)) = r
          BY <3>6, <1>4
        <4>2. QED
          BY <4>1, <3>5, <1>3, RankDistinct
      <3>8. more[r] = t
        BY <3>3, <3>6, <3>7 DEF more
      <3> HIDE DEF r, t, n
      <3>9. Len(tree) + r \in 1..(Len(tree) + n) /\ ~(Len(tree) + r <= Len(tree))
            /\ (Len(tree) + r) - Len(tree) = r
        BY <3>6, <1>3, <1>7
      <3>10. (tree \o more)[Len(tree) + r] = t
        BY <3>8, <3>9, <1>8
      <3>11. QED
        BY <3>9, <3>10 DEF t
    <2>3. QED
      BY <2>1, <2>2
  <1>11. QED
    BY <1>6, <1>8, <1>9, <1>10
-----------------------------------------------------------------------------
(* The inductive invariant.                                                *)

RestTyped ==
    /\ worker \in Processes \cup {NoProcess} /\ source \in {"kubernetes", "elastic"}
    /\ miner \in [All -> Trees] /\ stateFile \in Seq(Templates) /\ forked \in BOOLEAN
    /\ catalog \in [Processes -> [loaded : BOOLEAN, entries : SUBSET Entries]]
    /\ catalogFile \in SUBSET Entries
    /\ sample \in [flows : 0..SampleSize, seen : [Templates -> Nat]]
    /\ report.clusters \in SUBSET [id : Nat, template : Templates, count : Nat, class : Shown]
    /\ reports \in 0..MaxReports /\ crashes \in 0..MaxCrashes /\ builds \in 0..MaxBuilds

(* As long as nobody overwrote what another process had learnt, all trees  *)
(* are beginnings of the one on file, and the numbers of every catalog     *)
(* stand for the templates they were given to.                             *)
Fit(entries, tree) == \A e \in entries : e.id \in DOMAIN tree /\ tree[e.id] = e.template
TreesAgree ==
    ~forked => /\ \A p \in All : IsPrefix(miner[p].tree, stateFile)
               /\ Fit(catalogFile, stateFile)
               /\ \A p \in Processes : Fit(catalog[p].entries, stateFile)

IInv ==
    /\ SelectorTyped /\ RestTyped
    /\ source = "kubernetes" => SelectorRight
    /\ TreesAgree /\ EvidenceKept /\ ClassesFit

LEMMA TypesTogether ==
    ASSUME SelectorTyped, RestTyped
    PROVE  TypeOK
  <1>1. DOMAIN stream \subseteq Nat
    BY LenProperties DEF SelectorTyped
  <1>2. held \in Seq(Nat)
    BY <1>1, SeqMonotonic DEF SelectorTyped
  <1>3. QED
    BY <1>2 DEF SelectorTyped, RestTyped, TypeOK

LEMMA SelectorFrame ==
    ASSUME UNCHANGED selectorVars
    PROVE  (SelectorTyped => SelectorTyped') /\ (SelectorRight => SelectorRight')
  BY DEF selectorVars, SelectorTyped, SelectorRight, InstanceIsLast, HeldNewest, TrailingReaches,
         MatchOf, ExactlyTheWindows, Windows, Near

(* Who answers or gives up drops the selector.                             *)
LEMMA SelectorStep ==
    ASSUME IInv, [Next]_vars
    PROVE  SelectorTyped' /\ (source' = "kubernetes" => SelectorRight')
  <1>1. CASE Restart
    BY <1>1, RestartRight
  <1>2. CASE UNCHANGED selectorVars /\ source' = source
    BY <1>2, SelectorFrame DEF IInv
  <1>3. ASSUME NEW p \in Processes, NEW src \in {"kubernetes", "elastic"}, Receive(p, src)
        PROVE  Restart
    BY <1>3 DEF Receive
  <1>4. ASSUME NEW line \in Lines, ReadLine(line)
        PROVE  SelectorTyped' /\ SelectorRight'
    <2>1. source = "kubernetes" /\ Feed(line)
      BY <1>4 DEF ReadLine, Reading
    <2>2. QED
      BY <2>1, FedTyped, FeedRight DEF IInv
  <1>5. ASSUME NEW line \in Lines, SearchLine(line)
        PROVE  SelectorTyped' /\ source' = "elastic"
    <2> DEFINE n == Len(stream)
    <2>1. /\ source' = "elastic"
          /\ stream' = Append(stream, [line |-> line, from |-> instance])
          /\ kept' = Append(kept, Position) \/ kept' = kept
          /\ UNCHANGED <<instance, held, trailing>>
      BY <1>5 DEF SearchLine, Reading, Unchanged
    <2>2. SelectorTyped
      BY DEF IInv
    <2>3. /\ stream' \in Seq([line : Lines, from : Nat \ {0}]) /\ n \in Nat
          /\ DOMAIN stream = 1..n /\ DOMAIN stream' = 1..(n + 1)
      BY <2>1, <2>2, FedStream
    <2>4. held \in Seq(1..(n + 1)) /\ kept \in Seq(1..(n + 1)) /\ n + 1 \in 1..(n + 1)
      <3>1. 1..n \subseteq 1..(n + 1)
        BY <2>3
      <3>2. QED
        BY <3>1, <2>2, <2>3, SeqMonotonic DEF SelectorTyped
    <2>5. Append(kept, n + 1) \in Seq(1..(n + 1))
      BY <2>4, AppendProperties
    <2>6. QED
      BY <2>1, <2>2, <2>3, <2>4, <2>5 DEF SelectorTyped, Position
  <1>6. CASE ReadInstance
    <2>1. source = "kubernetes" /\ OpenInstance
      BY <1>6 DEF ReadInstance, Reading
    <2>2. QED
      BY <2>1, OpenRight DEF IInv
  <1>7. CASE ShowNothing \/ ShowTrace \/ ShowErrors \/ ShowTemplates
    <2>1. Restart
      BY <1>7 DEF ShowNothing, ShowTrace, ShowErrors, ShowTemplates, Answer
    <2>2. QED
      BY <2>1, <1>1
  <1>8. CASE LockTimesOut
    BY <1>8, <1>1 DEF LockTimesOut
  <1>9. ASSUME NEW flow \in Flows, BuildFlow(flow)
        PROVE  UNCHANGED selectorVars /\ source' = source
    BY <1>9 DEF BuildFlow, packetVars
  <1>10. CASE SkipFlow \/ SaveCatalog
    <2>1. UNCHANGED selectorVars /\ source' = source
      BY <1>10 DEF SkipFlow, SaveCatalog, packetVars
    <2>2. QED
      BY <2>1, <1>2
  <1>11. ASSUME NEW p \in All, Crash(p)
         PROVE  source' = source /\ (Restart \/ UNCHANGED selectorVars)
    <2>1. CASE worker = p
      BY <1>11, <2>1 DEF Crash
    <2>2. CASE worker # p
      BY <1>11, <2>2 DEF Crash
    <2>3. QED
      BY <2>1, <2>2
  <1>12. CASE UNCHANGED vars
    BY <1>12, <1>2 DEF vars, packetVars
  <1>13. QED
    BY <1>1, <1>2, <1>3, <1>4, <1>5, <1>6, <1>7, <1>8, <1>9, <1>10, <1>11, <1>12 DEF Next

(* The text that is reduced.                                               *)
LEMMA KeptTyped ==
    ASSUME SelectorTyped
    PROVE  Kept \in Seq(Lines)
  <1>1. Len(kept) \in Nat /\ DOMAIN kept = 1..Len(kept)
    BY LenProperties DEF SelectorTyped
  <1>2. \A k \in 1..Len(kept) : kept[k] \in DOMAIN stream
    BY ElementOfSeq DEF SelectorTyped
  <1>3. \A i \in DOMAIN stream : stream[i].line \in Lines
    <2>1. DOMAIN stream = 1..Len(stream)
      BY LenProperties DEF SelectorTyped
    <2>2. \A i \in 1..Len(stream) : stream[i] \in [line : Lines, from : Nat \ {0}]
      BY ElementOfSeq DEF SelectorTyped
    <2>3. QED
      BY <2>1, <2>2
  <1>4. Kept \in [1..Len(kept) -> Lines]
    BY <1>1, <1>2, <1>3 DEF Kept
  <1>5. QED
    BY <1>1, <1>4, SeqDef

(* The clusters of a batch carry its counts and the classes of the catalog.*)
LEMMA GuardedTyped ==
    ASSUME NEW tree \in Seq(Templates), NEW lines \in Seq(Lines), NEW entries \in SUBSET Entries,
           NEW c \in Clusters(tree, lines)
    PROVE  /\ c.id \in DOMAIN tree /\ c.template = tree[c.id]
           /\ c.count = Cardinality(Places(lines, c.template)) /\ c.count \in Nat
           /\ Guarded(c, entries)
                 \in [id : Nat, template : Templates, count : Nat, class : Shown]
  <1>1. PICK i \in DOMAIN tree :
           c = [id |-> i, template |-> tree[i], count |-> Cardinality(Places(lines, tree[i]))]
    BY DEF Clusters
  <1>2. i \in Nat /\ tree[i] \in Templates
    <2>1. DOMAIN tree = 1..Len(tree) /\ Len(tree) \in Nat
      BY LenProperties
    <2>2. QED
      BY <2>1, ElementOfSeq
  <1>3. Cardinality(Places(lines, tree[i])) \in Nat
    BY PlacesFinite
  <1>4. ClassOf(entries, i) \in Shown
    <2>1. \A e \in entries : e.class \in Classes
      BY DEF Entries
    <2>2. QED
      BY <2>1 DEF ClassOf, Shown
  <1>5. QED
    BY <1>1, <1>2, <1>3, <1>4 DEF Guarded, Shown
-----------------------------------------------------------------------------
(* What a batch leaves and reports.                                        *)

LEMMA TreeTyped ==
    ASSUME RestTyped, NEW p \in All
    PROVE  Tree(p) \in Seq(Templates)
  BY DEF RestTyped, Tree, Trees

LEMMA BatchTyped ==
    ASSUME IInv, ShowTemplates
    PROVE  /\ worker \in Processes /\ worker \in All /\ Kept \in Seq(Lines)
           /\ Learn(Tree(worker), Kept) \in Seq(Templates)
           /\ catalog[worker].entries \in SUBSET Entries
  <1>1. worker \in Processes
    BY DEF IInv, RestTyped, ShowTemplates, Answer
  <1>2. worker \in All
    BY <1>1 DEF All
  <1>3. Kept \in Seq(Lines)
    BY KeptTyped DEF IInv
  <1>4. Tree(worker) \in Seq(Templates)
    BY <1>2, TreeTyped DEF IInv
  <1>5. Learn(Tree(worker), Kept) \in Seq(Templates)
    BY <1>3, <1>4, Learnt
  <1>6. catalog[worker].entries \in SUBSET Entries
    BY <1>1 DEF IInv, RestTyped
  <1>7. QED
    BY <1>1, <1>2, <1>3, <1>5, <1>6

LEMMA SavedTyped ==
    ASSUME RestTyped, NEW p \in All, NEW tree \in Seq(Templates), Saved(p, tree)
    PROVE  miner' \in [All -> Trees] /\ stateFile' \in Seq(Templates) /\ forked' \in BOOLEAN
  BY DEF RestTyped, Saved, Trees

LEMMA NewEntriesTyped ==
    ASSUME RestTyped
    PROVE  NewEntries \subseteq Entries
  <1> DEFINE tree == miner[Builder].tree
  <1>1. tree \in Seq(Templates)
    BY DEF RestTyped, Trees, All
  <1>2. DOMAIN tree = 1..Len(tree)
    BY <1>1, LenProperties
  <1>3. \A i \in DOMAIN tree : i \in Nat /\ tree[i] \in Templates
    BY <1>1, <1>2, ElementOfSeq
  <1>4. \A t \in Templates : Classification(t) \in Classes
    BY DEF Classification, Classes
  <1>5. QED
    BY <1>3, <1>4 DEF NewEntries, Entries

LEMMA RestStep ==
    ASSUME IInv, [Next]_vars
    PROVE  RestTyped'
  <1> USE ReductionAssumption
  <1>1. RestTyped
    BY DEF IInv
  <1>2. ASSUME NEW p \in Processes, NEW src \in {"kubernetes", "elastic"}, Receive(p, src)
        PROVE  RestTyped'
    BY <1>1, <1>2 DEF Receive, RestTyped, NoReport, treeVars
  <1>3. ASSUME NEW line \in Lines, ReadLine(line) \/ SearchLine(line)
        PROVE  RestTyped'
    <2>1. Unchanged
      BY <1>3 DEF ReadLine, SearchLine
    <2>2. QED
      BY <1>1, <2>1 DEF Unchanged, RestTyped, treeVars, boundVars
  <1>4. CASE ReadInstance
    <2>1. Unchanged
      BY <1>4 DEF ReadInstance
    <2>2. QED
      BY <1>1, <2>1 DEF Unchanged, RestTyped, treeVars, boundVars
  <1>5. CASE ShowNothing \/ ShowTrace \/ ShowErrors
    <2>1. /\ UNCHANGED <<source, catalog, catalogFile, sample, boundVars>> /\ UNCHANGED treeVars
          /\ worker' = NoProcess /\ report'.clusters = {}
      BY <1>5 DEF ShowNothing, ShowTrace, ShowErrors, Answer, Report
    <2>2. QED
      BY <1>1, <2>1 DEF RestTyped, treeVars, boundVars
  <1>6. CASE ShowTemplates
    <2> DEFINE tree == Learn(Tree(worker), Kept)
               entries == catalog[worker].entries
    <2>1. /\ worker \in All /\ Kept \in Seq(Lines) /\ tree \in Seq(Templates)
          /\ entries \in SUBSET Entries
      BY <1>6, BatchTyped
    <2>2. /\ UNCHANGED <<source, catalog, catalogFile, sample, boundVars>>
          /\ worker' = NoProcess /\ report'.clusters = Summary(tree)
          /\ Saved(worker, tree)
      BY <1>6 DEF ShowTemplates, Answer, Report
    <2>3. Summary(tree) \in SUBSET [id : Nat, template : Templates, count : Nat, class : Shown]
      <3>1. \A c \in Clusters(tree, Kept) :
               Guarded(c, entries) \in [id : Nat, template : Templates, count : Nat, class : Shown]
        BY <2>1, GuardedTyped
      <3>2. QED
        BY <3>1 DEF Summary
    <2>4. miner' \in [All -> Trees] /\ stateFile' \in Seq(Templates) /\ forked' \in BOOLEAN
      BY <1>1, <2>1, <2>2, SavedTyped
    <2> HIDE DEF tree, entries
    <2>5. QED
      BY <1>1, <2>2, <2>3, <2>4 DEF RestTyped, boundVars
  <1>7. CASE LockTimesOut
    BY <1>1, <1>7 DEF LockTimesOut, RestTyped, treeVars, boundVars
  <1>8. ASSUME NEW flow \in Flows, BuildFlow(flow)
        PROVE  RestTyped'
    <2> DEFINE tree == Learn(Tree(Builder), flow)
    <2>1. Builder \in All /\ flow \in Seq(Lines)
      BY DEF All
    <2>2. tree \in Seq(Templates)
      BY <1>1, <2>1, TreeTyped, Learnt
    <2>3. Saved(Builder, tree)
      BY <1>8 DEF BuildFlow
    <2>4. miner' \in [All -> Trees] /\ stateFile' \in Seq(Templates) /\ forked' \in BOOLEAN
      BY <1>1, <2>1, <2>2, <2>3, SavedTyped
    <2>5. sample' \in [flows : 0..SampleSize, seen : [Templates -> Nat]]
      <3>1. sample.flows \in 0..SampleSize /\ sample.flows < SampleSize /\ SampleSize \in Nat
        BY <1>1, <1>8 DEF RestTyped, BuildFlow, Building
      <3>2. \A t \in Templates : sample.seen[t] + (IF t \in TemplatesIn(flow) THEN 1 ELSE 0) \in Nat
        BY <1>1 DEF RestTyped
      <3>3. sample' = [flows |-> sample.flows + 1,
                       seen |-> [t \in Templates |->
                                   sample.seen[t] + IF t \in TemplatesIn(flow) THEN 1 ELSE 0]]
        BY <1>8 DEF BuildFlow
      <3>4. sample.flows + 1 \in 0..SampleSize
        BY <3>1
      <3>5. QED
        BY <3>2, <3>3, <3>4
    <2>6. UNCHANGED <<packetVars, catalog, catalogFile, report, boundVars>>
      BY <1>8 DEF BuildFlow
    <2>7. QED
      BY <1>1, <2>4, <2>5, <2>6 DEF RestTyped, packetVars, boundVars
  <1>9. CASE SkipFlow
    <2>1. sample' \in [flows : 0..SampleSize, seen : [Templates -> Nat]]
      <3>1. sample.flows \in 0..SampleSize /\ sample.flows < SampleSize /\ SampleSize \in Nat
        BY <1>1, <1>9 DEF RestTyped, SkipFlow, Building
      <3>2. sample.flows + 1 \in 0..SampleSize
        BY <3>1
      <3>3. sample' = [sample EXCEPT !.flows = sample.flows + 1]
        BY <1>9 DEF SkipFlow
      <3>4. QED
        BY <1>1, <3>2, <3>3 DEF RestTyped
    <2>2. QED
      BY <1>1, <1>9, <2>1 DEF SkipFlow, RestTyped, packetVars, treeVars, boundVars
  <1>10. CASE SaveCatalog
    <2>1. NewEntries \subseteq Entries
      BY <1>1, NewEntriesTyped
    <2>2. catalogFile' \in SUBSET Entries
      BY <1>1, <1>10, <2>1 DEF SaveCatalog, RestTyped
    <2>3. miner' \in [All -> Trees]
      <3>1. NoTree \in Trees
        BY EmptySeq DEF NoTree, Trees
      <3>2. QED
        BY <1>1, <1>10, <3>1 DEF SaveCatalog, RestTyped
    <2>4. sample' \in [flows : 0..SampleSize, seen : [Templates -> Nat]]
      BY <1>10 DEF SaveCatalog, NoSample
    <2>5. builds' \in 0..MaxBuilds
      BY <1>1, <1>10 DEF SaveCatalog, RestTyped
    <2>6. QED
      BY <1>1, <1>10, <2>2, <2>3, <2>4, <2>5 DEF SaveCatalog, RestTyped, packetVars
  <1>11. ASSUME NEW p \in All, Crash(p)
         PROVE  RestTyped'
    <2>1. miner' \in [All -> Trees]
      <3>1. NoTree \in Trees
        BY EmptySeq DEF NoTree, Trees
      <3>2. QED
        BY <1>1, <1>11, <3>1 DEF Crash, RestTyped
    <2>2. catalog' \in [Processes -> [loaded : BOOLEAN, entries : SUBSET Entries]]
      BY <1>1, <1>11 DEF Crash, RestTyped, NoCatalog
    <2>3. sample' \in [flows : 0..SampleSize, seen : [Templates -> Nat]]
      BY <1>1, <1>11 DEF Crash, RestTyped, NoSample
    <2>4. worker' \in Processes \cup {NoProcess}
      BY <1>1, <1>11 DEF Crash, RestTyped
    <2>5. crashes' \in 0..MaxCrashes
      BY <1>1, <1>11 DEF Crash, RestTyped
    <2>6. QED
      BY <1>1, <1>11, <2>1, <2>2, <2>3, <2>4, <2>5 DEF Crash, RestTyped
  <1>12. CASE UNCHANGED vars
    BY <1>1, <1>12 DEF vars, packetVars, treeVars, boundVars, RestTyped
  <1>13. QED
    BY <1>2, <1>3, <1>4, <1>5, <1>6, <1>7, <1>8, <1>9, <1>10, <1>11, <1>12 DEF Next
LEMMA EmptyIsPrefix ==
    ASSUME NEW tree \in Seq(Templates)
    PROVE  IsPrefix(<<>>, tree)
  <1>1. <<>> \in Seq(Templates) /\ Len(<<>>) = 0 /\ Len(tree) \in Nat
    BY EmptySeq, LenProperties
  <1>2. Len(<<>>) <= Len(tree) /\ 1..Len(<<>>) = {}
    BY <1>1
  <1> DEFINE none == <<>>
  <1>3. none \in Seq(Templates) /\ Len(none) <= Len(tree) /\ 1..Len(none) = {}
    BY <1>1, <1>2
  <1> HIDE DEF none
  <1>4. IsPrefix(none, tree)
    BY <1>3, PrefixMeans
  <1>5. QED
    BY <1>4 DEF none

(* A tree fits what its beginnings fit.                                    *)
LEMMA FitGrows ==
    ASSUME NEW old \in Seq(Templates), NEW tree \in Seq(Templates), IsPrefix(old, tree),
           NEW entries, Fit(entries, old)
    PROVE  Fit(entries, tree)
  <1>1. /\ Len(old) \in Nat /\ DOMAIN old = 1..Len(old)
        /\ Len(tree) \in Nat /\ DOMAIN tree = 1..Len(tree)
    BY LenProperties
  <1>2. Len(old) <= Len(tree) /\ \A i \in 1..Len(old) : old[i] = tree[i]
    BY PrefixMeans
  <1>3. QED
    BY <1>1, <1>2 DEF Fit

LEMMA SavedAgrees ==
    ASSUME RestTyped, TreesAgree, NEW p \in All, NEW tree \in Seq(Templates), Saved(p, tree),
           UNCHANGED <<catalog, catalogFile>>
    PROVE  TreesAgree'
  <1> SUFFICES ASSUME ~forked'
               PROVE  /\ \A q \in All : IsPrefix(miner'[q].tree, stateFile')
                      /\ Fit(catalogFile, stateFile')
                      /\ \A q \in Processes : Fit(catalog[q].entries, stateFile')
    BY DEF TreesAgree, Fit
  <1>1. stateFile' = tree /\ ~forked /\ IsPrefix(stateFile, tree)
    BY DEF Saved, RestTyped
  <1>2. stateFile \in Seq(Templates)
    BY DEF RestTyped
  <1>3. ASSUME NEW q \in All
        PROVE  IsPrefix(miner'[q].tree, tree)
    <2>1. CASE q = p
      <3>1. miner'[q].tree = tree
        BY <2>1 DEF Saved, RestTyped
      <3>2. Len(tree) \in Nat
        BY LenProperties
      <3>3. QED
        BY <3>1, <3>2, PrefixMeans
    <2>2. CASE q # p
      <3>1. miner'[q] = miner[q] /\ miner[q].tree \in Seq(Templates)
        BY <2>2 DEF Saved, RestTyped, Trees
      <3>2. IsPrefix(miner[q].tree, stateFile)
        BY <1>1 DEF TreesAgree
      <3>3. QED
        BY <3>1, <3>2, <1>1, <1>2, PrefixOfPrefix
    <2>3. QED
      BY <2>1, <2>2
  <1>4. Fit(catalogFile, tree)
    BY <1>1, <1>2, FitGrows DEF TreesAgree
  <1>5. \A q \in Processes : Fit(catalog[q].entries, tree)
    BY <1>1, <1>2, FitGrows DEF TreesAgree
  <1>6. QED
    BY <1>1, <1>3, <1>4, <1>5

LEMMA TreesStep ==
    ASSUME IInv, [Next]_vars
    PROVE  TreesAgree'
  <1> USE ReductionAssumption
  <1>1. RestTyped /\ TreesAgree
    BY DEF IInv
  <1>2. CASE UNCHANGED <<treeVars, catalog, catalogFile>>
    BY <1>1, <1>2 DEF TreesAgree, Fit, treeVars
  <1>3. ASSUME NEW p \in Processes, NEW src \in {"kubernetes", "elastic"}, Receive(p, src)
        PROVE  TreesAgree'
    <2>1. UNCHANGED <<treeVars, catalogFile>>
      BY <1>3 DEF Receive
    <2>2. \A q \in Processes : catalog'[q].entries \in {catalog[q].entries, catalogFile}
      BY <1>1, <1>3 DEF Receive, RestTyped
    <2>3. QED
      BY <1>1, <2>1, <2>2 DEF TreesAgree, Fit, treeVars
  <1>4. ASSUME NEW line \in Lines, ReadLine(line) \/ SearchLine(line)
        PROVE  UNCHANGED <<treeVars, catalog, catalogFile>>
    BY <1>4 DEF ReadLine, SearchLine, Unchanged
  <1>5. CASE ReadInstance
    <2>1. UNCHANGED <<treeVars, catalog, catalogFile>>
      BY <1>5 DEF ReadInstance, Unchanged
    <2>2. QED
      BY <2>1, <1>2
  <1>6. CASE ShowNothing \/ ShowTrace \/ ShowErrors
    <2>1. UNCHANGED <<treeVars, catalog, catalogFile>>
      BY <1>6 DEF ShowNothing, ShowTrace, ShowErrors, Answer
    <2>2. QED
      BY <2>1, <1>2
  <1>7. CASE ShowTemplates
    <2>1. worker \in All /\ Learn(Tree(worker), Kept) \in Seq(Templates)
      BY <1>7, BatchTyped
    <2>2. Saved(worker, Learn(Tree(worker), Kept)) /\ UNCHANGED <<catalog, catalogFile>>
      BY <1>7 DEF ShowTemplates, Answer
    <2>3. QED
      BY <1>1, <2>1, <2>2, SavedAgrees
  <1>8. CASE LockTimesOut
    BY <1>8, <1>2 DEF LockTimesOut
  <1>9. ASSUME NEW flow \in Flows, BuildFlow(flow)
        PROVE  TreesAgree'
    <2>1. Builder \in All /\ flow \in Seq(Lines)
      BY DEF All
    <2>2. Learn(Tree(Builder), flow) \in Seq(Templates)
      BY <1>1, <2>1, TreeTyped, Learnt
    <2>3. Saved(Builder, Learn(Tree(Builder), flow)) /\ UNCHANGED <<catalog, catalogFile>>
      BY <1>9 DEF BuildFlow
    <2>4. QED
      BY <1>1, <2>1, <2>2, <2>3, SavedAgrees
  <1>10. CASE SkipFlow
    BY <1>10, <1>2 DEF SkipFlow
  <1>11. CASE SaveCatalog
    <2> SUFFICES ASSUME ~forked'
                 PROVE  /\ \A q \in All : IsPrefix(miner'[q].tree, stateFile)
                        /\ Fit(catalogFile', stateFile)
                        /\ \A q \in Processes : Fit(catalog[q].entries, stateFile)
      BY <1>11 DEF SaveCatalog, TreesAgree, Fit
    <2>1. /\ \A q \in All : IsPrefix(miner[q].tree, stateFile)
          /\ Fit(catalogFile, stateFile)
          /\ \A q \in Processes : Fit(catalog[q].entries, stateFile)
      BY <1>1, <1>11 DEF SaveCatalog, TreesAgree
    <2>2. Builder \in All /\ stateFile \in Seq(Templates) /\ miner[Builder].tree \in Seq(Templates)
      BY <1>1 DEF RestTyped, Trees, All
    <2>3. \A q \in All : IsPrefix(miner'[q].tree, stateFile)
      <3>1. \A q \in All : miner'[q] = IF q = Builder THEN NoTree ELSE miner[q]
        BY <1>1, <1>11 DEF SaveCatalog, RestTyped
      <3>2. QED
        BY <2>1, <2>2, <3>1, EmptyIsPrefix DEF NoTree
    <2>4. Fit(NewEntries, stateFile)
      <3>1. Fit(NewEntries, miner[Builder].tree)
        BY DEF Fit, NewEntries
      <3>2. QED
        BY <2>1, <2>2, <3>1, FitGrows
    <2>5. Fit(catalogFile', stateFile)
      BY <1>11, <2>1, <2>4 DEF SaveCatalog, Fit
    <2>6. QED
      BY <2>1, <2>3, <2>5
  <1>12. ASSUME NEW p \in All, Crash(p)
         PROVE  TreesAgree'
    <2> SUFFICES ASSUME ~forked
                 PROVE  /\ \A q \in All : IsPrefix(miner'[q].tree, stateFile)
                        /\ Fit(catalogFile, stateFile)
                        /\ \A q \in Processes : Fit(catalog'[q].entries, stateFile)
      BY <1>12 DEF Crash, TreesAgree, Fit
    <2>1. /\ \A q \in All : IsPrefix(miner[q].tree, stateFile)
          /\ Fit(catalogFile, stateFile)
          /\ \A q \in Processes : Fit(catalog[q].entries, stateFile)
      BY <1>1 DEF TreesAgree
    <2>2. stateFile \in Seq(Templates)
      BY <1>1 DEF RestTyped
    <2>3. \A q \in All : miner'[q] = IF q = p THEN NoTree ELSE miner[q]
      BY <1>1, <1>12 DEF Crash, RestTyped
    <2>4. \A q \in All : IsPrefix(miner'[q].tree, stateFile)
      BY <2>1, <2>2, <2>3, EmptyIsPrefix DEF NoTree
    <2>5. \A q \in Processes : catalog'[q].entries \in {catalog[q].entries, {}}
      BY <1>12 DEF Crash, NoCatalog
    <2>6. \A q \in Processes : Fit(catalog'[q].entries, stateFile)
      BY <2>1, <2>5 DEF Fit
    <2>7. QED
      BY <2>1, <2>4, <2>6
  <1>13. CASE UNCHANGED vars
    BY <1>13, <1>2 DEF vars
  <1>14. QED
    BY <1>2, <1>3, <1>4, <1>5, <1>6, <1>7, <1>8, <1>9, <1>10, <1>11, <1>12, <1>13 DEF Next

-----------------------------------------------------------------------------
(* What is shown.                                                          *)

LEMMA PathMeans ==
    ASSUME NEW lines
    PROVE  /\ Path(lines) = "none" => lines = <<>>
           /\ Path(lines) = "errors" => ErrorLines(lines) # {}
           /\ Path(lines) = "templates" => ErrorLines(lines) = {}
  BY DEF Path

LEMMA ErrorsShown ==
    ASSUME NEW lines \in Seq(Lines), ErrorLines(lines) # {}
    PROVE  /\ ErrorLines(lines) \subseteq ErrorWindow(lines)
           /\ \A i \in DOMAIN lines \ ErrorWindow(lines) :
                 \E e \in ErrorLines(lines) : \A d \in ErrorLines(lines) :
                     i < d - ErrorBefore \/ i > d + ErrorAfter
  <1> USE ReductionAssumption
  <1>1. DOMAIN lines = 1..Len(lines) /\ Len(lines) \in Nat /\ ErrorLines(lines) \subseteq DOMAIN lines
    BY LenProperties DEF ErrorLines
  <1>2. \A i \in ErrorLines(lines) : i >= i - ErrorBefore /\ i <= i + ErrorAfter
    BY <1>1
  <1>3. ErrorLines(lines) \subseteq ErrorWindow(lines)
    BY <1>1, <1>2 DEF ErrorWindow
  <1>4. ASSUME NEW i \in DOMAIN lines \ ErrorWindow(lines)
        PROVE  \E e \in ErrorLines(lines) : \A d \in ErrorLines(lines) :
                   i < d - ErrorBefore \/ i > d + ErrorAfter
    <2>1. \/ \A d \in ErrorLines(lines) : ~(i >= d - ErrorBefore)
          \/ \A d \in ErrorLines(lines) : ~(i <= d + ErrorAfter)
      BY <1>4 DEF ErrorWindow
    <2>2. \A d \in ErrorLines(lines) : i < d - ErrorBefore \/ i > d + ErrorAfter
      BY <1>1, <2>1
    <2>3. QED
      BY <2>2
  <1>5. QED
    BY <1>3, <1>4

LEMMA EvidenceStep ==
    ASSUME IInv, [Next]_vars
    PROVE  EvidenceKept'
  <1> USE ReductionAssumption
  <1>1. CASE report' = report
    BY <1>1 DEF IInv, EvidenceKept
  <1>2. Kept \in Seq(Lines)
    BY KeptTyped DEF IInv
  <1>3. ASSUME NEW p \in Processes, NEW src \in {"kubernetes", "elastic"}, Receive(p, src)
        PROVE  EvidenceKept'
    <2>1. report' = NoReport
      BY <1>3 DEF Receive
    <2>2. QED
      BY <2>1 DEF EvidenceKept, NoReport, ErrorLines
  <1>4. CASE ShowNothing
    <2>1. /\ report'.lines = <<>> /\ report'.path = "none"
          /\ report'.shown = {} /\ report'.clusters = {}
      BY <1>4, PathMeans DEF ShowNothing, Answer, Report
    <2>2. QED
      BY <2>1 DEF EvidenceKept, ErrorLines
  <1>5. CASE ShowTrace
    <2>1. report'.lines = Kept /\ report'.path = "trace" /\ report'.shown = DOMAIN Kept
      BY <1>5 DEF ShowTrace, Answer, Report
    <2>2. QED
      BY <2>1 DEF EvidenceKept, ErrorLines
  <1>6. CASE ShowErrors
    <2>1. /\ report'.lines = Kept /\ report'.path = "errors" /\ report'.shown = ErrorWindow(Kept)
          /\ ErrorLines(Kept) # {}
      BY <1>6, PathMeans DEF ShowErrors, Answer, Report
    <2>2. QED
      BY <1>2, <2>1, ErrorsShown DEF EvidenceKept
  <1>7. CASE ShowTemplates
    <2> DEFINE tree == Learn(Tree(worker), Kept)
               entries == catalog[worker].entries
               clusters == Summary(tree)
    <2>1. /\ tree \in Seq(Templates) /\ entries \in SUBSET Entries /\ worker \in All
          /\ Tree(worker) \in Seq(Templates)
      BY <1>7, BatchTyped, TreeTyped DEF IInv
    <2>2. /\ report'.lines = Kept /\ report'.path = "templates" /\ report'.clusters = clusters
          /\ report'.shown = ShownOf(clusters)
          /\ ErrorLines(Kept) = {}
      BY <1>7, PathMeans DEF ShowTemplates, Answer, Report
    <2>3. \A i \in DOMAIN Kept : \E k \in DOMAIN tree : tree[k] = TemplateOf[Kept[i]]
      BY <1>2, <2>1, Learnt
    <2>4. clusters = {Guarded(k, entries) : k \in Clusters(tree, Kept)}
      BY DEF Summary
    <2> HIDE DEF tree, entries
    <2>5. \A i \in DOMAIN Kept : \E c \in clusters :
             c.template = TemplateOf[Kept[i]] /\ c.count = Cardinality(Places(Kept, c.template))
      <3> HIDE DEF clusters
      <3> TAKE i \in DOMAIN Kept
      <3>1. PICK n \in DOMAIN tree : tree[n] = TemplateOf[Kept[i]]
        BY <2>3
      <3> DEFINE k == [id |-> n, template |-> tree[n], count |-> Cardinality(Places(Kept, tree[n]))]
      <3>2. tree[n] \in TemplatesIn(Kept)
        BY <3>1 DEF TemplatesIn
      <3>3. k \in Clusters(tree, Kept)
        BY <3>2 DEF Clusters
      <3>4. Guarded(k, entries) \in clusters
        BY <2>4, <3>3
      <3>5. Guarded(k, entries).template = tree[n] /\ Guarded(k, entries).count = k.count
        BY DEF Guarded
      <3>6. QED
        BY <3>1, <3>4, <3>5
    <2>6. ASSUME NEW c \in clusters, c.count < RareThreshold
          PROVE  FirstOf(Places(Kept, c.template), MaxExamples) \subseteq ShownOf(clusters)
      <3>1. PICK k \in Clusters(tree, Kept) : c = Guarded(k, entries)
        BY <2>4
      <3>2. c.class = "rare"
        BY <2>6, <3>1 DEF Guarded
      <3>3. ExamplesOf(c, Kept) = FirstOf(Places(Kept, c.template), MaxExamples)
        BY <3>2 DEF ExamplesOf
      <3>4. QED
        BY <2>6, <3>3 DEF ShownOf
    <2>7. DecisionLines(Kept) \cup Boundary(Kept) \subseteq ShownOf(clusters)
      BY DEF ShownOf
    <2> HIDE DEF clusters
    <2>8. QED
      BY <2>2, <2>5, <2>6, <2>7 DEF EvidenceKept
  <1>8. ASSUME NEW line \in Lines, ReadLine(line) \/ SearchLine(line)
        PROVE  report' = report
    BY <1>8 DEF ReadLine, SearchLine, Unchanged
  <1>9. CASE ReadInstance \/ LockTimesOut \/ SkipFlow \/ SaveCatalog \/ UNCHANGED vars
    <2>1. report' = report
      BY <1>9 DEF ReadInstance, Unchanged, LockTimesOut, SkipFlow, SaveCatalog, vars
    <2>2. QED
      BY <2>1, <1>1
  <1>10. ASSUME NEW flow \in Flows, BuildFlow(flow)
         PROVE  report' = report
    BY <1>10 DEF BuildFlow
  <1>11. ASSUME NEW p \in All, Crash(p)
         PROVE  report' = report
    BY <1>11 DEF Crash
  <1>12. QED
    BY <1>1, <1>3, <1>4, <1>5, <1>6, <1>7, <1>8, <1>9, <1>10, <1>11 DEF Next

LEMMA ClassesStep ==
    ASSUME IInv, [Next]_vars
    PROVE  ClassesFit'
  <1> USE ReductionAssumption
  <1>1. CASE report' = report /\ (forked => forked')
    BY <1>1 DEF IInv, ClassesFit
  <1>2. CASE report'.clusters = {}
    BY <1>2 DEF ClassesFit
  <1>3. ASSUME NEW p \in Processes, NEW src \in {"kubernetes", "elastic"}, Receive(p, src)
        PROVE  report'.clusters = {}
    BY <1>3 DEF Receive, NoReport
  <1>4. CASE ShowNothing \/ ShowTrace \/ ShowErrors
    <2>1. report'.clusters = {}
      BY <1>4 DEF ShowNothing, ShowTrace, ShowErrors, Answer, Report
    <2>2. QED
      BY <2>1, <1>2
  <1>5. CASE ShowTemplates
    <2> DEFINE tree == Learn(Tree(worker), Kept)
               entries == catalog[worker].entries
    <2>1. /\ worker \in Processes /\ Kept \in Seq(Lines) /\ tree \in Seq(Templates)
          /\ entries \in SUBSET Entries
      BY <1>5, BatchTyped
    <2>2. /\ report'.clusters = Summary(tree)
          /\ report'.known = {[template |-> e.template, class |-> e.class] : e \in entries}
          /\ Saved(worker, tree)
      BY <1>5 DEF ShowTemplates, Answer, Report
    <2>3. Summary(tree) = {Guarded(k, entries) : k \in Clusters(tree, Kept)}
      BY DEF Summary
    <2>4. stateFile \in Seq(Templates) /\ forked \in BOOLEAN /\ TreesAgree
      BY DEF IInv, RestTyped
    <2> HIDE DEF tree, entries
    <2> SUFFICES ASSUME ~forked', NEW c \in Summary(tree), c.class \notin {"rare", "unknown"}
                 PROVE  [template |-> c.template, class |-> c.class] \in report'.known
      BY <2>2 DEF ClassesFit
    <2>5. Fit(entries, tree)
      <3>1. ~forked /\ IsPrefix(stateFile, tree)
        BY <2>2, <2>4 DEF Saved
      <3>2. Fit(entries, stateFile)
        BY <2>1, <2>4, <3>1 DEF TreesAgree, entries
      <3>3. QED
        BY <2>1, <2>4, <3>1, <3>2, FitGrows
    <2>6. PICK k \in Clusters(tree, Kept) : c = Guarded(k, entries)
      BY <2>3
    <2>7. k.id \in DOMAIN tree /\ k.template = tree[k.id]
      BY <2>1, <2>6, GuardedTyped
    <2>8. c.template = k.template /\ c.class = ClassOf(entries, k.id)
      BY <2>6 DEF Guarded
    <2>9. PICK e \in entries : e.id = k.id /\ c.class = e.class
      <3>1. \E e \in entries : e.id = k.id
        BY <2>8 DEF ClassOf
      <3>2. c.class = (CHOOSE e \in entries : e.id = k.id).class
        BY <2>8, <3>1 DEF ClassOf
      <3>3. QED
        BY <3>1, <3>2
    <2>10. e.template = c.template
      BY <2>5, <2>7, <2>8, <2>9 DEF Fit
    <2>11. QED
      BY <2>2, <2>9, <2>10
  <1>6. ASSUME NEW line \in Lines, ReadLine(line) \/ SearchLine(line)
        PROVE  report' = report /\ (forked => forked')
    BY <1>6 DEF ReadLine, SearchLine, Unchanged, treeVars
  <1>7. CASE ReadInstance \/ LockTimesOut \/ SkipFlow \/ SaveCatalog \/ UNCHANGED vars
    <2>1. report' = report /\ (forked => forked')
      BY <1>7 DEF ReadInstance, Unchanged, LockTimesOut, SkipFlow, SaveCatalog, vars, treeVars
    <2>2. QED
      BY <2>1, <1>1
  <1>8. ASSUME NEW flow \in Flows, BuildFlow(flow)
        PROVE  report' = report /\ (forked => forked')
    BY <1>8 DEF BuildFlow, Saved
  <1>9. ASSUME NEW p \in All, Crash(p)
        PROVE  report' = report /\ (forked => forked')
    BY <1>9 DEF Crash
  <1>10. QED
    BY <1>1, <1>2, <1>3, <1>4, <1>5, <1>6, <1>7, <1>8, <1>9 DEF Next

LEMMA StartsRight == Init => IInv
  <1> SUFFICES ASSUME Init PROVE IInv
    OBVIOUS
  <1> USE ReductionAssumption
  <1>1. <<>> \in Seq(Templates) /\ IsPrefix(<<>>, <<>>)
    BY EmptySeq, EmptyIsPrefix
  <1>2. SelectorTyped /\ SelectorRight
    BY FreshRight DEF Init
  <1>3. RestTyped
    <2>1. NoTree \in Trees /\ NoCatalog \in [loaded : BOOLEAN, entries : SUBSET Entries]
      BY <1>1 DEF NoTree, Trees, NoCatalog
    <2>2. NoSample \in [flows : 0..SampleSize, seen : [Templates -> Nat]]
      BY DEF NoSample
    <2>3. 0 \in 0..MaxReports /\ 0 \in 0..MaxCrashes /\ 0 \in 0..MaxBuilds
      OBVIOUS
    <2>4. report.clusters = {}
      BY DEF Init, NoReport
    <2>5. QED
      BY <1>1, <2>1, <2>2, <2>3, <2>4 DEF Init, RestTyped
  <1>4. TreesAgree
    BY <1>1 DEF Init, TreesAgree, Fit, NoTree, NoCatalog
  <1>5. EvidenceKept /\ ClassesFit
    BY DEF Init, EvidenceKept, ClassesFit, NoReport, ErrorLines
  <1>6. QED
    BY <1>2, <1>3, <1>4, <1>5 DEF IInv

LEMMA StepKeeps == IInv /\ [Next]_vars => IInv'
  BY SelectorStep, RestStep, TreesStep, EvidenceStep, ClassesStep DEF IInv

(* The invariant behind the others.                                        *)
THEOREM Invariant == Spec => []IInv
  <1>1. QED
    BY StartsRight, StepKeeps, PTL DEF Spec

(* Every variable keeps its type: no tree learns anything but templates,   *)
(* and no position kept or held is one that was not read.                  *)
THEOREM TypeCorrect == Spec => []TypeOK
  <1>1. IInv => TypeOK
    BY TypesTogether DEF IInv
  <1>2. QED
    BY <1>1, Invariant, PTL

(* The selector of a pod's log, which reads once and holds back no more    *)
(* than the lines before a match, keeps exactly the windows around the     *)
(* matches, in order and none twice, for windows of any size.              *)
THEOREM SelectionExact == Spec => []PodLinesExact
  <1>1. IInv => PodLinesExact
    BY DEF IInv, SelectorRight, PodLinesExact
  <1>2. QED
    BY <1>1, Invariant, PTL

(* No catalog, whatever its entries, hides an error.  In a log without     *)
(* errors it hides no decision, no end of the flow and none of the first   *)
(* MaxExamples lines of a rare template, and every line is shown or        *)
(* counted.                                                                *)
THEOREM ReductionKeepsEvidence == Spec => []EvidenceKept
  <1>1. IInv => EvidenceKept
    BY DEF IInv
  <1>2. QED
    BY <1>1, Invariant, PTL

(* As long as the trees of all processes extend one another, the numbers   *)
(* under which the catalog is asked are those it was built with.           *)
THEOREM ClassesAreTheirs == Spec => []ClassesFit
  <1>1. IInv => ClassesFit
    BY DEF IInv
  <1>2. QED
    BY <1>1, Invariant, PTL

(* A template the catalog has never seen is not reduced as boilerplate     *)
(* before some process has written its tree over one it does not extend:   *)
(* the stale tree of reducer.py is the only way to lose a new template.    *)
THEOREM OnlyForksHideTemplates == Spec => [](forked \/ NewTemplatesKept)
  <1>1. IInv => forked \/ NewTemplatesKept
    <2> SUFFICES ASSUME IInv, ~forked, NEW c \in report.clusters, c.class = "boilerplate"
                 PROVE  \E e \in report.known : e.template = c.template
      BY DEF NewTemplatesKept
    <2>1. ClassesFit
      BY DEF IInv
    <2>2. [template |-> c.template, class |-> c.class] \in report.known
      BY <2>1 DEF ClassesFit
    <2>3. QED
      BY <2>2
  <1>2. QED
    BY <1>1, Invariant, PTL
=============================================================================
