----------------------------- MODULE HeapProofs -----------------------------
(***************************************************************************)
(* The heap's list is sound, for every arena and whatever is asked for, and *)
(* the scheduler's tasks land on the slots that Sched takes for granted.    *)
(***************************************************************************)
EXTENDS Heap, SequenceTheorems, Induction

MemBlock == [at : Nat, size : Nat, free : BOOLEAN]

\* A list that tiles 0 .. e - 1.
Chain(bs, e) ==
  /\ bs \in Seq(MemBlock)
  /\ IF bs = << >> THEN e = 0 ELSE bs[1].at = 0 /\ End(bs[Len(bs)]) = e
  /\ \A i \in 1 .. Len(bs) - 1 : End(bs[i]) = bs[i + 1].at

Aligned(bs) == \A i \in 1 .. Len(bs) : bs[i].at % Align = 0

\* No two free blocks side by side.
Apart(bs) == \A i \in 1 .. Len(bs) - 1 : ~(bs[i].free /\ bs[i + 1].free)

Sound(bs, e) == Chain(bs, e) /\ Aligned(bs)

TakenIn(bs) == {b \in Range(bs) : ~b.free}

\* The taken blocks T and the allocations L are the same.
Agree(T, L) ==
  /\ \A b \in T : \E a \in L : Payload(b) = a.ptr
  /\ \A a \in L : \E b \in T : Payload(b) = a.ptr /\ b.size >= a.size
  /\ \A a, b \in L : a.ptr = b.ptr => a = b

\* What holds of the list and the allocations between two calls.
Good(bs, L) ==
  /\ Sound(bs, Arena) /\ Apart(bs)
  /\ L \subseteq [ptr : Nat \ {0}, size : Nat \ {0}]
  /\ Agree(TakenIn(bs), L)

IInv ==
  /\ Good(blocks, live)
  /\ pairs \subseteq [struct : 0 .. Arena, stack : 0 .. Arena]
  /\ schedOnly \in BOOLEAN

-----------------------------------------------------------------------------
\* (size + 7) & ~7 is the next multiple of 8.
LEMMA AlignUpFacts ==
  ASSUME NEW n \in Nat
  PROVE  AlignUp(n) \in Nat /\ AlignUp(n) >= n /\ AlignUp(n) % Align = 0
BY DEF AlignUp, Align

\* A block that has grown by another and its header is still a block.
LEMMA MergedBlock ==
  ASSUME NEW c \in MemBlock, NEW b \in MemBlock
  PROVE  /\ [c EXCEPT !.size = @ + Header + b.size] \in MemBlock
         /\ [c EXCEPT !.size = @ + Header + b.size].at = c.at
         /\ [c EXCEPT !.size = @ + Header + b.size].size = c.size + Header + b.size
         /\ [c EXCEPT !.size = @ + Header + b.size].free = c.free
<1> DEFINE n == c.size + Header + b.size
<1>1. n \in Nat
  BY HeapAssumption DEF MemBlock
<1> HIDE DEF n
<1>2. /\ [c EXCEPT !.size = n] \in MemBlock /\ [c EXCEPT !.size = n].size = n
      /\ [c EXCEPT !.size = n].at = c.at /\ [c EXCEPT !.size = n].free = c.free
  BY <1>1 DEF MemBlock
<1> QED
  BY <1>2 DEF n

\* The passes are what their recursion says.
LEMMA PassesStep ==
  ASSUME NEW bs \in Seq(MemBlock)
  PROVE  /\ Passes(bs) \in [0 .. Len(bs) -> Seq(MemBlock)]
         /\ Passes(bs)[0] = << >>
         /\ \A n \in 1 .. Len(bs) : Passes(bs)[n] = Merge(Passes(bs)[n - 1], bs[n])
<1> DEFINE S == Seq(MemBlock)
           N == Len(bs)
           step == [v \in S \X (1 .. N) |-> Merge(v[1], bs[v[2]])]
           Runs(g) == g = [n \in 0 .. N |-> IF n = 0 THEN << >> ELSE Merge(g[n - 1], bs[n])]
<1>1. N \in Nat /\ \A n \in 1 .. N : bs[n] \in MemBlock
  OBVIOUS
<1>2. ASSUME NEW v \in S, NEW b \in MemBlock
      PROVE  Merge(v, b) \in S
  <2>1. Append(v, b) \in S
    OBVIOUS
  <2>2. ASSUME v # << >>
        PROVE  [v EXCEPT ![Len(v)].size = @ + Header + b.size] \in S
    <3>1. Len(v) \in 1 .. Len(v) /\ v[Len(v)] \in MemBlock
      BY <2>2
    <3>2. [v[Len(v)] EXCEPT !.size = @ + Header + b.size] \in MemBlock
      BY <3>1, MergedBlock
    <3> QED
      BY <3>1, <3>2, ExceptSeq
  <2> QED
    BY <2>1, <2>2 DEF Merge
<1>3. step \in [S \X (1 .. N) -> S]
  BY <1>1, <1>2
<1>4. << >> \in S
  OBVIOUS
<1>5. PICK f \in [0 .. N -> S] : f[0] = << >> /\ \A i \in 1 .. N : f[i] = step[<<f[i - 1], i>>]
  <2> DEFINE none == << >>
  <2>1. N \in Nat /\ none \in S
    BY <1>1, <1>4
  <2> HIDE DEF step, S, N, none
  <2>2. \E f \in [0 .. N -> S] : Iterates(f, N, none, step)
    BY <2>1, <1>3, Iteration
  <2> QED
    BY <2>2 DEF none, Iterates
<1>6. ASSUME NEW i \in 1 .. N
      PROVE  f[i] = Merge(f[i - 1], bs[i])
  <2>1. f[i - 1] \in S /\ i \in 1 .. N
    BY <1>1
  <2> DEFINE v == <<f[i - 1], i>>
  <2>2. v \in S \X (1 .. N) /\ v[1] = f[i - 1] /\ v[2] = i
    BY <2>1
  <2>3. f[i] = step[v]
    BY <1>5
  <2>4. step[v] = Merge(v[1], bs[v[2]])
    <3> HIDE DEF v, S, N
    <3> QED BY <2>2
  <2> QED
    BY <2>2, <2>3, <2>4
<1>7. Runs(f)
  BY <1>5, <1>6
<1>8. Passes(bs) = CHOOSE g : Runs(g)
  BY DEF Passes
<1>9. Runs(Passes(bs))
  <2> HIDE DEF Runs
  <2> QED
    BY <1>7, <1>8
<1> QED
  OBVIOUS

\* A list's blocks, its last one, and what Append makes of it.
LEMMA ListFacts ==
  ASSUME NEW bs \in Seq(MemBlock)
  PROVE  /\ Len(bs) \in Nat /\ \A i \in 1 .. Len(bs) : bs[i] \in MemBlock
         /\ \A i \in 1 .. Len(bs) : bs[i].at \in Nat /\ bs[i].size \in Nat /\ End(bs[i]) \in Nat
         /\ \A i \in 1 .. Len(bs) : Payload(bs[i]) = bs[i].at + Header /\ bs[i].free \in BOOLEAN
         /\ Range(bs) = {bs[i] : i \in 1 .. Len(bs)}
         /\ bs # << >> <=> Len(bs) # 0
<1>1. \A b \in MemBlock : b.at \in Nat /\ b.size \in Nat /\ b.free \in BOOLEAN /\ End(b) \in Nat
  BY HeapAssumption DEF MemBlock, End
<1>2. DOMAIN bs = 1 .. Len(bs)
  OBVIOUS
<1> QED
  BY <1>1, <1>2 DEF Range, Payload

LEMMA InTaken ==
  ASSUME NEW bs \in Seq(MemBlock), NEW d
  PROVE  d \in TakenIn(bs) <=> \E i \in 1 .. Len(bs) : d = bs[i] /\ ~d.free
BY ListFacts DEF TakenIn

\* One step of the pass keeps the list sound and has no two free blocks meet.
LEMMA MergeSound ==
  ASSUME NEW e \in Nat, NEW v, Sound(v, e), Apart(v),
         NEW b \in MemBlock, b.at = e, b.at % Align = 0
  PROVE  /\ Sound(Merge(v, b), End(b)) /\ Apart(Merge(v, b))
         /\ TakenIn(Merge(v, b)) = TakenIn(v) \cup {c \in {b} : ~c.free}
<1> DEFINE w == Merge(v, b)
           n == Len(v)
<1>1. v \in Seq(MemBlock) /\ n \in Nat
  BY DEF Sound, Chain
<1>2. CASE v # << >> /\ v[n].free /\ b.free
  <2> DEFINE c == [v[n] EXCEPT !.size = @ + Header + b.size]
  <2>1. n \in 1 .. n /\ v[n] \in MemBlock
    BY <1>1, <1>2
  <2>2. c \in MemBlock /\ c.at = v[n].at /\ c.size = v[n].size + Header + b.size /\ c.free
    BY <1>2, <2>1, MergedBlock
  <2>3. w = [v EXCEPT ![n] = c]
    BY <1>2 DEF Merge, Last
  <2> HIDE DEF c
  <2>4. /\ w \in Seq(MemBlock) /\ Len(w) = n
        /\ \A j \in 1 .. n : w[j] = IF j = n THEN c ELSE v[j]
    BY <1>1, <2>1, <2>2, <2>3, ExceptSeq
  <2> HIDE DEF w
  <2>5. End(v[n]) = e /\ End(c) = End(b)
    <3>1. End(v[n]) = e
      BY <1>2 DEF Sound, Chain
    <3>2. /\ Header \in Nat /\ b.at \in Nat /\ b.size \in Nat
          /\ v[n].at \in Nat /\ v[n].size \in Nat
      BY <2>1, HeapAssumption DEF MemBlock
    <3> HIDE DEF n
    <3> QED
      BY <2>2, <3>1, <3>2 DEF End
  <2>6. /\ \A i \in 1 .. n : v[i] \in MemBlock
        /\ \A i \in 1 .. n - 1 : End(v[i]) = v[i + 1].at /\ ~(v[i].free /\ v[i + 1].free)
        /\ \A i \in 1 .. n : v[i].at % Align = 0
        /\ v[1].at = 0
    BY <1>1, <1>2 DEF Sound, Chain, Apart, Aligned
  <2>7. Chain(w, End(b))
    <3>1. w # << >> /\ w[1].at = 0 /\ End(w[Len(w)]) = End(b)
      BY <2>1, <2>2, <2>4, <2>5, <2>6
    <3>2. \A i \in 1 .. n - 1 : End(w[i]) = w[i + 1].at
      BY <2>1, <2>2, <2>4, <2>6
    <3> QED
      BY <2>4, <3>1, <3>2 DEF Chain
  <2>8. Aligned(w) /\ Apart(w)
    <3> HIDE DEF n
    <3>1. \A i \in 1 .. n : w[i].at % Align = 0
      BY <2>1, <2>2, <2>4, <2>6
    <3>2. \A i \in 1 .. n - 1 : ~(w[i].free /\ w[i + 1].free)
      BY <1>1, <1>2, <2>1, <2>2, <2>4, <2>6
    <3> QED
      BY <2>4, <3>1, <3>2 DEF Aligned, Apart
  <2>9. TakenIn(w) = TakenIn(v) \cup {d \in {b} : ~d.free}
    <3>1. ASSUME NEW d
          PROVE  d \in TakenIn(w) <=> d \in TakenIn(v)
      BY <1>1, <1>2, <2>1, <2>2, <2>4, InTaken
    <3> QED
      BY <1>2, <3>1
  <2> QED
    BY <2>7, <2>8, <2>9 DEF Sound, w
<1>3. CASE ~(v # << >> /\ v[n].free /\ b.free)
  <2>1. w = Append(v, b)
    BY <1>3 DEF Merge, Last
  <2> HIDE DEF w
  <2>2. /\ w \in Seq(MemBlock) /\ Len(w) = n + 1
        /\ \A j \in 1 .. n + 1 : w[j] = IF j = n + 1 THEN b ELSE v[j]
    BY <1>1, <2>1
  <2>3. /\ \A i \in 1 .. n - 1 : End(v[i]) = v[i + 1].at /\ ~(v[i].free /\ v[i + 1].free)
        /\ \A i \in 1 .. n : v[i].at % Align = 0
        /\ IF n = 0 THEN e = 0 ELSE v[1].at = 0 /\ End(v[n]) = e
    BY <1>1 DEF Sound, Chain, Apart, Aligned
  <2>4. Chain(w, End(b))
    <3>1. w # << >> /\ w[1].at = 0 /\ End(w[Len(w)]) = End(b)
      BY <1>1, <2>2, <2>3
    <3>2. \A i \in 1 .. n : End(w[i]) = w[i + 1].at
      BY <1>1, <2>2, <2>3
    <3> QED
      BY <1>1, <2>2, <3>1, <3>2 DEF Chain
  <2>5. Aligned(w) /\ Apart(w)
    BY SMTT(30), <1>1, <1>3, <2>2, <2>3 DEF Aligned, Apart
  <2>6. TakenIn(w) = TakenIn(v) \cup {d \in {b} : ~d.free}
    <3>1. ASSUME NEW d
          PROVE  d \in TakenIn(w) <=> d \in TakenIn(v) \/ (d = b /\ ~b.free)
      <4> HIDE DEF n
      <4>1. ASSUME NEW i \in 1 .. n, d = v[i], ~d.free
            PROVE  d \in TakenIn(w)
        BY <1>1, <2>2, <4>1, InTaken
      <4>2. ASSUME d = b, ~b.free
            PROVE  d \in TakenIn(w)
        BY <1>1, <2>2, <4>2, InTaken
      <4>3. ASSUME NEW i \in 1 .. n + 1, d = w[i], ~d.free
            PROVE  d = b \/ \E k \in 1 .. n : d = v[k]
        BY <1>1, <2>2, <4>3
      <4> QED
        BY <1>1, <2>2, <4>1, <4>2, <4>3, InTaken DEF n
    <3> QED
      BY <3>1
  <2> QED
    BY <2>4, <2>5, <2>6 DEF Sound, w
<1> QED
  BY <1>2, <1>3

\* The whole pass: the same bytes, the same taken blocks, no two free neighbours.
LEMMA CoalesceSound ==
  ASSUME NEW e \in Nat, NEW bs, Sound(bs, e)
  PROVE  /\ Sound(Coalesce(bs), e) /\ Apart(Coalesce(bs))
         /\ TakenIn(Coalesce(bs)) = TakenIn(bs)
<1> DEFINE N == Len(bs)
           p == Passes(bs)
           upto(i) == IF i = 0 THEN 0 ELSE End(bs[i])
           taken(i) == {d \in Range(bs) : \E j \in 1 .. i : d = bs[j] /\ ~d.free}
           P == {i \in 0 .. N : /\ Sound(p[i], upto(i)) /\ Apart(p[i])
                                /\ TakenIn(p[i]) = taken(i)}
<1>1. bs \in Seq(MemBlock) /\ N \in Nat
  BY DEF Sound, Chain
<1>2. /\ p[0] = << >>
      /\ \A n \in 1 .. N : p[n] = Merge(p[n - 1], bs[n])
  BY <1>1, PassesStep
<1> HIDE DEF p
<1>3. 0 \in P
  <2>1. Sound(<< >>, 0) /\ Apart(<< >>) /\ TakenIn(<< >>) = {}
    BY DEF Sound, Chain, Aligned, Apart, TakenIn, Range
  <2> QED
    BY <1>1, <1>2, <2>1
<1>4. ASSUME NEW i \in 0 .. N - 1, i \in P
      PROVE  i + 1 \in P
  <2>1. i + 1 \in 1 .. N /\ (i + 1) - 1 = i /\ i \in Nat
    BY <1>1
  <2>2. p[i + 1] = Merge(p[i], bs[i + 1])
    BY <1>2, <2>1
  <2>3. bs[i + 1] \in MemBlock /\ bs[i + 1].at = upto(i) /\ bs[i + 1].at % Align = 0
    BY <1>1, <2>1 DEF Sound, Chain, Aligned
  <2>4. upto(i) \in Nat
    BY <2>3 DEF MemBlock
  <2> DEFINE u == upto(i)
             b == bs[i + 1]
             v == p[i]
  <2>5. Sound(v, u) /\ Apart(v) /\ TakenIn(v) = taken(i)
    BY <1>4
  <2>6. /\ Sound(Merge(v, b), End(b)) /\ Apart(Merge(v, b))
        /\ TakenIn(Merge(v, b)) = TakenIn(v) \cup {c \in {b} : ~c.free}
    <3> HIDE DEF u, b, v
    <3> QED
      BY <2>3, <2>4, <2>5, MergeSound DEF u, b
  <2>7. taken(i + 1) = taken(i) \cup {c \in {b} : ~c.free}
    <3>1. b \in Range(bs)
      BY <1>1, <2>1, ListFacts
    <3>2. \A j : j \in 1 .. i + 1 <=> j \in 1 .. i \/ j = i + 1
      BY <2>1
    <3> QED
      BY <3>1, <3>2
  <2>8. upto(i + 1) = End(b)
    BY <2>1
  <2>9. /\ Sound(p[i + 1], upto(i + 1)) /\ Apart(p[i + 1])
        /\ TakenIn(p[i + 1]) = taken(i + 1)
    <3> HIDE DEF taken, upto, b
    <3> QED
      BY <2>2, <2>5, <2>6, <2>7, <2>8 DEF b
  <2> HIDE DEF taken, upto
  <2> QED
    BY <1>1, <2>1, <2>9
<1>5. N \in P
  <2> HIDE DEF P, N
  <2>1. 0 .. N \subseteq P
    BY <1>1, <1>3, <1>4, UpTo
  <2> QED
    BY <1>1, <2>1
<1>6. upto(N) = e
  BY <1>1 DEF Sound, Chain
<1>7. taken(N) = TakenIn(bs)
  BY <1>1, ListFacts DEF TakenIn
<1> QED
  <2> HIDE DEF upto, taken
  <2> QED
    BY <1>5, <1>6, <1>7 DEF Coalesce, p

\* kfree unmarks the block of its payload; every other taken block stays as it is.
LEMMA KfreeSound ==
  ASSUME NEW e \in Nat, NEW bs, Sound(bs, e), Apart(bs), NEW p \in Nat
  PROVE  /\ Sound(Kfree(bs, p), e) /\ Apart(Kfree(bs, p))
         /\ TakenIn(Kfree(bs, p)) = {b \in TakenIn(bs) : Payload(b) # p}
<1> DEFINE N == Len(bs)
           freed(i) == IF Payload(bs[i]) = p THEN [bs[i] EXCEPT !.free = TRUE] ELSE bs[i]
           w == [i \in 1 .. N |-> freed(i)]
<1>1. bs \in Seq(MemBlock) /\ N \in Nat
  BY DEF Sound, Chain
<1>2. CASE p = Null
  <2>1. \A b \in TakenIn(bs) : Payload(b) # p
    BY <1>1, <1>2, InTaken, ListFacts, HeapAssumption DEF Null
  <2> QED
    BY <1>2, <2>1 DEF Kfree
<1>3. CASE p # Null
  <2>1. ASSUME NEW i \in 1 .. N
        PROVE  /\ freed(i) \in MemBlock /\ freed(i).at = bs[i].at /\ freed(i).size = bs[i].size
               /\ freed(i).free = (bs[i].free \/ Payload(bs[i]) = p)
    <3>1. bs[i] \in MemBlock
      BY <1>1
    <3> QED
      BY <3>1 DEF MemBlock
  <2> HIDE DEF freed
  <2>2. /\ w \in Seq(MemBlock) /\ Len(w) = N
        /\ \A i \in 1 .. N : w[i] = freed(i)
    BY <1>1, <2>1
  <2> HIDE DEF w
  <2>3. \A i \in 1 .. N : End(w[i]) = End(bs[i])
    BY <2>1, <2>2 DEF End
  <2>4. Sound(w, e)
    <3>1. IF w = << >> THEN e = 0 ELSE w[1].at = 0 /\ End(w[Len(w)]) = e
      BY <1>1, <2>1, <2>2, <2>3 DEF Sound, Chain
    <3>2. \A i \in 1 .. N - 1 : End(w[i]) = w[i + 1].at
      BY <1>1, <2>1, <2>2, <2>3 DEF Sound, Chain
    <3>3. \A i \in 1 .. N : w[i].at % Align = 0
      BY <1>1, <2>1, <2>2 DEF Sound, Aligned
    <3> QED
      BY <2>2, <3>1, <3>2, <3>3 DEF Sound, Chain, Aligned
  <2>5. TakenIn(w) = {b \in TakenIn(bs) : Payload(b) # p}
    <3>1. ASSUME NEW d, d \in TakenIn(w)
          PROVE  d \in TakenIn(bs) /\ Payload(d) # p
      <4>1. PICK i \in 1 .. N : d = freed(i) /\ ~d.free
        BY <2>2, <3>1, InTaken
      <4>2. ~bs[i].free /\ Payload(bs[i]) # p
        BY <2>1, <4>1
      <4>3. d = bs[i]
        BY <4>1, <4>2 DEF freed
      <4> QED
        BY <1>1, <4>2, <4>3, InTaken
    <3>2. ASSUME NEW d \in TakenIn(bs), Payload(d) # p
          PROVE  d \in TakenIn(w)
      <4>1. PICK i \in 1 .. N : d = bs[i] /\ ~d.free
        BY <1>1, <3>2, InTaken
      <4>2. w[i] = d
        BY <2>2, <3>2, <4>1 DEF freed
      <4> QED
        BY <2>2, <4>1, <4>2, InTaken
    <3> QED
      BY <3>1, <3>2
  <2>6. Kfree(bs, p) = Coalesce(w)
    BY <1>3 DEF Kfree, w, freed
  <2> QED
    BY <2>4, <2>5, <2>6, CoalesceSound
<1> QED
  BY <1>2, <1>3

\* Sums of multiples of 8.
LEMMA SumOfMultiples ==
  ASSUME NEW x \in Nat, NEW y \in Nat, NEW z \in Nat,
         x % Align = 0, y % Align = 0, z % Align = 0
  PROVE  (x + y + z) % Align = 0
BY DEF Align

\* Where the blocks of a split list lie.
LEMMA SplitFacts ==
  ASSUME NEW bs \in Seq(MemBlock), NEW i \in 1 .. Len(bs), NEW a \in Nat, NEW rest \in Nat,
         NEW s, s = Split(bs, i, a, rest)
  PROVE  /\ s \in Seq(MemBlock) /\ Len(s) = Len(bs) + 1
         /\ \A j \in 1 .. i - 1 : s[j] = bs[j]
         /\ s[i] = [at |-> bs[i].at, size |-> a, free |-> FALSE]
         /\ s[i + 1] = [at |-> bs[i].at + Header + a, size |-> rest, free |-> TRUE]
         /\ \A j \in i + 1 .. Len(bs) : s[j + 1] = bs[j]
<1> DEFINE N == Len(bs)
           x == SubSeq(bs, 1, i - 1)
           taken == [at |-> bs[i].at, size |-> a, free |-> FALSE]
           left  == [at |-> bs[i].at + Header + a, size |-> rest, free |-> TRUE]
           y == <<taken, left>>
           z == SubSeq(bs, i + 1, N)
           xy == x \o y
           w == xy \o z
<1>1. N \in Nat /\ i \in 1 .. N /\ bs[i] \in MemBlock
  OBVIOUS
<1>2. taken \in MemBlock /\ left \in MemBlock
  BY <1>1, HeapAssumption DEF MemBlock
<1> HIDE DEF taken, left
<1>4. /\ x \in Seq(MemBlock) /\ Len(x) = i - 1
      /\ \A j \in 1 .. i - 1 : x[j] = bs[j]
  BY <1>1, SubSeqProperties
<1>5. y \in Seq(MemBlock) /\ Len(y) = 2 /\ y[1] = taken /\ y[2] = left
  BY <1>2
<1>6. /\ z \in Seq(MemBlock) /\ Len(z) = N - i
      /\ \A j \in 1 .. N - i : z[j] = bs[i + j]
  BY <1>1, SubSeqProperties
<1> HIDE DEF x, y, z, N
<1>7. /\ xy \in Seq(MemBlock) /\ Len(xy) = i + 1
      /\ \A j \in 1 .. i - 1 : xy[j] = bs[j]
      /\ xy[i] = taken /\ xy[i + 1] = left
  <2>1. /\ xy \in Seq(MemBlock) /\ Len(xy) = (i - 1) + 2
        /\ \A j \in 1 .. (i - 1) + 2 : xy[j] = IF j <= i - 1 THEN x[j] ELSE y[j - (i - 1)]
    <3>1. /\ xy \in Seq(MemBlock) /\ Len(xy) = Len(x) + Len(y)
          /\ \A j \in 1 .. Len(x) + Len(y) :
               xy[j] = IF j <= Len(x) THEN x[j] ELSE y[j - Len(x)]
      BY <1>4, <1>5, ConcatProperties
    <3> HIDE DEF xy
    <3> QED
      BY <1>4, <1>5, <3>1
  <2>2. i - (i - 1) = 1 /\ (i + 1) - (i - 1) = 2
    BY <1>1
  <2>3. i \in 1 .. (i - 1) + 2 /\ i + 1 \in 1 .. (i - 1) + 2 /\ (i - 1) + 2 = i + 1
    BY <1>1
  <2>4. xy[i] = y[i - (i - 1)] /\ xy[i + 1] = y[(i + 1) - (i - 1)]
    BY <1>1, <2>1, <2>3
  <2>5. \A j \in 1 .. i - 1 : xy[j] = bs[j]
    BY <1>1, <1>4, <2>1
  <2> QED
    BY <1>5, <2>1, <2>2, <2>3, <2>4, <2>5
<1> HIDE DEF xy
<1>8. /\ w \in Seq(MemBlock) /\ Len(w) = N + 1
      /\ \A j \in 1 .. i + 1 : w[j] = xy[j]
      /\ \A j \in i + 1 .. N : w[j + 1] = bs[j]
  <2>1. /\ w \in Seq(MemBlock) /\ Len(w) = (i + 1) + (N - i)
        /\ \A j \in 1 .. (i + 1) + (N - i) : w[j] = IF j <= i + 1 THEN xy[j] ELSE z[j - (i + 1)]
    <3>1. /\ w \in Seq(MemBlock) /\ Len(w) = Len(xy) + Len(z)
          /\ \A j \in 1 .. Len(xy) + Len(z) :
               w[j] = IF j <= Len(xy) THEN xy[j] ELSE z[j - Len(xy)]
      BY <1>6, <1>7, ConcatProperties
    <3> HIDE DEF w
    <3> QED
      BY <1>6, <1>7, <3>1
  <2>2. (i + 1) + (N - i) = N + 1
    BY <1>1
  <2>3. ASSUME NEW j \in i + 1 .. N
        PROVE  w[j + 1] = bs[j]
    <3>1. /\ j + 1 \in 1 .. N + 1 /\ ~(j + 1 <= i + 1)
          /\ (j + 1) - (i + 1) = j - i /\ j - i \in 1 .. N - i /\ i + (j - i) = j
      BY <1>1
    <3>2. w[j + 1] = z[j - i]
      BY <2>1, <2>2, <3>1
    <3>3. z[j - i] = bs[i + (j - i)]
      BY <1>6, <3>1
    <3> QED
      BY <3>1, <3>2, <3>3
  <2>4. ASSUME NEW j \in 1 .. i + 1
        PROVE  w[j] = xy[j]
    <3>1. j \in 1 .. N + 1 /\ j <= i + 1
      BY <1>1
    <3> HIDE DEF w
    <3> QED
      BY <2>1, <2>2, <3>1
  <2> QED
    BY <2>1, <2>2, <2>3, <2>4
<1>9. w = s
  BY DEF Split, w, xy, x, y, z, N, taken, left
<1> HIDE DEF w
<1> QED
  BY <1>1, <1>7, <1>8, <1>9 DEF N, taken, left

\* Taking a block that fits keeps the list sound, with one more taken block.
LEMMA TakeSound ==
  ASSUME NEW e \in Nat, NEW bs, Sound(bs, e), Apart(bs), NEW n \in Nat,
         NEW i \in 1 .. Len(bs), Fits(bs, n, i)
  PROVE  /\ Sound(Take(bs, n, i), e) /\ Apart(Take(bs, n, i))
         /\ \E b \in MemBlock :
              /\ b.at = bs[i].at /\ b.size >= AlignUp(n) /\ ~b.free
              /\ bs[i].size >= AlignUp(n) + Header + Slack => b.size = AlignUp(n)
              /\ TakenIn(Take(bs, n, i)) = TakenIn(bs) \cup {b}
<1> DEFINE N == Len(bs)
           w == Take(bs, n, i)
           a == AlignUp(n)
           rest == bs[i].size - a - Header
<1>1. bs \in Seq(MemBlock) /\ N \in Nat /\ i \in 1 .. N /\ bs[i] \in MemBlock
  BY DEF Sound, Chain
<1>2. a \in Nat /\ a >= n /\ a % Align = 0
  BY AlignUpFacts
<1>3. bs[i].free /\ bs[i].size >= a
  BY DEF Fits
<1>4. /\ bs[1].at = 0 /\ End(bs[N]) = e
      /\ \A j \in 1 .. N - 1 : End(bs[j]) = bs[j + 1].at /\ ~(bs[j].free /\ bs[j + 1].free)
      /\ \A j \in 1 .. N : bs[j].at % Align = 0
  BY <1>1 DEF Sound, Chain, Aligned, Apart
<1>5. bs[i].at \in Nat /\ bs[i].size \in Nat /\ Header \in Nat
  BY <1>1, HeapAssumption DEF MemBlock
<1> HIDE DEF a
<1>6. CASE bs[i].size >= a + Header + Slack
  <2> DEFINE taken == [at |-> bs[i].at, size |-> a, free |-> FALSE]
             left  == [at |-> bs[i].at + Header + a, size |-> rest, free |-> TRUE]
  <2>1. rest \in Nat
    BY <1>2, <1>5, <1>6 DEF Slack
  <2>2. w = Split(bs, i, a, rest)
    BY <1>6 DEF Take, a
  <2> HIDE DEF w
  <2>3. /\ w \in Seq(MemBlock) /\ Len(w) = N + 1
        /\ \A j \in 1 .. i - 1 : w[j] = bs[j]
        /\ w[i] = taken /\ w[i + 1] = left
        /\ \A j \in i + 1 .. N : w[j + 1] = bs[j]
    BY <1>1, <1>2, <2>1, <2>2, SplitFacts
  <2>4. End(taken) = left.at /\ End(left) = End(bs[i]) /\ taken.at = bs[i].at
    BY SMTT(30), <1>2, <1>5, <2>1 DEF End
  <2>5. left.at % Align = 0 /\ taken \in MemBlock /\ left \in MemBlock
    <3>1. bs[i].at % Align = 0
      BY <1>1, <1>4
    <3>2. (bs[i].at + Header + a) % Align = 0 /\ bs[i].at + Header + a \in Nat
      <4>1. Header % Align = 0
        BY HeapAssumption DEF Align
      <4>2. \A x, y, z \in Nat : x % Align = 0 /\ y % Align = 0 /\ z % Align = 0
                                    => (x + y + z) % Align = 0
        BY SumOfMultiples
      <4> HIDE DEF left, taken, rest
      <4>3. (bs[i].at + Header + a) % Align = 0
        BY <1>2, <1>5, <3>1, <4>1, <4>2, Zenon
      <4> QED
        BY <1>2, <1>5, <4>3
    <3> QED
      BY <1>2, <1>5, <2>1, <3>2 DEF MemBlock
  <2>6. taken.at = bs[i].at /\ taken.size = a /\ ~taken.free /\ left.free
    OBVIOUS
  <2> HIDE DEF taken, left, rest, N
  <2>7. w[1].at = 0 /\ End(w[N + 1]) = e
    <3>1. CASE i = N
      BY <1>1, <1>4, <2>3, <2>4, <3>1
    <3>2. CASE i # N
      <4>1. N \in i + 1 .. N
        BY <1>1, <3>2
      <4> QED
        BY <1>1, <1>4, <2>3, <2>4, <4>1
    <3>3. w[1].at = bs[1].at
      BY <1>1, <2>3, <2>4
    <3> QED
      BY <1>4, <3>1, <3>2, <3>3
  <2>8. ASSUME NEW j \in 1 .. N
        PROVE  End(w[j]) = w[j + 1].at /\ ~(w[j].free /\ w[j + 1].free)
    <3>1. CASE j < i - 1
      <4>1. j \in 1 .. i - 1 /\ j + 1 \in 1 .. i - 1 /\ j \in 1 .. N - 1
        BY <1>1, <3>1
      <4> QED
        BY <1>4, <2>3, <4>1
    <3>2. CASE j = i - 1
      BY <1>1, <1>4, <2>3, <2>6, <3>2
    <3>3. CASE j = i
      BY <1>1, <2>3, <2>4, <2>6, <3>3
    <3>4. CASE j = i + 1
      <4>1. j \in i + 1 .. N /\ i \in 1 .. N - 1
        BY <1>1, <3>4
      <4>2. w[j + 1] = bs[i + 1] /\ w[j] = left
        BY <2>3, <3>4, <4>1
      <4> QED
        BY <1>3, <1>4, <2>4, <4>1, <4>2
    <3>5. CASE j > i + 1
      <4>1. /\ j - 1 \in 1 .. N - 1 /\ j - 1 \in i + 1 .. N /\ (j - 1) + 1 = j
            /\ j \in i + 1 .. N
        BY <1>1, <3>5
      <4>2. w[j] = bs[j - 1] /\ w[j + 1] = bs[j]
        BY <2>3, <4>1
      <4> QED
        BY <1>4, <4>1, <4>2
    <3> QED
      BY <1>1, <3>1, <3>2, <3>3, <3>4, <3>5
  <2>9. ASSUME NEW j \in 1 .. N + 1
        PROVE  w[j].at % Align = 0
    <3>1. CASE j > i + 1
      <4>1. j - 1 \in i + 1 .. N /\ (j - 1) + 1 = j /\ j - 1 \in 1 .. N
        BY <1>1, <3>1
      <4> QED
        BY <1>4, <2>3, <4>1
    <3>2. CASE j < i
      <4>1. j \in 1 .. i - 1 /\ j \in 1 .. N
        BY <1>1, <3>2
      <4> QED
        BY <1>4, <2>3, <4>1
    <3>3. CASE j = i
      BY <1>1, <1>4, <2>3, <2>4, <3>3
    <3>4. CASE j = i + 1
      BY <2>3, <2>5, <3>4
    <3> QED
      BY <1>1, <3>1, <3>2, <3>3, <3>4
  <2>10. Sound(w, e) /\ Apart(w)
    BY <1>1, <2>3, <2>7, <2>8, <2>9 DEF Sound, Chain, Aligned, Apart
  <2>11. TakenIn(w) = TakenIn(bs) \cup {taken}
    <3>1. ASSUME NEW d \in TakenIn(w)
          PROVE  d \in TakenIn(bs) \/ d = taken
      <4>1. PICK j \in 1 .. N + 1 : d = w[j] /\ ~d.free
        BY <2>3, InTaken
      <4>2. CASE j < i
        BY <1>1, <2>3, <4>1, <4>2, InTaken DEF N
      <4>3. CASE j = i \/ j = i + 1
        BY <2>3, <2>6, <4>1, <4>3
      <4>4. CASE j > i + 1
        <5>1. j - 1 \in 1 .. N /\ j - 1 \in i + 1 .. N /\ (j - 1) + 1 = j
          BY <1>1, <4>4
        <5>2. d = bs[j - 1]
          BY <2>3, <4>1, <5>1
        <5> QED
          BY <1>1, <4>1, <5>1, <5>2, InTaken DEF N
      <4> QED
        BY <1>1, <4>2, <4>3, <4>4
    <3>2. ASSUME NEW d \in TakenIn(bs)
          PROVE  d \in TakenIn(w)
      <4>1. PICK j \in 1 .. N : d = bs[j] /\ ~d.free
        BY <1>1, InTaken DEF N
      <4>2. j # i
        BY <1>3, <4>1
      <4>3. CASE j < i
        <5>1. j \in 1 .. N + 1 /\ w[j] = d
          BY <1>1, <2>3, <4>1, <4>3
        <5> QED
          BY <2>3, <4>1, <5>1, InTaken
      <4>4. CASE j > i
        <5>1. j + 1 \in 1 .. N + 1 /\ w[j + 1] = d
          BY <1>1, <2>3, <4>1, <4>4
        <5> QED
          BY <2>3, <4>1, <5>1, InTaken
      <4> QED
        BY <1>1, <4>2, <4>3, <4>4
    <3>3. taken \in TakenIn(w)
      <4>1. i \in 1 .. N + 1
        BY <1>1
      <4> QED
        BY <2>3, <2>6, <4>1, InTaken
    <3> QED
      BY <3>1, <3>2, <3>3
  <2> QED
    BY <1>2, <2>5, <2>6, <2>10, <2>11 DEF w, a
<1>7. CASE ~(bs[i].size >= a + Header + Slack)
  <2> DEFINE c == [bs[i] EXCEPT !.free = FALSE]
  <2>1. c \in MemBlock /\ c.at = bs[i].at /\ c.size = bs[i].size /\ ~c.free
    BY <1>1 DEF MemBlock
  <2>2. w = [bs EXCEPT ![i] = c]
    BY <1>7 DEF Take, a
  <2> HIDE DEF w, c
  <2>3. /\ w \in Seq(MemBlock) /\ Len(w) = N
        /\ \A j \in 1 .. N : w[j] = IF j = i THEN c ELSE bs[j]
    BY <1>1, <2>1, <2>2, ExceptSeq
  <2>4. \A j \in 1 .. N : End(w[j]) = End(bs[j]) /\ w[j].at = bs[j].at
    BY <2>1, <2>3 DEF End
  <2> HIDE DEF N
  <2>5. w[1].at = 0 /\ End(w[N]) = e
    BY <1>1, <1>4, <2>4
  <2>6. ASSUME NEW j \in 1 .. N - 1
        PROVE  End(w[j]) = w[j + 1].at /\ ~(w[j].free /\ w[j + 1].free)
    <3>1. j \in 1 .. N /\ j + 1 \in 1 .. N
      BY <1>1
    <3>2. End(w[j]) = w[j + 1].at
      BY <1>4, <2>4, <3>1
    <3>3. w[j].free => bs[j].free /\ j # i
      BY <2>1, <2>3, <3>1
    <3>4. w[j + 1].free => bs[j + 1].free
      BY <2>1, <2>3, <3>1
    <3> QED
      BY <1>4, <3>2, <3>3, <3>4
  <2>7. Sound(w, e) /\ Apart(w)
    BY <1>1, <1>4, <2>3, <2>4, <2>5, <2>6 DEF Sound, Chain, Aligned, Apart
  <2>8. TakenIn(w) = TakenIn(bs) \cup {c}
    <3>1. ASSUME NEW d \in TakenIn(w)
          PROVE  d \in TakenIn(bs) \/ d = c
      BY <1>1, <2>3, InTaken DEF N
    <3>2. ASSUME NEW d \in TakenIn(bs)
          PROVE  d \in TakenIn(w)
      <4>1. PICK j \in 1 .. N : d = bs[j] /\ ~d.free
        BY <1>1, InTaken DEF N
      <4>2. d = w[j]
        BY <1>3, <2>3, <4>1
      <4> QED
        BY <2>3, <4>1, <4>2, InTaken
    <3>3. c \in TakenIn(w)
      BY <1>1, <2>1, <2>3, InTaken
    <3> QED
      BY <3>1, <3>2, <3>3
  <2>9. c.size >= a
    BY <1>3, <2>1
  <2> QED
    BY <1>7, <2>1, <2>7, <2>8, <2>9 DEF w, a
<1> QED
  BY <1>6, <1>7

\* The blocks of a chain lie one behind the other, inside 0 .. e - 1 ...
LEMMA ChainOrder ==
  ASSUME NEW e \in Nat, NEW bs, Chain(bs, e)
  PROVE  /\ \A i, j \in 1 .. Len(bs) : i < j => End(bs[i]) <= bs[j].at
         /\ \A i \in 1 .. Len(bs) : End(bs[i]) <= e
<1> DEFINE N == Len(bs)
<1>1. /\ bs \in Seq(MemBlock) /\ N \in Nat
      /\ \A i \in 1 .. N : bs[i].at \in Nat /\ bs[i].size \in Nat /\ End(bs[i]) \in Nat
  BY ListFacts DEF Chain
<1>2. \A i \in 1 .. N : End(bs[i]) >= bs[i].at
  BY <1>1, HeapAssumption DEF End
<1>3. \A i \in 1 .. N - 1 : End(bs[i]) = bs[i + 1].at
  BY DEF Chain
<1>4. N # 0 => End(bs[N]) = e
  BY <1>1 DEF Chain
<1> HIDE DEF N
<1>5. ASSUME NEW i \in 1 .. N, NEW j \in 1 .. N, i < j
      PROVE  End(bs[i]) <= bs[j].at
  <2> DEFINE m == N - i - 1
             P == {k \in 0 .. m : End(bs[i]) <= bs[i + 1 + k].at}
  <2>1. m \in Nat /\ i \in 1 .. N - 1 /\ i + 1 + 0 = i + 1
    BY <1>1, <1>5
  <2>2. 0 \in P
    <3>1. i + 1 \in 1 .. N
      BY <1>1, <2>1
    <3> QED
      BY SMTT(30), <1>1, <1>3, <2>1, <3>1
  <2>3. ASSUME NEW k \in 0 .. m - 1, k \in P
        PROVE  k + 1 \in P
    <3>1. /\ i + 1 + k \in 1 .. N - 1 /\ i + 1 + (k + 1) = (i + 1 + k) + 1
          /\ k + 1 \in 0 .. m /\ i + 1 + k \in 1 .. N /\ (i + 1 + k) + 1 \in 1 .. N
      BY <1>1, <2>1
    <3> DEFINE q == i + 1 + k
    <3>2. End(bs[i]) <= bs[q].at
      BY <2>3
    <3> HIDE DEF m, q
    <3>3. End(bs[q]) = bs[q + 1].at /\ End(bs[q]) >= bs[q].at
      BY <1>2, <1>3, <3>1 DEF q
    <3>4. End(bs[i]) \in Nat /\ bs[q].at \in Nat /\ bs[q + 1].at \in Nat
      BY <1>1, <3>1 DEF q
    <3>5. End(bs[i]) <= bs[q + 1].at
      BY <3>2, <3>3, <3>4
    <3> QED
      BY <3>1, <3>5 DEF q
  <2> HIDE DEF P, m
  <2>4. 0 .. m \subseteq P
    BY <2>1, <2>2, <2>3, UpTo
  <2>5. j - i - 1 \in 0 .. m /\ i + 1 + (j - i - 1) = j
    BY <1>1, <1>5 DEF m
  <2> QED
    BY <2>4, <2>5 DEF P
<1>6. ASSUME NEW i \in 1 .. N
      PROVE  End(bs[i]) <= e
  <2>1. N \in 1 .. N /\ (i = N \/ i < N)
    BY <1>1
  <2>2. End(bs[i]) \in Nat /\ bs[N].at \in Nat /\ End(bs[N]) >= bs[N].at /\ End(bs[N]) = e
    BY <1>1, <1>2, <1>4, <2>1
  <2>3. i < N => End(bs[i]) <= bs[N].at
    BY <1>5, <2>1
  <2> QED
    BY <2>1, <2>2, <2>3
<1> QED
  BY <1>5, <1>6 DEF N

\* ... and leave no byte out.
LEMMA ChainCovers ==
  ASSUME NEW e \in Nat, NEW bs, Chain(bs, e), NEW x \in Nat, x < e
  PROVE  \E i \in 1 .. Len(bs) : bs[i].at <= x /\ x < End(bs[i])
<1> DEFINE N == Len(bs)
           In == \E i \in 1 .. N : bs[i].at <= x /\ x < End(bs[i])
           P == {k \in 0 .. N : k # 0 /\ x < End(bs[k]) => In}
<1>1. /\ bs \in Seq(MemBlock) /\ N \in Nat
      /\ \A i \in 1 .. N : bs[i].at \in Nat /\ End(bs[i]) \in Nat
  BY ListFacts DEF Chain
<1>2. /\ \A i \in 1 .. N - 1 : End(bs[i]) = bs[i + 1].at
      /\ N # 0 /\ End(bs[N]) = e /\ bs[1].at = 0
  BY <1>1 DEF Chain
<1> HIDE DEF N
<1>3. 0 \in P
  BY <1>1
<1>4. ASSUME NEW k \in 0 .. N - 1, k \in P
      PROVE  k + 1 \in P
  <2>1. k + 1 \in 1 .. N /\ k + 1 \in 0 .. N
    BY <1>1
  <2>2. ASSUME x < End(bs[k + 1])
        PROVE  In
    <3>1. CASE k = 0
      BY <1>2, <2>1, <2>2, <3>1
    <3>2. CASE k # 0 /\ x < End(bs[k])
      BY <1>4, <3>2
    <3>3. CASE k # 0 /\ ~(x < End(bs[k]))
      <4>1. bs[k + 1].at <= x
        BY <1>1, <1>2, <2>1, <3>3
      <4> QED
        BY <2>1, <2>2, <4>1
    <3> QED
      BY <3>1, <3>2, <3>3
  <2> HIDE DEF In
  <2> QED
    BY <2>1, <2>2
<1>5. N \in P
  <2> HIDE DEF P
  <2>1. 0 .. N \subseteq P
    BY <1>1, <1>3, <1>4, UpTo
  <2> QED
    BY <1>1, <2>1
<1> QED
  BY <1>2, <1>5 DEF N

\* No two blocks of a chain have the same payload.
LEMMA PayloadsDiffer ==
  ASSUME NEW e \in Nat, NEW bs, Chain(bs, e),
         NEW i \in 1 .. Len(bs), NEW j \in 1 .. Len(bs), Payload(bs[i]) = Payload(bs[j])
  PROVE  i = j
<1>1. /\ bs \in Seq(MemBlock) /\ Len(bs) \in Nat /\ Header \in Nat \ {0}
      /\ \A k \in 1 .. Len(bs) : bs[k].at \in Nat /\ bs[k].size \in Nat /\ End(bs[k]) \in Nat
  BY ListFacts, HeapAssumption DEF Chain
<1>2. bs[i].at = bs[j].at
  BY <1>1 DEF Payload
<1>3. End(bs[i]) > bs[i].at /\ End(bs[j]) > bs[j].at
  BY SMTT(30), <1>1 DEF End
<1>4. (i < j => End(bs[i]) <= bs[j].at) /\ (j < i => End(bs[j]) <= bs[i].at)
  BY ChainOrder
<1> QED
  BY <1>1, <1>2, <1>3, <1>4

\* If any block fits, there is a first one.
LEMMA SomeFirst ==
  ASSUME NEW bs \in Seq(MemBlock), NEW n, \E i \in 1 .. Len(bs) : Fits(bs, n, i)
  PROVE  \E i \in 1 .. Len(bs) : FirstFit(bs, n, i)
<1> DEFINE T == {i \in 1 .. Len(bs) : Fits(bs, n, i)}
<1>1. T \subseteq Nat /\ T # {}
  OBVIOUS
<1>2. PICK m \in T : \A k \in T : m <= k
  <2> HIDE DEF T
  <2> QED
    BY <1>1, LeastOf
<1>3. \A j \in 1 .. m - 1 : j \in 1 .. Len(bs) /\ ~(m <= j)
  OBVIOUS
<1> QED
  BY <1>2, <1>3 DEF FirstFit

\* kmalloc marks one more block, one that nobody held, or it answers nullptr
\* and leaves the list as it was.
LEMMA KmallocSound ==
  ASSUME NEW e \in Nat, NEW bs, Sound(bs, e), Apart(bs), NEW n \in Nat
  PROVE  \/ /\ Kmalloc(bs, n) = [ptr |-> Null, blocks |-> bs]
            /\ n = 0 \/ \A i \in 1 .. Len(bs) : ~Fits(bs, n, i)
         \/ \E b \in MemBlock, w \in Seq(MemBlock) :
              /\ Kmalloc(bs, n) = [ptr |-> Payload(b), blocks |-> w]
              /\ n # 0 /\ ~b.free /\ b.size >= n /\ b.size >= AlignUp(n) /\ b.at <= e
              /\ Sound(w, e) /\ Apart(w) /\ TakenIn(w) = TakenIn(bs) \cup {b}
              /\ \A d \in TakenIn(bs) : Payload(d) # Payload(b)
<1>1. bs \in Seq(MemBlock) /\ Chain(bs, e)
  BY DEF Sound, Chain
<1>2. CASE ~(n # 0 /\ \E i \in 1 .. Len(bs) : Fits(bs, n, i))
  BY <1>2 DEF Kmalloc
<1>3. CASE n # 0 /\ \E i \in 1 .. Len(bs) : Fits(bs, n, i)
  <2> DEFINE i == CHOOSE k \in 1 .. Len(bs) : FirstFit(bs, n, k)
             w == Take(bs, n, i)
  <2>1. i \in 1 .. Len(bs) /\ FirstFit(bs, n, i)
    BY <1>1, <1>3, SomeFirst
  <2>2. Kmalloc(bs, n) = [ptr |-> Payload(bs[i]), blocks |-> w]
    BY <1>3 DEF Kmalloc
  <2> HIDE DEF i
  <2>3. Fits(bs, n, i)
    BY <2>1 DEF FirstFit
  <2>4. PICK b \in MemBlock : /\ b.at = bs[i].at /\ b.size >= AlignUp(n) /\ ~b.free
                              /\ TakenIn(w) = TakenIn(bs) \cup {b}
    BY <2>1, <2>3, TakeSound
  <2>5. Sound(w, e) /\ Apart(w)
    BY <2>1, <2>3, TakeSound
  <2>6. Payload(b) = Payload(bs[i])
    BY <2>4 DEF Payload
  <2>7. ASSUME NEW d \in TakenIn(bs)
        PROVE  Payload(d) # Payload(bs[i])
    <3>1. PICK j \in 1 .. Len(bs) : d = bs[j] /\ ~d.free
      BY <1>1, InTaken
    <3>2. j # i
      BY <2>3, <3>1 DEF Fits
    <3> QED
      BY <1>1, <2>1, <3>1, <3>2, PayloadsDiffer
  <2>8. bs[i].at <= e
    <3>1. /\ bs[i].at \in Nat /\ bs[i].size \in Nat /\ Header \in Nat
          /\ End(bs[i]) = bs[i].at + Header + bs[i].size
      BY <1>1, <2>1, ListFacts, HeapAssumption DEF End
    <3>2. End(bs[i]) <= e
      BY <1>1, <2>1, ChainOrder
    <3> QED
      BY <3>1, <3>2
  <2> HIDE DEF w
  <2>9. w \in Seq(MemBlock)
    BY <2>5 DEF Sound, Chain
  <2>10. b.size >= n
    <3>1. AlignUp(n) \in Nat /\ AlignUp(n) >= n /\ b.size \in Nat
      BY <2>4, AlignUpFacts DEF MemBlock
    <3> QED
      BY <2>4, <3>1
  <2> QED
    BY <1>3, <2>2, <2>4, <2>5, <2>6, <2>7, <2>8, <2>9, <2>10
<1> QED
  BY <1>2, <1>3

\* A taken block lies inside the arena behind its header.
LEMMA TakenInside ==
  ASSUME NEW e \in Nat, NEW bs, Chain(bs, e), NEW b \in TakenIn(bs)
  PROVE  /\ b \in MemBlock /\ ~b.free
         /\ Payload(b) \in Nat \ {0} /\ Payload(b) + b.size <= e
<1>1. bs \in Seq(MemBlock)
  BY DEF Chain
<1>2. PICK i \in 1 .. Len(bs) : b = bs[i] /\ ~b.free
  BY <1>1, InTaken
<1>3. b \in MemBlock /\ b.at \in Nat /\ b.size \in Nat
  BY <1>1, <1>2, ListFacts
<1>4. b.at + Header + b.size <= e
  BY <1>2, ChainOrder DEF End
<1> QED
  BY <1>2, <1>3, <1>4, HeapAssumption DEF Payload

\* kmalloc keeps what holds between two calls.
LEMMA MallocKeeps ==
  ASSUME NEW bs, NEW L, Good(bs, L), NEW n \in Nat
  PROVE  LET got == Kmalloc(bs, n)
         IN  got.ptr \in 0 .. Arena /\ Good(got.blocks, L \cup Held(got.ptr, n))
<1> DEFINE got == Kmalloc(bs, n)
<1>1. /\ Arena \in Nat /\ Sound(bs, Arena) /\ Apart(bs) /\ Chain(bs, Arena)
      /\ L \subseteq [ptr : Nat \ {0}, size : Nat \ {0}] /\ Agree(TakenIn(bs), L)
  BY HeapAssumption DEF Good, Sound
<1>2. CASE got = [ptr |-> Null, blocks |-> bs]
  <2>1. got.ptr = 0 /\ got.blocks = bs /\ L \cup Held(got.ptr, n) = L
    BY <1>2 DEF Null, Held
  <2> QED
    BY <1>1, <2>1
<1>3. CASE ~(got = [ptr |-> Null, blocks |-> bs])
  <2>1. PICK b \in MemBlock, w \in Seq(MemBlock) :
          /\ got = [ptr |-> Payload(b), blocks |-> w]
          /\ n # 0 /\ ~b.free /\ b.size >= n /\ b.at <= Arena
          /\ Sound(w, Arena) /\ Apart(w) /\ TakenIn(w) = TakenIn(bs) \cup {b}
          /\ \A d \in TakenIn(bs) : Payload(d) # Payload(b)
    BY <1>1, <1>3, KmallocSound
  <2>2. got.ptr = Payload(b) /\ got.blocks = w
    BY <2>1
  <2>3. Payload(b) \in Nat \ {0} /\ Payload(b) + b.size <= Arena /\ b.size \in Nat
    BY <1>1, <2>1, TakenInside DEF Sound, MemBlock
  <2> DEFINE a == [ptr |-> Payload(b), size |-> n]
  <2>4. Held(got.ptr, n) = {a} /\ a \in [ptr : Nat \ {0}, size : Nat \ {0}]
    BY <2>1, <2>2, <2>3 DEF Held, Null
  <2>5. a.ptr = Payload(b) /\ a.size = n
    OBVIOUS
  <2> HIDE DEF a, got
  <2>6. \A x \in L : x.ptr # Payload(b)
    BY <1>1, <2>1 DEF Agree
  <2>7. Agree(TakenIn(w), L \cup {a})
    <3>1. \A d \in TakenIn(w) : \E x \in L \cup {a} : Payload(d) = x.ptr
      BY <1>1, <2>1, <2>5 DEF Agree
    <3>2. \A x \in L \cup {a} : \E d \in TakenIn(w) : Payload(d) = x.ptr /\ d.size >= x.size
      BY <1>1, <2>1, <2>5 DEF Agree
    <3>3. \A x, y \in L \cup {a} : x.ptr = y.ptr => x = y
      BY <1>1, <2>5, <2>6 DEF Agree
    <3> QED
      BY <3>1, <3>2, <3>3 DEF Agree
  <2>8. got.ptr \in 0 .. Arena
    BY <1>1, <2>2, <2>3
  <2> QED
    BY <1>1, <2>1, <2>2, <2>4, <2>7, <2>8 DEF Good, got
<1> QED
  BY <1>2, <1>3

\* So does kfree.
LEMMA FreeKeeps ==
  ASSUME NEW bs, NEW L, Good(bs, L), NEW p \in Nat
  PROVE  Good(Kfree(bs, p), {a \in L : a.ptr # p})
<1>1. /\ Arena \in Nat /\ Sound(bs, Arena) /\ Apart(bs)
      /\ L \subseteq [ptr : Nat \ {0}, size : Nat \ {0}] /\ Agree(TakenIn(bs), L)
  BY HeapAssumption DEF Good
<1> DEFINE w == Kfree(bs, p)
           M == {a \in L : a.ptr # p}
<1>2. /\ Sound(w, Arena) /\ Apart(w)
      /\ TakenIn(w) = {b \in TakenIn(bs) : Payload(b) # p}
  BY <1>1, KfreeSound
<1> HIDE DEF w
<1>3. Agree(TakenIn(w), M)
  <2>1. \A d \in TakenIn(w) : \E x \in M : Payload(d) = x.ptr
    BY <1>1, <1>2 DEF Agree
  <2>2. \A x \in M : \E d \in TakenIn(w) : Payload(d) = x.ptr /\ d.size >= x.size
    BY <1>1, <1>2 DEF Agree
  <2>3. \A x, y \in M : x.ptr = y.ptr => x = y
    BY <1>1 DEF Agree
  <2> HIDE DEF M
  <2> QED
    BY <2>1, <2>2, <2>3 DEF Agree
<1>4. M \subseteq [ptr : Nat \ {0}, size : Nat \ {0}]
  BY <1>1
<1> HIDE DEF M
<1>5. Good(w, M)
  BY <1>2, <1>3, <1>4 DEF Good
<1> QED
  BY <1>5 DEF w, M

-----------------------------------------------------------------------------
\* heap_init lays out one block over the whole arena.
LEMMA InitGood == Init => IInv
<1> SUFFICES ASSUME Init PROVE IInv
  OBVIOUS
<1> DEFINE b == [at |-> 0, size |-> Arena - Header, free |-> TRUE]
<1>1. /\ b \in MemBlock /\ b.at = 0 /\ b.free /\ b.size = Arena - Header
      /\ Arena \in Nat /\ Header \in Nat
  BY HeapAssumption DEF MemBlock
<1>2. blocks = <<b>> /\ live = {} /\ pairs = {} /\ schedOnly = TRUE
  BY DEF Init
<1> HIDE DEF b
<1>3. blocks \in Seq(MemBlock) /\ Len(blocks) = 1 /\ blocks[1] = b /\ blocks # << >>
  BY <1>1, <1>2
<1>4. End(b) = Arena /\ b.at % Align = 0
  BY <1>1 DEF End, Align
<1>5. Sound(blocks, Arena) /\ Apart(blocks)
  BY <1>3, <1>4, <1>1 DEF Sound, Chain, Aligned, Apart
<1>6. TakenIn(blocks) = {}
  BY <1>1, <1>3, InTaken
<1>7. Agree(TakenIn(blocks), live)
  BY <1>2, <1>6 DEF Agree
<1> QED
  BY <1>2, <1>5, <1>7 DEF IInv, Good

LEMMA StepKeeps == IInv /\ [Next]_vars => IInv'
<1> SUFFICES ASSUME IInv, [Next]_vars PROVE IInv'
  OBVIOUS
<1>1. Good(blocks, live) /\ schedOnly \in BOOLEAN
  BY DEF IInv
<1>2. pairs \subseteq [struct : 0 .. Arena, stack : 0 .. Arena]
  BY DEF IInv
<1>3. /\ Arena \in Nat /\ Sizes \subseteq Nat /\ StructSize \in Nat /\ StackSize \in Nat
      /\ live \subseteq [ptr : Nat \ {0}, size : Nat \ {0}]
  BY <1>1, HeapAssumption DEF Good
<1>4. CASE \E n \in Sizes : Malloc(n)
  <2>1. PICK n \in Sizes : Malloc(n)
    BY <1>4
  <2>2. n \in Nat
    BY <1>3
  <2>3. Good(blocks', live')
    BY <1>1, <2>1, <2>2, MallocKeeps DEF Malloc
  <2> QED
    BY <1>2, <2>1, <2>3 DEF Malloc, IInv
<1>5. CASE \E a \in live : Free(a)
  <2>1. PICK a \in live : Free(a)
    BY <1>5
  <2>2. a.ptr \in Nat
    BY <1>3
  <2>3. live \ {a} = {x \in live : x.ptr # a.ptr}
    BY <1>1 DEF Good, Agree
  <2>4. Good(Kfree(blocks, a.ptr), {x \in live : x.ptr # a.ptr})
    BY <1>1, <2>2, FreeKeeps
  <2>5. Good(blocks', live')
    BY <2>1, <2>3, <2>4 DEF Free
  <2> QED
    BY <1>2, <2>1, <2>5 DEF Free, IInv
<1>6. CASE InitBoot
  <2>1. Good(blocks', live')
    <3>1. Good(Kmalloc(blocks, StructSize).blocks,
               live \cup Held(Kmalloc(blocks, StructSize).ptr, StructSize))
      BY <1>1, <1>3, MallocKeeps
    <3> QED
      BY <1>6, <3>1 DEF InitBoot
  <2> QED
    BY <1>1, <1>2, <1>6, <2>1 DEF InitBoot, IInv
<1>7. CASE NewTask
  <2> DEFINE struct == Kmalloc(blocks, StructSize)
             stack  == Kmalloc(struct.blocks, StackSize)
             held   == live \cup Held(struct.ptr, StructSize)
             t      == [struct |-> struct.ptr, stack |-> stack.ptr]
  <2>1. struct.ptr \in 0 .. Arena /\ Good(struct.blocks, held)
    BY <1>1, <1>3, MallocKeeps
  <2>2. stack.ptr \in 0 .. Arena /\ Good(stack.blocks, held \cup Held(stack.ptr, StackSize))
    <3> HIDE DEF struct, held
    <3> QED
      BY <1>3, <2>1, MallocKeeps
  <2>3. /\ blocks' = stack.blocks /\ live' = held \cup Held(stack.ptr, StackSize)
        /\ pairs' = pairs \cup {t} /\ schedOnly' = schedOnly
    BY <1>7 DEF NewTask
  <2>4. t \in [struct : 0 .. Arena, stack : 0 .. Arena]
    BY <2>1, <2>2
  <2> HIDE DEF struct, stack, held, t
  <2> QED
    BY <1>1, <1>2, <2>2, <2>3, <2>4 DEF IInv
<1>8. CASE \E t \in pairs : Reap(t)
  <2>1. PICK t \in pairs : Reap(t)
    BY <1>8
  <2>2. t.stack \in Nat /\ t.struct \in Nat
    BY <1>2, <1>3
  <2> DEFINE bs == Kfree(blocks, t.stack)
             L  == {a \in live : a.ptr # t.stack}
  <2>3. Good(bs, L)
    BY <1>1, <2>2, FreeKeeps
  <2>4. Good(Kfree(bs, t.struct), {a \in L : a.ptr # t.struct})
    <3> HIDE DEF bs, L
    <3> QED
      BY <2>2, <2>3, FreeKeeps
  <2>5. live' = {a \in L : a.ptr # t.struct}
    BY <2>1 DEF Reap
  <2> QED
    BY <1>1, <1>2, <2>1, <2>4, <2>5 DEF Reap, IInv
<1>9. CASE UNCHANGED vars
  BY <1>1, <1>2, <1>9 DEF vars, IInv
<1> QED
  BY <1>4, <1>5, <1>6, <1>7, <1>8, <1>9 DEF Next

\* After every call the list tiles the arena in 8-byte steps with no two free
\* neighbours, and its taken blocks are what the clients hold.
THEOREM Invariant == Spec => []IInv
<1> QED
  BY InitGood, StepKeeps, PTL DEF Spec

\* Every block, pointer and size stays inside the arena.
THEOREM TypeSafe == Spec => []TypeOK
<1>1. IInv => TypeOK
  <2> SUFFICES ASSUME IInv PROVE TypeOK
    OBVIOUS
  <2>1. /\ Good(blocks, live) /\ Chain(blocks, Arena) /\ blocks \in Seq(MemBlock)
        /\ Arena \in Nat /\ Header \in Nat \ {0}
    BY HeapAssumption DEF IInv, Good, Sound, Chain
  <2>2. blocks # << >>
    BY <2>1, HeapAssumption DEF Chain
  <2>3. ASSUME NEW i \in 1 .. Len(blocks)
        PROVE  blocks[i] \in Block
    <3>1. /\ blocks[i] \in MemBlock /\ blocks[i].at \in Nat /\ blocks[i].size \in Nat
      BY <2>1, ListFacts
    <3>2. blocks[i].at + Header + blocks[i].size <= Arena
      BY <2>1, ChainOrder DEF End
    <3>3. blocks[i].at \in 0 .. Arena /\ blocks[i].size \in 0 .. Arena
      BY <2>1, <3>1, <3>2
    <3> QED
      BY <3>1, <3>3 DEF MemBlock, Block
  <2>4. blocks \in Seq(Block)
    BY <2>1, <2>3
  <2>5. ASSUME NEW a \in live
        PROVE  a \in [ptr : 1 .. Arena, size : 1 .. Arena]
    <3>1. a \in [ptr : Nat \ {0}, size : Nat \ {0}]
      BY <2>1 DEF Good
    <3>2. PICK b \in TakenIn(blocks) : Payload(b) = a.ptr /\ b.size >= a.size
      BY <2>1 DEF Good, Agree
    <3>3. b \in MemBlock /\ Payload(b) + b.size <= Arena
      BY <2>1, TakenInside
    <3>4. a.ptr \in 1 .. Arena /\ a.size \in 1 .. Arena
      BY <2>1, <3>1, <3>2, <3>3 DEF MemBlock
    <3> QED
      BY <3>1, <3>4
  <2> QED
    BY <2>2, <2>4, <2>5 DEF TypeOK, IInv
<1> QED
  BY Invariant, <1>1, PTL

\* List order is physical order, and an allocation has a block of its own that
\* is large enough: the list never loses, doubles or overlaps a byte.
THEOREM ListAlwaysSound == Spec => []ListSound
<1>1. IInv => ListSound
  <2> SUFFICES ASSUME IInv PROVE ListSound
    OBVIOUS
  <2>1. /\ Chain(blocks, Arena) /\ blocks \in Seq(MemBlock) /\ Arena \in Nat
        /\ Header \in Nat \ {0} /\ Agree(TakenIn(blocks), live) /\ Aligned(blocks)
    BY HeapAssumption DEF IInv, Good, Sound, Chain
  <2>2. blocks # << >>
    BY <2>1, HeapAssumption DEF Chain
  <2>3. Tiling
    BY <2>1, <2>2 DEF Tiling, Chain, Last
  <2>4. TakenIn(blocks) = {c \in Range(blocks) : ~c.free}
    BY DEF TakenIn
  <2>5. \A a, b \in live : a.ptr = b.ptr => a = b
    BY <2>1 DEF Agree
  <2>6. {Payload(b) : b \in TakenIn(blocks)} = {a.ptr : a \in live}
    BY <2>1 DEF Agree
  <2>7. ASSUME NEW a \in live
        PROVE  \E b \in Range(blocks) : Payload(b) = a.ptr /\ b.size >= a.size /\ a.ptr % Align = 0
    <3>1. PICK b \in TakenIn(blocks) : Payload(b) = a.ptr /\ b.size >= a.size
      BY <2>1 DEF Agree
    <3>2. PICK i \in 1 .. Len(blocks) : b = blocks[i]
      BY <2>1, InTaken
    <3>3. b.at \in Nat /\ b.at % Align = 0
      BY <2>1, <3>2, ListFacts DEF Aligned
    <3>4. (b.at + Header + 0) % Align = 0
      <4>1. Header % Align = 0 /\ 0 % Align = 0
        BY HeapAssumption DEF Align
      <4> QED
        BY <2>1, <3>3, <4>1, SumOfMultiples
    <3>5. a.ptr % Align = 0
      BY <2>1, <3>1, <3>3, <3>4 DEF Payload
    <3> QED
      BY <2>4, <3>1, <3>5
  <2> QED
    BY <2>3, <2>4, <2>5, <2>6, <2>7 DEF ListSound, LiveIsTaken
<1> QED
  BY Invariant, <1>1, PTL

\* kmalloc answers nullptr only when no gap between taken blocks would hold the
\* request: the free block over the gap's start is too small, so it ends inside
\* the gap, and what lies behind it is taken.
THEOREM NoMemoryInPieces == Spec => []FailsOnlyWhenFull
<1>1. IInv => FailsOnlyWhenFull
  <2> SUFFICES ASSUME IInv, NEW n \in Sizes \cup {StructSize, StackSize},
                      Kmalloc(blocks, n).ptr = Null, n # 0,
                      NEW at \in 0 .. Arena - Header - AlignUp(n),
                      \A b \in Range(blocks) :
                        ~b.free => End(b) <= at \/ b.at >= at + Header + AlignUp(n)
               PROVE  FALSE
    BY DEF FailsOnlyWhenFull
  <2> DEFINE N == Len(blocks)
             a == AlignUp(n)
  <2>1. /\ Sound(blocks, Arena) /\ Chain(blocks, Arena) /\ Apart(blocks)
        /\ blocks \in Seq(MemBlock) /\ Arena \in Nat /\ Header \in Nat \ {0} /\ N \in Nat
    BY HeapAssumption DEF IInv, Good, Sound, Chain
  <2>2. n \in Nat
    BY HeapAssumption
  <2>3. a \in Nat
    BY <2>2, AlignUpFacts
  <2> HIDE DEF a
  <2>4. \A i \in 1 .. N : ~Fits(blocks, n, i)
    <3>1. CASE Kmalloc(blocks, n) = [ptr |-> Null, blocks |-> blocks]
      BY <2>1, <2>2, <3>1, KmallocSound
    <3>2. CASE ~(Kmalloc(blocks, n) = [ptr |-> Null, blocks |-> blocks])
      <4>1. PICK b \in MemBlock, w \in Seq(MemBlock) : Kmalloc(blocks, n) = [ptr |-> Payload(b), blocks |-> w]
        BY <2>1, <2>2, <3>2, KmallocSound
      <4>2. Kmalloc(blocks, n).ptr # 0
        BY <2>1, <4>1 DEF Payload, MemBlock
      <4> QED
        BY <4>2 DEF Null
    <3> QED
      BY <3>1, <3>2
  <2>5. at \in Nat /\ at + Header + a <= Arena /\ at < Arena
    BY <2>1, <2>3 DEF a
  <2>6. PICK i \in 1 .. N : blocks[i].at <= at /\ at < End(blocks[i])
    BY <2>1, <2>5, ChainCovers
  <2>7. \A j \in 1 .. N : /\ blocks[j].at \in Nat /\ blocks[j].size \in Nat
                          /\ blocks[j].free \in BOOLEAN /\ End(blocks[j]) \in Nat
                          /\ blocks[j] \in Range(blocks)
    BY <2>1, ListFacts
  <2>8. ASSUME NEW j \in 1 .. N, ~blocks[j].free
        PROVE  End(blocks[j]) <= at \/ blocks[j].at >= at + Header + a
    BY <2>7, <2>8 DEF a
  <2>9. blocks[i].free
    BY SMTT(30), <2>1, <2>3, <2>5, <2>6, <2>7, <2>8
  <2>10. End(blocks[i]) < at + Header + a
    <3>1. blocks[i].size < a
      BY <2>3, <2>4, <2>7, <2>9 DEF Fits, a
    <3> QED
      BY <2>1, <2>3, <2>5, <2>6, <2>7, <3>1 DEF End
  <2>11. i # N
    <3>1. i = N => End(blocks[i]) = Arena
      BY <2>1 DEF Chain
    <3> QED
      BY <2>1, <2>3, <2>5, <2>7, <2>10, <3>1
  <2>12. /\ i \in 1 .. N - 1 /\ i + 1 \in 1 .. N
         /\ blocks[i + 1].at = End(blocks[i]) /\ ~blocks[i + 1].free
    BY <2>1, <2>9, <2>11 DEF Chain, Apart
  <2>13. End(blocks[i + 1]) > blocks[i + 1].at
    BY SMTT(30), <2>1, <2>7, <2>12 DEF End
  <2>14. End(blocks[i + 1]) \in Nat /\ blocks[i + 1].at \in Nat /\ End(blocks[i]) \in Nat
    BY <2>7, <2>12
  <2>15. End(blocks[i + 1]) <= at \/ blocks[i + 1].at >= at + Header + a
    BY <2>8, <2>12
  <2> QED
    BY <2>1, <2>3, <2>5, <2>6, <2>10, <2>12, <2>13, <2>14, <2>15
<1> QED
  BY Invariant, <1>1, PTL

\* What clients hold does not overlap and lies inside the arena.
LEMMA GoodDisjoint ==
  ASSUME NEW bs, NEW L, Good(bs, L)
  PROVE  /\ Abstract!Disjoint(L)
         /\ \A a \in L : Abstract!Bytes(a) \subseteq 0 .. Arena - 1
<1>1. /\ Chain(bs, Arena) /\ bs \in Seq(MemBlock) /\ Arena \in Nat /\ Header \in Nat \ {0}
      /\ L \subseteq [ptr : Nat \ {0}, size : Nat \ {0}] /\ Agree(TakenIn(bs), L)
  BY HeapAssumption DEF Good, Sound, Chain
<1>2. ASSUME NEW a \in L
      PROVE  /\ a.ptr \in Nat \ {0} /\ a.size \in Nat \ {0}
             /\ \E i \in 1 .. Len(bs) : /\ a.ptr = bs[i].at + Header
                                        /\ a.ptr + a.size <= End(bs[i])
                                        /\ End(bs[i]) <= Arena
                                        /\ End(bs[i]) \in Nat /\ bs[i].at \in Nat
  <2>1. a.ptr \in Nat \ {0} /\ a.size \in Nat \ {0}
    BY <1>1
  <2>2. PICK b \in TakenIn(bs) : Payload(b) = a.ptr /\ b.size >= a.size
    BY <1>1 DEF Agree
  <2>3. PICK i \in 1 .. Len(bs) : b = bs[i]
    BY <1>1, InTaken
  <2>4. /\ bs[i].at \in Nat /\ bs[i].size \in Nat /\ End(bs[i]) \in Nat
        /\ End(bs[i]) = bs[i].at + Header + bs[i].size /\ End(bs[i]) <= Arena
    BY <1>1, ListFacts, ChainOrder DEF End
  <2>5. a.ptr = bs[i].at + Header /\ bs[i].size >= a.size
    BY <2>2, <2>3 DEF Payload
  <2>6. a.ptr + a.size <= End(bs[i])
    BY <1>1, <2>1, <2>4, <2>5
  <2> QED
    BY <2>1, <2>4, <2>5, <2>6
<1>3. ASSUME NEW a \in L, NEW b \in L, a # b
      PROVE  Abstract!Bytes(a) \cap Abstract!Bytes(b) = {}
  <2>1. PICK i \in 1 .. Len(bs) : /\ a.ptr = bs[i].at + Header
                                  /\ a.ptr + a.size <= End(bs[i])
                                  /\ End(bs[i]) \in Nat /\ bs[i].at \in Nat
    BY <1>2
  <2>2. PICK j \in 1 .. Len(bs) : /\ b.ptr = bs[j].at + Header
                                  /\ b.ptr + b.size <= End(bs[j])
                                  /\ End(bs[j]) \in Nat /\ bs[j].at \in Nat
    BY <1>2
  <2>3. i # j
    BY <1>1, <1>3, <2>1, <2>2 DEF Agree
  <2>4. (i < j => End(bs[i]) <= bs[j].at) /\ (j < i => End(bs[j]) <= bs[i].at)
    BY <1>1, ChainOrder
  <2>5. /\ a.ptr \in Nat /\ a.size \in Nat /\ b.ptr \in Nat /\ b.size \in Nat
    BY <1>2
  <2>6. i < j \/ j < i
    BY <2>3, <1>1
  <2>7. a.ptr + a.size <= b.ptr \/ b.ptr + b.size <= a.ptr
    <3>1. Header \in Nat
      BY <1>1
    <3>2. CASE i < j
      <4>1. End(bs[i]) <= bs[j].at
        BY <2>4, <3>2
      <4> QED
        BY SMTT(30), <2>1, <2>2, <2>5, <3>1, <4>1
    <3>3. CASE j < i
      <4>1. End(bs[j]) <= bs[i].at
        BY <2>4, <3>3
      <4> QED
        BY SMTT(30), <2>1, <2>2, <2>5, <3>1, <4>1
    <3> QED
      BY <2>6, <3>2, <3>3
  <2> QED
    BY SMTT(30), <2>5, <2>7 DEF Abstract!Bytes
<1>4. ASSUME NEW a \in L
      PROVE  Abstract!Bytes(a) \subseteq 0 .. Arena - 1
  <2>1. a.ptr \in Nat \ {0} /\ a.size \in Nat \ {0} /\ a.ptr + a.size <= Arena
    BY <1>1, <1>2
  <2> QED
    BY <1>1, <2>1 DEF Abstract!Bytes
<1> QED
  BY <1>3, <1>4 DEF Abstract!Disjoint

\* The heap keeps an allocator's promise: a step that hands out memory hands out
\* bytes of the arena that nobody has, and only a kfree takes memory back.
THEOREM KeepsPromise == Spec => ImplementsAllocator
<1>1. Init => live = {}
  BY DEF Init
<1>2. IInv' /\ [Next]_vars => [Abstract!Grant \/ Abstract!Return]_live
  <2> SUFFICES ASSUME IInv', [Next]_vars
               PROVE  [Abstract!Grant \/ Abstract!Return]_live
    OBVIOUS
  <2>1. live \subseteq live' => Abstract!Grant
    BY GoodDisjoint DEF IInv, Abstract!Grant
  <2>2. live' \subseteq live => Abstract!Return
    BY DEF Abstract!Return
  <2>3. CASE \E n \in Sizes : Malloc(n)
    BY <2>1, <2>3 DEF Malloc
  <2>4. CASE \E a \in live : Free(a)
    BY <2>2, <2>4 DEF Free
  <2>5. CASE InitBoot
    BY <2>1, <2>5 DEF InitBoot
  <2>6. CASE NewTask
    BY <2>1, <2>6 DEF NewTask
  <2>7. CASE \E t \in pairs : Reap(t)
    BY <2>2, <2>7 DEF Reap
  <2>8. CASE UNCHANGED vars
    BY <2>8 DEF vars
  <2> QED
    BY <2>3, <2>4, <2>5, <2>6, <2>7, <2>8 DEF Next
<1> QED
  BY <1>1, <1>2, Invariant, PTL DEF Spec, ImplementsAllocator, Abstract!AllocSpec
-----------------------------------------------------------------------------
(* The scheduler's tasks on their slots.                                    *)

StructBytes == AlignUp(StructSize)
StackBytes  == AlignUp(StackSize)
Slots    == IF PairCount > 0 THEN PairCount ELSE 0
Start(k) == Header + StructBytes + (k - 1) * PairBytes
Mid(k)   == Start(k) + (Header + StructBytes)

\* What the sizes are.
LEMMA SlotSizes ==
  /\ Header \in Nat \ {0} /\ Arena \in Nat
  /\ StructBytes \in Nat \ {0} /\ StackBytes \in Nat \ {0}
  /\ PairBytes \in Nat \ {0} /\ PairBytes = 2 * Header + StructBytes + StackBytes
  /\ Slots \in Nat /\ 1 .. PairCount = 1 .. Slots
<1>1. /\ Header \in Nat \ {0} /\ Arena \in Nat
      /\ StructSize \in Nat \ {0} /\ StackSize \in Nat \ {0}
  BY HeapAssumption
<1>2. StructBytes \in Nat \ {0} /\ StackBytes \in Nat \ {0}
  BY <1>1, AlignUpFacts DEF StructBytes, StackBytes
<1>3. PairBytes \in Nat \ {0} /\ PairBytes = 2 * Header + StructBytes + StackBytes
  BY <1>1, <1>2 DEF PairBytes, StructBytes, StackBytes
<1>4. PairCount \in Int
  <2>1. Arena - Header - StructBytes \in Int
    BY <1>1, <1>2
  <2>2. PairCount = (Arena - Header - StructBytes) \div PairBytes
    BY DEF PairCount, StructBytes
  <2> QED
    BY <1>3, <2>1, <2>2
<1> QED
  BY <1>1, <1>2, <1>3, <1>4 DEF Slots

\* Multiples of a number are in order.
LEMMA Multiples ==
  ASSUME NEW a \in Nat, NEW b \in Nat, NEW p \in Nat, a <= b
  PROVE  /\ a * p \in Nat /\ a * p <= b * p /\ (a + 1) * p = a * p + p
<1>1. b * p = a * p + (b - a) * p /\ (b - a) * p \in Nat /\ a * p \in Nat
  <2>1. b - a \in Nat
    OBVIOUS
  <2> QED
    BY <2>1
<1> QED
  BY <1>1

\* The slots follow each other from the end of the boot task's struct, as many as
\* fit, and what is left behind them is too short for one more.
LEMMA SlotFacts ==
  /\ Start(1) = Header + StructBytes
  /\ \A k \in 1 .. Slots + 1 : Start(k) \in Nat /\ Mid(k) \in Nat /\ Start(1) <= Start(k)
  /\ \A k \in 1 .. Slots : Start(k + 1) = Start(k) + PairBytes /\ Start(k + 1) = Mid(k) + Header + StackBytes
  /\ \A j, k \in 1 .. Slots + 1 : j < k => Start(j) + PairBytes <= Start(k)
  /\ Slots > 0 => Start(Slots + 1) <= Arena
  /\ Arena < Start(Slots + 1) + PairBytes
  /\ \A k \in 1 .. Slots : PairSlot(k) = [struct |-> Start(k) + Header, stack |-> Mid(k) + Header]
<1>1. /\ Header \in Nat \ {0} /\ Arena \in Nat
      /\ StructBytes \in Nat \ {0} /\ StackBytes \in Nat \ {0}
      /\ PairBytes \in Nat \ {0} /\ PairBytes = 2 * Header + StructBytes + StackBytes
      /\ Slots \in Nat /\ 1 .. PairCount = 1 .. Slots
  BY SlotSizes
<1> DEFINE p == PairBytes
           base == Header + StructBytes
<1>2. ASSUME NEW j \in Nat, NEW k \in Nat, j <= k
      PROVE  j * p \in Nat /\ j * p <= k * p /\ (j + 1) * p = j * p + p
  BY <1>1, <1>2, Multiples
<1>3. \A k : Start(k) = base + (k - 1) * p /\ Mid(k) = Start(k) + base
  BY DEF Start, Mid
<1>4. base \in Nat /\ p \in Nat /\ p = base + Header + StackBytes
  BY <1>1
<1>5. Start(1) = base
  <2>1. (1 - 1) * p = 0
    BY <1>4
  <2> QED
    BY <1>3, <1>4, <2>1
<1>6. ASSUME NEW k \in 1 .. Slots + 1
      PROVE  Start(k) \in Nat /\ Mid(k) \in Nat /\ base <= Start(k) /\ Start(k + 1) = Start(k) + p
  <2>1. k - 1 \in Nat /\ (k + 1) - 1 = (k - 1) + 1
    BY <1>1
  <2>2. (k - 1) * p \in Nat /\ ((k - 1) + 1) * p = (k - 1) * p + p
    BY <1>2, <2>1
  <2>3. Start(k + 1) = base + ((k - 1) + 1) * p
    BY <1>3, <2>1
  <2> HIDE DEF p, base
  <2> QED
    BY <1>3, <1>4, <2>2, <2>3
<1>7. ASSUME NEW j \in 1 .. Slots + 1, NEW k \in 1 .. Slots + 1, j < k
      PROVE  Start(j) + p <= Start(k)
  <2>1. j \in Nat /\ k - 1 \in Nat /\ j <= k - 1 /\ (j + 1) - 1 = j
    BY <1>1, <1>7
  <2>2. j * p <= (k - 1) * p /\ j * p \in Nat /\ (k - 1) * p \in Nat
    BY <1>2, <2>1
  <2>3. Start(j) + p = base + j * p
    BY <1>3, <1>6, <2>1
  <2>4. Start(k) = base + (k - 1) * p
    BY <1>3
  <2> HIDE DEF p, base
  <2> QED
    BY <1>4, <2>2, <2>3, <2>4
<1>8. (Slots > 0 => Start(Slots + 1) <= Arena) /\ Arena < Start(Slots + 1) + p
  <2> DEFINE room == Arena - base
             q == PairCount
  <2>1. room \in Int /\ q = room \div p
    BY <1>1 DEF PairCount, StructBytes
  <2>2. q \in Int /\ q * p <= room /\ room < q * p + p
    <3> HIDE DEF room, q, p
    <3> QED
      BY <1>1, <2>1 DEF p
  <2>3. Start(Slots + 1) = base + Slots * p
    <3>1. (Slots + 1) - 1 = Slots
      BY <1>1
    <3> QED
      BY <1>3, <3>1
  <2>4. CASE q > 0
    <3>1. Slots = q
      BY <2>4 DEF Slots
    <3>2. q * p \in Nat
      BY <1>1, <1>2, <3>1
    <3> HIDE DEF p, q, base
    <3> QED
      BY <1>1, <1>4, <2>2, <2>3, <3>1, <3>2
  <2>5. CASE ~(q > 0)
    <3>1. Slots = 0 /\ Slots * p = 0
      BY <1>1, <2>5 DEF Slots
    <3>2. q * p + p <= p
      <4>1. -q \in Nat /\ (-q) * p \in Nat /\ q * p = -((-q) * p)
        BY <1>1, <2>2, <2>5
      <4> QED
        BY <1>1, <4>1
    <3> HIDE DEF p, q, base
    <3> QED
      BY <1>1, <1>4, <2>2, <2>3, <3>1, <3>2 DEF room
  <2> QED
    BY <2>4, <2>5
<1>9. ASSUME NEW k \in 1 .. Slots
      PROVE  PairSlot(k) = [struct |-> Start(k) + Header, stack |-> Mid(k) + Header]
  <2>1. (k - 1) * p \in Nat
    BY <1>1, <1>2
  <2>2. PairBase = base + Header
    BY <1>1 DEF PairBase, StructBytes
  <2>3. PairSlot(k) = [struct |-> PairBase + (k - 1) * p, stack |-> PairBase + (k - 1) * p + StructBytes + Header]
    BY DEF PairSlot, StructBytes
  <2> HIDE DEF p
  <2>4. PairBase + (k - 1) * p = Start(k) + Header
    BY <1>1, <1>3, <2>1, <2>2
  <2>5. PairBase + (k - 1) * p + StructBytes + Header = Mid(k) + Header
    BY <1>1, <1>3, <2>1, <2>2
  <2> QED
    BY <2>3, <2>4, <2>5
<1>10. \A k \in 1 .. Slots : k \in 1 .. Slots + 1
  BY <1>1
<1>11. \A k \in 1 .. Slots : Start(k + 1) = Mid(k) + Header + StackBytes
  <2> SUFFICES ASSUME NEW k \in 1 .. Slots
               PROVE  Start(k + 1) = Mid(k) + Header + StackBytes
    OBVIOUS
  <2>1. Start(k) \in Nat /\ Start(k + 1) = Start(k) + p /\ Mid(k) = Start(k) + base
    BY <1>3, <1>6, <1>10
  <2> HIDE DEF p, base
  <2> QED
    BY <1>1, <1>4, <2>1
<1> QED
  BY <1>5, <1>6, <1>7, <1>8, <1>9, <1>10, <1>11

\* Every byte below x belongs to one of the blocks T.
Covered(T, x) == \A z \in Nat : z < x => \E b \in T : b.at <= z /\ z < End(b)

\* No block of T reaches into the bytes from x to y - 1.
Gap(T, x, y) == \A b \in T : End(b) <= x \/ b.at >= y

\* Taken blocks are apart from each other.
LEMMA TakenApart ==
  ASSUME NEW e \in Nat, NEW bs, Chain(bs, e), NEW b \in TakenIn(bs), NEW c \in TakenIn(bs), b # c
  PROVE  End(b) <= c.at \/ End(c) <= b.at
<1>1. bs \in Seq(MemBlock) /\ Len(bs) \in Nat
  BY DEF Chain
<1>2. PICK i \in 1 .. Len(bs) : b = bs[i]
  BY <1>1, InTaken
<1>3. PICK j \in 1 .. Len(bs) : c = bs[j]
  BY <1>1, InTaken
<1>4. i < j \/ j < i
  BY <1>1, <1>2, <1>3
<1> QED
  BY <1>2, <1>3, <1>4, ChainOrder

\* kmalloc(n) answers x in a list up to e, with a block of its exact size if the
\* bytes up to y can be split.
PlacedAt(bs, e, n, x, y) ==
  \E b \in MemBlock, w \in Seq(MemBlock) :
    /\ Kmalloc(bs, n) = [ptr |-> x + Header, blocks |-> w]
    /\ b.at = x /\ b.size >= AlignUp(n)
    /\ x + Header + AlignUp(n) + Header + Slack <= y => b.size = AlignUp(n)
    /\ Sound(w, e) /\ Apart(w) /\ TakenIn(w) = TakenIn(bs) \cup {b}

\* First fit: when every byte below x is taken and the gap from x to y holds the
\* request, kmalloc answers x, and splits if the gap is long enough for that.
LEMMA LowestGap ==
  ASSUME NEW e \in Nat, NEW bs, Sound(bs, e), Apart(bs), NEW n \in Nat \ {0},
         NEW x \in Nat, NEW y \in Nat, y <= e, x + Header + AlignUp(n) <= y,
         Covered(TakenIn(bs), x), Gap(TakenIn(bs), x, y)
  PROVE  PlacedAt(bs, e, n, x, y)
<1> DEFINE N == Len(bs)
           a == AlignUp(n)
<1>1. /\ bs \in Seq(MemBlock) /\ Chain(bs, e) /\ N \in Nat /\ Header \in Nat \ {0}
      /\ a \in Nat
  BY AlignUpFacts, HeapAssumption DEF Sound, Chain
<1>2. \A i \in 1 .. N : /\ bs[i].at \in Nat /\ bs[i].size \in Nat /\ End(bs[i]) \in Nat
                        /\ bs[i].at < End(bs[i]) /\ End(bs[i]) = bs[i].at + Header + bs[i].size
                        /\ bs[i].free \in BOOLEAN /\ (bs[i].free \/ bs[i] \in TakenIn(bs))
  <2> SUFFICES ASSUME NEW i \in 1 .. N
               PROVE  /\ bs[i].at \in Nat /\ bs[i].size \in Nat /\ End(bs[i]) \in Nat
                      /\ bs[i].at < End(bs[i]) /\ End(bs[i]) = bs[i].at + Header + bs[i].size
                      /\ bs[i].free \in BOOLEAN /\ (bs[i].free \/ bs[i] \in TakenIn(bs))
    OBVIOUS
  <2>1. /\ bs[i].at \in Nat /\ bs[i].size \in Nat /\ End(bs[i]) \in Nat /\ bs[i].free \in BOOLEAN
    BY <1>1, ListFacts
  <2>2. End(bs[i]) = bs[i].at + Header + bs[i].size
    BY DEF End
  <2>3. bs[i].free \/ bs[i] \in TakenIn(bs)
    BY <1>1, InTaken
  <2> QED
    BY SMTT(30), <1>1, <2>1, <2>2, <2>3
<1> HIDE DEF a
<1>3. PICK i \in 1 .. N : bs[i].at <= x /\ x < End(bs[i])
  <2>1. x < e
    BY <1>1 DEF a
  <2> QED
    BY <1>1, <2>1, ChainCovers
\* A block that starts below x is taken: only it has its first byte.
<1>4. ASSUME NEW j \in 1 .. N, bs[j].at < x
      PROVE  ~bs[j].free
  <2>1. PICK d \in TakenIn(bs) : d.at <= bs[j].at /\ bs[j].at < End(d)
    BY <1>2, <1>4 DEF Covered
  <2>2. PICK k \in 1 .. N : d = bs[k] /\ ~d.free
    BY <1>1, <2>1, InTaken
  <2>3. (j < k => End(bs[j]) <= bs[k].at) /\ (k < j => End(bs[k]) <= bs[j].at)
    BY <1>1, ChainOrder
  <2>4. k = j
    BY SMTT(30), <1>1, <1>2, <2>1, <2>2, <2>3
  <2> QED
    BY <2>2, <2>4
<1>5. bs[i].free
  <2>1. ASSUME ~bs[i].free PROVE FALSE
    <3>1. End(bs[i]) <= x \/ bs[i].at >= y
      BY <1>2, <2>1 DEF Gap
    <3> QED
      BY <1>1, <1>2, <1>3, <3>1 DEF a
  <2> QED
    BY <2>1
<1>6. bs[i].at = x
  BY <1>2, <1>3, <1>4, <1>5
<1>7. End(bs[i]) >= y
  <2>1. ASSUME End(bs[i]) < y PROVE FALSE
    <3>1. i # N
      BY <1>1, <1>2, <2>1 DEF Chain
    <3>2. i \in 1 .. N - 1 /\ i + 1 \in 1 .. N
      BY <1>1, <3>1
    <3>3. bs[i + 1].at = End(bs[i]) /\ ~bs[i + 1].free
      BY <1>1, <1>5, <3>2 DEF Chain, Apart
    <3>4. End(bs[i + 1]) <= x \/ bs[i + 1].at >= y
      BY <1>2, <3>2, <3>3 DEF Gap
    <3> QED
      BY <1>2, <1>3, <2>1, <3>2, <3>3, <3>4
  <2> QED
    BY <1>2, <2>1
<1>8. bs[i].size >= y - x - Header
  <2>1. bs[i].size \in Nat /\ End(bs[i]) = x + Header + bs[i].size
    BY <1>2, <1>6
  <2> QED
    BY <1>1, <1>7, <2>1
<1>9. Fits(bs, n, i)
  BY <1>1, <1>2, <1>5, <1>8 DEF Fits, a
<1>10. \A k \in 1 .. N : FirstFit(bs, n, k) => k = i
  <2> SUFFICES ASSUME NEW k \in 1 .. N, FirstFit(bs, n, k), k # i
               PROVE  FALSE
    OBVIOUS
  <2>1. CASE k < i
    <3>1. End(bs[k]) <= bs[i].at
      BY <1>1, <2>1, ChainOrder
    <3>2. bs[k].at < x
      BY <1>2, <1>6, <3>1
    <3> QED
      BY <1>4, <3>2 DEF FirstFit, Fits
  <2>2. CASE i < k
    <3>1. i \in 1 .. k - 1
      BY <1>1, <2>2
    <3> QED
      BY <1>9, <3>1 DEF FirstFit
  <2> QED
    BY <1>1, <2>1, <2>2
<1>11. (CHOOSE k \in 1 .. N : FirstFit(bs, n, k)) = i
  <2>1. \E k \in 1 .. N : FirstFit(bs, n, k)
    BY <1>1, <1>9, SomeFirst
  <2> QED
    BY <1>10, <2>1
<1> DEFINE w == Take(bs, n, i)
<1>12. Kmalloc(bs, n) = [ptr |-> x + Header, blocks |-> w]
  BY <1>6, <1>9, <1>11 DEF Kmalloc, Payload
<1>13. PICK b \in MemBlock : /\ b.at = bs[i].at /\ b.size >= AlignUp(n)
                             /\ bs[i].size >= AlignUp(n) + Header + Slack => b.size = AlignUp(n)
                             /\ TakenIn(w) = TakenIn(bs) \cup {b}
  BY <1>9, TakeSound
<1>14. Sound(w, e) /\ Apart(w) /\ w \in Seq(MemBlock)
  <2>1. Sound(w, e) /\ Apart(w)
    BY <1>9, TakeSound
  <2> QED
    BY <2>1 DEF Sound, Chain
<1>15. x + Header + AlignUp(n) + Header + Slack <= y => b.size = AlignUp(n)
  <2>1. a = AlignUp(n) /\ bs[i].size \in Nat /\ Slack = 16
    BY <1>2 DEF a, Slack
  <2>2. x + Header + a + Header + 16 <= y => bs[i].size >= a + Header + 16
    BY SMTT(30), <1>1, <1>8, <2>1
  <2> QED
    BY <1>13, <2>1, <2>2
<1> HIDE DEF w
<1> QED
  BY <1>6, <1>12, <1>13, <1>14, <1>15 DEF PlacedAt
\* kmalloc(n) answers with a block at or behind x that nobody had.
PlacedBehind(bs, e, n, x) ==
  \E b \in MemBlock, w \in Seq(MemBlock) :
    /\ Kmalloc(bs, n) = [ptr |-> Payload(b), blocks |-> w]
    /\ b.at >= x /\ b.size >= AlignUp(n) /\ b \notin TakenIn(bs)
    /\ Sound(w, e) /\ Apart(w) /\ TakenIn(w) = TakenIn(bs) \cup {b}

\* A request that finds every byte below x taken gets nothing, or a block behind x.
LEMMA TakenBehind ==
  ASSUME NEW e \in Nat, NEW bs, Sound(bs, e), Apart(bs), NEW n \in Nat,
         NEW x \in Nat, Covered(TakenIn(bs), x)
  PROVE  Kmalloc(bs, n) = [ptr |-> Null, blocks |-> bs] \/ PlacedBehind(bs, e, n, x)
<1> SUFFICES ASSUME Kmalloc(bs, n) # [ptr |-> Null, blocks |-> bs]
             PROVE  PlacedBehind(bs, e, n, x)
  OBVIOUS
<1>1. PICK b \in MemBlock, w \in Seq(MemBlock) :
        /\ Kmalloc(bs, n) = [ptr |-> Payload(b), blocks |-> w]
        /\ b.size >= AlignUp(n)
        /\ Sound(w, e) /\ Apart(w) /\ TakenIn(w) = TakenIn(bs) \cup {b}
        /\ \A d \in TakenIn(bs) : Payload(d) # Payload(b)
  <2>1. \E b \in MemBlock, w \in Seq(MemBlock) :
          /\ Kmalloc(bs, n) = [ptr |-> Payload(b), blocks |-> w]
          /\ n # 0 /\ ~b.free /\ b.size >= n /\ b.size >= AlignUp(n) /\ b.at <= e
          /\ Sound(w, e) /\ Apart(w) /\ TakenIn(w) = TakenIn(bs) \cup {b}
          /\ \A d \in TakenIn(bs) : Payload(d) # Payload(b)
    BY KmallocSound
  <2> QED
    BY <2>1
<1>2. b \notin TakenIn(bs)
  BY <1>1
<1>3. ASSUME b.at < x PROVE FALSE
  <2>1. b.at \in Nat /\ b.size \in Nat /\ Header \in Nat \ {0}
    BY HeapAssumption DEF MemBlock
  <2>2. PICK d \in TakenIn(bs) : d.at <= b.at /\ b.at < End(d)
    BY <1>3, <2>1 DEF Covered
  <2>3. d # b /\ d \in TakenIn(w) /\ b \in TakenIn(w) /\ Chain(w, e)
    BY <1>1, <1>2 DEF Sound
  <2>4. d \in MemBlock
    BY <2>3, TakenInside
  <2>5. d.at \in Nat /\ d.size \in Nat
    BY <2>4 DEF MemBlock
  <2>6. End(d) <= b.at \/ End(b) <= d.at
    BY <2>3, TakenApart
  <2> QED
    BY <2>1, <2>2, <2>5, <2>6 DEF End
<1>4. b.at >= x
  BY <1>3 DEF MemBlock
<1> QED
  BY <1>1, <1>2, <1>4 DEF PlacedBehind

\* A struct and its stack fill slot k; only what follows the last slot may have
\* gone to the stack in it.
SlotHeld(T, k) ==
  \E b, c \in T : /\ b.at = Start(k) /\ End(b) = Mid(k)
                  /\ c.at = Mid(k) /\ End(c) >= Start(k + 1)
                  /\ k < Slots => End(c) = Start(k + 1)

\* The boot task's struct comes first; a slot is its pair's or free from end to
\* end; a task that has no slot is a struct behind them all, without a stack.
Layout(T, P) ==
  /\ \E b \in T : /\ b.at = 0 /\ End(b) >= Start(1)
                  /\ Slots > 0 => End(b) = Start(1)
  /\ \A k \in 1 .. Slots :
       IF PairSlot(k) \in P THEN SlotHeld(T, k) ELSE Gap(T, Start(k), Start(k + 1))
  /\ \A t \in P : \/ t \in PairSlots
                  \/ t.stack = Null /\ t.struct >= Start(Slots + 1) + Header

\* The slots below one that are all held leave no byte free.
LEMMA SlotsCover ==
  ASSUME NEW T, NEW P, Layout(T, P), T \subseteq MemBlock,
         NEW k \in 1 .. Slots + 1, \A j \in 1 .. k - 1 : PairSlot(j) \in P
  PROVE  Covered(T, Start(k))
<1> DEFINE Q == {i \in 0 .. k - 1 : Covered(T, Start(i + 1))}
<1>1. /\ Slots \in Nat /\ k - 1 \in Nat /\ (k - 1) + 1 = k
      /\ \A j \in 1 .. Slots + 1 : Start(j) \in Nat /\ Mid(j) \in Nat
      /\ \A b \in T : b.at \in Nat /\ b.size \in Nat /\ End(b) \in Nat
  BY SlotSizes, SlotFacts DEF MemBlock, End
<1>2. 0 \in Q
  <2>1. PICK b \in T : b.at = 0 /\ End(b) >= Start(1)
    BY DEF Layout
  <2>2. Start(1) \in Nat /\ 0 + 1 = 1
    BY <1>1
  <2>3. Covered(T, Start(1))
    BY <1>1, <2>1, <2>2 DEF Covered
  <2> QED
    BY <1>1, <2>2, <2>3
<1>3. ASSUME NEW i \in 0 .. (k - 1) - 1, i \in Q
      PROVE  i + 1 \in Q
  <2> DEFINE m == i + 1
  <2>1. m \in 1 .. k - 1 /\ m \in 1 .. Slots /\ m + 1 \in 1 .. Slots + 1 /\ m \in 1 .. Slots + 1
    BY <1>1
  <2>2. Covered(T, Start(m))
    BY <1>3
  <2> HIDE DEF m, Q
  <2>3. SlotHeld(T, m)
    BY <2>1 DEF Layout
  <2>4. PICK b \in T, c \in T : /\ b.at = Start(m) /\ End(b) = Mid(m)
                                /\ c.at = Mid(m) /\ End(c) >= Start(m + 1)
    BY <2>3 DEF SlotHeld
  <2>5. ASSUME NEW z \in Nat, z < Start(m + 1)
        PROVE  \E d \in T : d.at <= z /\ z < End(d)
    <3>1. Start(m) \in Nat /\ Mid(m) \in Nat /\ Start(m + 1) \in Nat /\ End(c) \in Nat
      BY <1>1, <2>1
    <3>2. CASE z < Start(m)
      BY <2>2, <3>2 DEF Covered
    <3>3. CASE ~(z < Start(m)) /\ z < Mid(m)
      <4>1. b.at <= z /\ z < End(b)
        BY <2>4, <3>1, <3>3
      <4> QED
        BY <4>1
    <3>4. CASE ~(z < Mid(m))
      <4>1. c.at <= z /\ z < End(c)
        BY <2>4, <2>5, <3>1, <3>4
      <4> QED
        BY <4>1
    <3> QED
      BY <3>2, <3>3, <3>4
  <2> QED
    BY <2>1, <2>5 DEF Covered, m, Q
<1> HIDE DEF Q
<1>4. 0 .. k - 1 \subseteq Q
  BY <1>1, <1>2, <1>3, UpTo
<1>5. k - 1 \in Q
  BY <1>1, <1>4
<1> QED
  BY <1>1, <1>5 DEF Q
\* Where slot j lies.
LEMMA SlotNumbers ==
  ASSUME NEW j \in 1 .. Slots
  PROVE  /\ Start(j) \in Nat /\ Mid(j) \in Nat /\ Start(j + 1) \in Nat
         /\ Mid(j) = Start(j) + Header + StructBytes
         /\ Start(j + 1) = Mid(j) + Header + StackBytes
         /\ 0 < Start(j) /\ Start(j + 1) <= Start(Slots + 1) /\ Start(Slots + 1) \in Nat
         /\ PairSlot(j).struct = Start(j) + Header /\ PairSlot(j).stack = Mid(j) + Header
<1>1. /\ j \in 1 .. Slots + 1 /\ j + 1 \in 1 .. Slots + 1 /\ Slots + 1 \in 1 .. Slots + 1
  BY SlotSizes
<1>2. /\ Start(j) \in Nat /\ Mid(j) \in Nat /\ Start(j + 1) \in Nat /\ Start(Slots + 1) \in Nat
      /\ Start(1) <= Start(j) /\ Start(1) = Header + StructBytes
  BY <1>1, SlotFacts
<1>3. Mid(j) = Start(j) + (Header + StructBytes) /\ Start(j + 1) = Mid(j) + Header + StackBytes
  BY SlotFacts DEF Mid
<1>4. PairBytes \in Nat /\ (j + 1 < Slots + 1 => Start(j + 1) + PairBytes <= Start(Slots + 1))
  BY <1>1, SlotFacts, SlotSizes
<1>5. j + 1 = Slots + 1 \/ j + 1 < Slots + 1
  BY SlotSizes
<1>6. j + 1 = Slots + 1 => Start(j + 1) = Start(Slots + 1)
  OBVIOUS
<1>7. PairSlot(j).struct = Start(j) + Header /\ PairSlot(j).stack = Mid(j) + Header
  BY SlotFacts
<1> QED
  BY SMTT(30), SlotSizes, <1>2, <1>3, <1>4, <1>5, <1>6, <1>7

\* A stack of more than 8 bytes is long enough for a struct's block to be split off.
LEMMA StackIsLong == StackSize > 8 => StackBytes >= Slack
<1> SUFFICES ASSUME StackSize > 8 PROVE StackBytes >= Slack
  OBVIOUS
<1>1. StackSize \in Nat
  BY HeapAssumption
<1> QED
  BY <1>1 DEF StackBytes, AlignUp, Align, Slack

\* Where the blocks lie, as numbers.
LEMMA TakenNumbers ==
  ASSUME NEW e \in Nat, NEW bs, Chain(bs, e)
  PROVE  \A b \in TakenIn(bs) :
           /\ b \in MemBlock /\ b.at \in Nat /\ b.size \in Nat /\ End(b) \in Nat
           /\ End(b) = b.at + Header + b.size /\ b.at < End(b) /\ End(b) <= e
<1> SUFFICES ASSUME NEW b \in TakenIn(bs)
             PROVE  /\ b \in MemBlock /\ b.at \in Nat /\ b.size \in Nat /\ End(b) \in Nat
                    /\ End(b) = b.at + Header + b.size /\ b.at < End(b) /\ End(b) <= e
  OBVIOUS
<1>1. b \in MemBlock /\ b.at + Header + b.size <= e
  BY TakenInside DEF Payload
<1>2. b.at \in Nat /\ b.size \in Nat /\ Header \in Nat \ {0}
  BY <1>1, HeapAssumption DEF MemBlock
<1> QED
  BY <1>1, <1>2 DEF End

\* The heap's list between two calls.
Listed(bs) == Sound(bs, Arena) /\ Apart(bs)

\* The lowest free slot is the one a new task gets.
LEMMA SlotTaken ==
  ASSUME StackSize > 8, NEW bs, Listed(bs), NEW P, Layout(TakenIn(bs), P),
         NEW k \in 1 .. Slots, PairSlot(k) \notin P, \A j \in 1 .. k - 1 : PairSlot(j) \in P,
         NEW struct, struct = Kmalloc(bs, StructSize),
         NEW stack, stack = Kmalloc(struct.blocks, StackSize)
  PROVE  /\ [struct |-> struct.ptr, stack |-> stack.ptr] = PairSlot(k)
         /\ Layout(TakenIn(stack.blocks), P \cup {PairSlot(k)})
<1> DEFINE T == TakenIn(bs)
           next == Start(k + 1)
           nextFree == k < Slots /\ PairSlot(k + 1) \notin P
           y == IF nextFree THEN Start(k + 2) ELSE next
<1>1. /\ Arena \in Nat /\ Header \in Nat \ {0} /\ Slots \in Nat
      /\ StructBytes \in Nat \ {0} /\ StackBytes \in Nat \ {0} /\ StackBytes >= 16
      /\ StructSize \in Nat \ {0} /\ StackSize \in Nat \ {0}
      /\ PairBytes = 2 * Header + StructBytes + StackBytes
      /\ AlignUp(StructSize) = StructBytes /\ AlignUp(StackSize) = StackBytes
  BY SlotSizes, StackIsLong, HeapAssumption DEF Slack, StructBytes, StackBytes
<1>2. /\ k \in 1 .. Slots + 1 /\ k + 1 \in 1 .. Slots + 1
      /\ Start(k) \in Nat /\ Mid(k) \in Nat /\ next \in Nat
      /\ Mid(k) = Start(k) + Header + StructBytes /\ next = Mid(k) + Header + StackBytes
  <2>1. k \in 1 .. Slots + 1 /\ k + 1 \in 1 .. Slots + 1
    BY <1>1
  <2>2. Mid(k) = Start(k) + (Header + StructBytes)
    BY DEF Mid
  <2>3. Start(k) \in Nat /\ Mid(k) \in Nat /\ next \in Nat /\ next = Mid(k) + Header + StackBytes
    BY <2>1, SlotFacts
  <2> HIDE DEF next
  <2> QED
    BY <1>1, <2>1, <2>2, <2>3
<1>3. next <= Arena
  <2>1. /\ Slots + 1 \in 1 .. Slots + 1 /\ Slots > 0 /\ k + 1 <= Slots + 1
        /\ Start(Slots + 1) \in Nat /\ Start(Slots + 1) <= Arena /\ PairBytes \in Nat
    BY <1>1, <1>2, SlotFacts, SlotSizes
  <2>2. k + 1 < Slots + 1 => next + PairBytes <= Start(Slots + 1)
    BY <1>2, <2>1, SlotFacts
  <2>3. k + 1 = Slots + 1 => next = Start(Slots + 1)
    OBVIOUS
  <2> HIDE DEF next
  <2> QED
    BY <1>1, <1>2, <2>1, <2>2, <2>3
<1>4. nextFree => /\ y \in Nat /\ y = next + PairBytes /\ y <= Arena
  <2> SUFFICES ASSUME nextFree PROVE y \in Nat /\ y = next + PairBytes /\ y <= Arena
    OBVIOUS
  <2>1. k + 1 \in 1 .. Slots /\ k + 2 \in 1 .. Slots + 1 /\ (k + 1) + 1 = k + 2
    BY <1>1
  <2>2. /\ Slots + 1 \in 1 .. Slots + 1 /\ Slots > 0
        /\ Start(Slots + 1) \in Nat /\ Start(Slots + 1) <= Arena /\ PairBytes \in Nat
    BY <1>1, SlotFacts, SlotSizes
  <2>3. Start(k + 2) \in Nat /\ Start(k + 2) = next + PairBytes
    BY <2>1, SlotFacts
  <2>4. k + 2 < Slots + 1 => Start(k + 2) + PairBytes <= Start(Slots + 1)
    BY <2>1, <2>2, SlotFacts
  <2>5. k + 2 = Slots + 1 => Start(k + 2) = Start(Slots + 1)
    OBVIOUS
  <2> HIDE DEF next
  <2> QED
    BY <1>1, <2>1, <2>2, <2>3, <2>4, <2>5
<1>5. y \in Nat /\ next <= y /\ y <= Arena
  <2>1. CASE nextFree
    <3> HIDE DEF next, y, nextFree
    <3> QED
      BY <1>1, <1>2, <1>4, <2>1
  <2>2. CASE ~nextFree
    BY <1>2, <1>3, <2>2
  <2> QED
    BY <2>1, <2>2
<1>6. /\ Sound(bs, Arena) /\ Apart(bs) /\ Chain(bs, Arena)
      /\ \A d \in T : /\ d \in MemBlock /\ d.at \in Nat /\ End(d) \in Nat /\ d.at < End(d)
  BY <1>1, TakenNumbers DEF Listed, Sound
<1>7. Covered(T, Start(k))
  BY <1>2, <1>6, SlotsCover
<1>8. Gap(T, Start(k), next)
  BY DEF Layout
<1>9. nextFree => Gap(T, next, y)
  <2> SUFFICES ASSUME nextFree PROVE Gap(T, next, y)
    OBVIOUS
  <2>1. k + 1 \in 1 .. Slots /\ (k + 1) + 1 = k + 2
    BY <1>1
  <2> QED
    BY <2>1 DEF Layout
<1> HIDE DEF next, y, nextFree
<1>10. PICK b \in MemBlock, u \in Seq(MemBlock) :
         /\ struct = [ptr |-> Start(k) + Header, blocks |-> u]
         /\ b.at = Start(k) /\ b.size = StructBytes
         /\ Sound(u, Arena) /\ Apart(u) /\ TakenIn(u) = T \cup {b}
  <2>1. Start(k) + Header + AlignUp(StructSize) <= next
    BY <1>1, <1>2
  <2>2. Start(k) + Header + AlignUp(StructSize) + Header + Slack <= next
    BY <1>1, <1>2 DEF Slack
  <2>3. /\ Arena \in Nat /\ StructSize \in Nat \ {0} /\ Start(k) \in Nat /\ next \in Nat
        /\ next <= Arena /\ Sound(bs, Arena) /\ Apart(bs)
    BY <1>1, <1>2, <1>3, <1>6
  <2>4. PlacedAt(bs, Arena, StructSize, Start(k), next)
    BY <1>7, <1>8, <2>1, <2>3, LowestGap
  <2> HIDE DEF T
  <2> QED
    BY <1>1, <2>2, <2>4 DEF T, PlacedAt
<1>11. struct.ptr = Start(k) + Header /\ struct.blocks = u
  BY <1>10
<1>12. End(b) = Mid(k) /\ b.at \in Nat /\ End(b) \in Nat
  BY <1>1, <1>2, <1>10 DEF End
<1>13. Covered(TakenIn(u), Mid(k))
  <2> SUFFICES ASSUME NEW z \in Nat, z < Mid(k)
               PROVE  \E d \in TakenIn(u) : d.at <= z /\ z < End(d)
    BY DEF Covered
  <2>1. CASE z < Start(k)
    BY <1>7, <1>10, <2>1 DEF Covered
  <2>2. CASE ~(z < Start(k))
    <3>1. b \in TakenIn(u) /\ b.at <= z /\ z < End(b)
      BY <1>2, <1>10, <1>12, <2>2
    <3> QED
      BY <3>1
  <2> QED
    BY <2>1, <2>2
<1>14. Gap(TakenIn(u), Mid(k), y)
  <2> SUFFICES ASSUME NEW d \in TakenIn(u)
               PROVE  End(d) <= Mid(k) \/ d.at >= y
    BY DEF Gap
  <2>1. CASE d = b
    BY <1>2, <1>12, <2>1
  <2>2. CASE d \in T
    <3>1. /\ d.at \in Nat /\ End(d) \in Nat /\ d.at < End(d)
          /\ End(d) <= Start(k) \/ d.at >= next
      BY <1>6, <1>8, <2>2 DEF Gap
    <3>2. CASE nextFree
      <4>1. End(d) <= next \/ d.at >= y
        BY <1>9, <2>2, <3>2 DEF Gap
      <4> QED
        BY SMTT(30), <1>1, <1>2, <1>5, <3>1, <4>1
    <3>3. CASE ~nextFree
      <4>1. y = next
        BY <3>3 DEF y
      <4> QED
        BY <1>1, <1>2, <3>1, <4>1
    <3> QED
      BY <3>2, <3>3
  <2> QED
    BY <1>10, <2>1, <2>2
<1>15. PICK c \in MemBlock, w \in Seq(MemBlock) :
         /\ stack = [ptr |-> Mid(k) + Header, blocks |-> w]
         /\ c.at = Mid(k) /\ c.size >= StackBytes /\ (nextFree => c.size = StackBytes)
         /\ Sound(w, Arena) /\ TakenIn(w) = T \cup {b} \cup {c}
  <2>1. Mid(k) + Header + AlignUp(StackSize) <= y
    BY <1>1, <1>2, <1>5
  <2>2. nextFree => Mid(k) + Header + AlignUp(StackSize) + Header + Slack <= y
    <3> SUFFICES ASSUME nextFree
                 PROVE  Mid(k) + Header + StackBytes + Header + 16 <= y
      BY <1>1 DEF Slack
    <3> QED
      BY SMTT(30), <1>1, <1>2, <1>4
  <2>3. /\ Arena \in Nat /\ StackSize \in Nat \ {0} /\ Mid(k) \in Nat /\ y \in Nat
        /\ y <= Arena /\ Sound(u, Arena) /\ Apart(u)
    BY <1>1, <1>2, <1>5, <1>10
  <2>4. PlacedAt(u, Arena, StackSize, Mid(k), y)
    BY <1>13, <1>14, <2>1, <2>3, LowestGap
  <2> HIDE DEF T
  <2> QED
    BY <1>1, <1>10, <1>11, <2>2, <2>4 DEF PlacedAt
<1>16. stack.ptr = Mid(k) + Header /\ stack.blocks = w
  BY <1>15
<1>17. c.at \in Nat /\ c.size \in Nat /\ End(c) = Mid(k) + Header + c.size /\ End(c) \in Nat /\ End(c) >= next
  <2>1. c.at \in Nat /\ c.size \in Nat /\ End(c) = Mid(k) + Header + c.size
    BY <1>15 DEF MemBlock, End
  <2> QED
    BY SMTT(30), <1>1, <1>2, <1>15, <2>1
<1>18. k < Slots => End(c) = next
  <2> SUFFICES ASSUME k < Slots PROVE End(c) = next
    OBVIOUS
  <2>1. CASE nextFree
    BY <1>1, <1>2, <1>15, <1>17, <2>1
  <2>2. CASE ~nextFree
    <3>1. k + 1 \in 1 .. Slots /\ PairSlot(k + 1) \in P
      BY <1>1, <2>2 DEF nextFree
    <3>2. SlotHeld(T, k + 1)
      BY <3>1 DEF Layout
    <3>3. PICK d \in T : d.at = next
      BY <3>2 DEF SlotHeld, next
    <3>4. d # c
      BY <1>1, <1>2, <1>15, <3>3
    <3>5. End(c) <= d.at \/ End(d) <= c.at
      BY <1>1, <1>15, <3>4, TakenApart DEF Sound
    <3>6. d.at \in Nat /\ End(d) \in Nat /\ d.at < End(d) /\ c.at < d.at /\ c.at \in Nat
      BY SMTT(30), <1>1, <1>2, <1>6, <1>15, <3>3
    <3>7. End(c) <= next
      BY <3>3, <3>5, <3>6
    <3> QED
      BY <1>2, <1>17, <3>7
  <2> QED
    BY <2>1, <2>2
<1>19. [struct |-> struct.ptr, stack |-> stack.ptr] = PairSlot(k)
  BY <1>11, <1>16, SlotFacts
<1> DEFINE T2 == TakenIn(w)
           P2 == P \cup {PairSlot(k)}
<1>20. T \subseteq T2 /\ b \in T2 /\ c \in T2 /\ \A d \in T2 : d \in T \/ d = b \/ d = c
  BY <1>15
<1> HIDE DEF T2, T
<1>21. ASSUME NEW j \in 1 .. Slots
       PROVE  IF PairSlot(j) \in P2 THEN SlotHeld(T2, j) ELSE Gap(T2, Start(j), Start(j + 1))
  <2>1. CASE j = k
    <3>1. SlotHeld(T2, k)
      BY <1>10, <1>12, <1>15, <1>17, <1>18, <1>20 DEF SlotHeld, next
    <3> QED
      BY <2>1, <3>1 DEF P2
  <2>2. CASE j # k /\ PairSlot(j) \in P
    <3>1. SlotHeld(T, j)
      BY <2>2 DEF Layout, T
    <3> QED
      BY <1>20, <2>2, <3>1 DEF SlotHeld, P2
  <2>3. CASE j # k /\ PairSlot(j) \notin P
    <3>1. /\ j \in 1 .. Slots + 1 /\ j + 1 \in 1 .. Slots + 1
          /\ Start(j) \in Nat /\ Start(j + 1) \in Nat
      <4>1. j \in 1 .. Slots + 1 /\ j + 1 \in 1 .. Slots + 1
        BY <1>1
      <4> QED
        BY <4>1, SlotFacts
    <3>2. Start(j) # Start(k) /\ (j < k => Start(j + 1) <= Start(k)) /\ (k < j => next <= Start(j))
      <4>1. PairBytes \in Nat \ {0}
        BY SlotSizes
      <4>2. /\ j < k => Start(j) + PairBytes <= Start(k)
            /\ k < j => Start(k) + PairBytes <= Start(j)
            /\ Start(j + 1) = Start(j) + PairBytes /\ next = Start(k) + PairBytes
        BY <1>2, <3>1, SlotFacts DEF next
      <4>3. j < k \/ k < j
        BY <2>3
      <4> QED
        BY <1>2, <3>1, <4>1, <4>2, <4>3
    <3>3. PairSlot(j) # PairSlot(k)
      <4>1. PairSlot(j).struct = Start(j) + Header /\ PairSlot(k).struct = Start(k) + Header
        BY SlotFacts
      <4> QED
        BY SMTT(30), <1>1, <1>2, <3>1, <3>2, <4>1
    <3>4. Gap(T, Start(j), Start(j + 1))
      BY <2>3 DEF Layout, T
    <3>5. ASSUME NEW d \in T2
          PROVE  End(d) <= Start(j) \/ d.at >= Start(j + 1)
      <4>1. CASE d \in T
        BY <3>4, <4>1 DEF Gap
      <4>2. CASE d \notin T
        <5>1. CASE j < k
          <6>1. d.at \in {Start(k), Mid(k)}
            BY <1>10, <1>15, <1>20, <4>2
          <6> QED
            BY SMTT(30), <1>1, <1>2, <3>1, <3>2, <5>1, <6>1
        <5>2. CASE k < j
          <6>1. End(d) \in {Mid(k), next}
            BY <1>12, <1>18, <1>20, <4>2, <5>2, <1>1
          <6> QED
            BY SMTT(30), <1>1, <1>2, <3>1, <3>2, <5>2, <6>1
        <5> QED
          BY <2>3, <5>1, <5>2
      <4> QED
        BY <4>1, <4>2
    <3> QED
      BY <2>3, <3>3, <3>5 DEF Gap, P2
  <2> QED
    BY <2>1, <2>2, <2>3
<1>22. \E d \in T2 : d.at = 0 /\ End(d) >= Start(1) /\ (Slots > 0 => End(d) = Start(1))
  BY <1>20 DEF Layout, T
<1>23. PairSlot(k) \in PairSlots
  BY SlotSizes DEF PairSlots
<1>24. \A t \in P2 : t \in PairSlots \/ (t.stack = Null /\ t.struct >= Start(Slots + 1) + Header)
  BY <1>23 DEF Layout, P2
<1>25. Layout(T2, P2)
  <2> HIDE DEF P2
  <2> QED
    BY <1>21, <1>22, <1>24 DEF Layout
<1> QED
  BY <1>16, <1>19, <1>25 DEF T2, P2
\* When every slot is held, a new task's struct comes behind them, and there is no
\* room for its stack as well.
LEMMA NoSlotLeft ==
  ASSUME NEW bs, Listed(bs), NEW P, Layout(TakenIn(bs), P), PairSlots \subseteq P,
         NEW struct, struct = Kmalloc(bs, StructSize), struct.ptr # Null,
         NEW stack, stack = Kmalloc(struct.blocks, StackSize)
  PROVE  /\ stack.ptr = Null /\ struct.ptr >= Start(Slots + 1) + Header
         /\ Layout(TakenIn(stack.blocks), P \cup {[struct |-> struct.ptr, stack |-> stack.ptr]})
<1> DEFINE T == TakenIn(bs)
           tail == Start(Slots + 1)
<1>1. /\ Arena \in Nat /\ Header \in Nat \ {0} /\ Slots \in Nat
      /\ StructBytes \in Nat \ {0} /\ StackBytes \in Nat \ {0}
      /\ StructSize \in Nat /\ StackSize \in Nat
      /\ PairBytes = 2 * Header + StructBytes + StackBytes
      /\ AlignUp(StructSize) = StructBytes /\ AlignUp(StackSize) = StackBytes
  BY SlotSizes, HeapAssumption DEF StructBytes, StackBytes
<1>2. Slots + 1 \in 1 .. Slots + 1 /\ (Slots + 1) - 1 = Slots
  BY <1>1
<1>3. tail \in Nat /\ Arena < tail + PairBytes
  BY <1>2, SlotFacts
<1>4. \A j \in 1 .. Slots : PairSlot(j) \in P
  BY SlotSizes DEF PairSlots
<1>5. /\ Sound(bs, Arena) /\ Apart(bs) /\ Chain(bs, Arena)
      /\ T \subseteq MemBlock
  BY <1>1, TakenNumbers DEF Listed, Sound
<1>6. Covered(T, tail)
  BY <1>2, <1>4, <1>5, SlotsCover
<1> HIDE DEF tail
<1>7. PICK b \in MemBlock, u \in Seq(MemBlock) :
        /\ struct = [ptr |-> Payload(b), blocks |-> u]
        /\ b.at >= tail /\ b.size >= StructBytes
        /\ Sound(u, Arena) /\ Apart(u) /\ TakenIn(u) = T \cup {b}
  <2>1. struct # [ptr |-> Null, blocks |-> bs]
    OBVIOUS
  <2>2. PlacedBehind(bs, Arena, StructSize, tail)
    BY <1>1, <1>3, <1>5, <1>6, <2>1, TakenBehind
  <2> QED
    BY <1>1, <2>2 DEF PlacedBehind
<1>8. struct.ptr = Payload(b) /\ struct.blocks = u
  BY <1>7
<1>9. b \in TakenIn(u)
  BY <1>7
<1>10. stack = [ptr |-> Null, blocks |-> u]
  <2>1. SUFFICES ASSUME stack # [ptr |-> Null, blocks |-> u] PROVE FALSE
    OBVIOUS
  <2>2. Covered(TakenIn(u), tail)
    BY <1>6, <1>7 DEF Covered
  <2>3. PlacedBehind(u, Arena, StackSize, tail)
    <3>1. stack = Kmalloc(u, StackSize) /\ Sound(u, Arena) /\ Apart(u)
      BY <1>7, <1>8
    <3> QED
      BY <1>1, <1>3, <2>1, <2>2, <3>1, TakenBehind
  <2>4. PICK c \in MemBlock, w \in Seq(MemBlock) :
          /\ c.at >= tail /\ c.size >= StackBytes /\ c \notin TakenIn(u)
          /\ Sound(w, Arena) /\ TakenIn(w) = TakenIn(u) \cup {c}
    BY <1>1, <2>3 DEF PlacedBehind
  <2>5. /\ Chain(w, Arena) /\ b \in TakenIn(w) /\ c \in TakenIn(w) /\ b # c
    BY <1>9, <2>4 DEF Sound
  <2>6. End(b) <= c.at \/ End(c) <= b.at
    BY <1>1, <2>5, TakenApart
  <2>7. /\ End(b) \in Nat /\ End(c) \in Nat
        /\ b.at \in Nat /\ b.size \in Nat /\ End(b) = b.at + Header + b.size /\ End(b) <= Arena
        /\ c.at \in Nat /\ c.size \in Nat /\ End(c) = c.at + Header + c.size /\ End(c) <= Arena
    BY <1>1, <2>5, TakenNumbers
  <2>8. b.at >= tail /\ b.size >= StructBytes /\ c.at >= tail /\ c.size >= StackBytes
    BY <1>7, <2>4
  <2>9. End(b) > Arena \/ End(c) > Arena
    <3>1. CASE End(b) <= c.at
      <4>1. End(c) >= tail + Header + StructBytes + Header + StackBytes
        <5>1. End(b) >= tail + Header + StructBytes
          BY SMTT(30), <1>1, <1>3, <2>7, <2>8
        <5>2. End(c) >= c.at + Header + StackBytes /\ c.at >= End(b)
          BY <1>1, <2>7, <2>8, <3>1
        <5>3. c.at \in Nat /\ End(b) \in Nat /\ End(c) \in Nat
          BY <1>1, <2>7
        <5> QED
          BY <1>1, <1>3, <5>1, <5>2, <5>3
      <4> QED
        BY <1>1, <1>3, <2>7, <4>1
    <3>2. CASE End(c) <= b.at
      <4>1. End(b) >= tail + Header + StackBytes + Header + StructBytes
        <5>1. End(c) >= tail + Header + StackBytes
          BY SMTT(30), <1>1, <1>3, <2>7, <2>8
        <5>2. End(b) >= b.at + Header + StructBytes /\ b.at >= End(c)
          BY SMTT(30), <1>1, <2>7, <2>8, <3>2
        <5>3. b.at \in Nat /\ End(b) \in Nat /\ End(c) \in Nat
          BY <1>1, <2>7
        <5> QED
          BY <1>1, <1>3, <5>1, <5>2, <5>3
      <4> QED
        BY <1>1, <1>3, <2>7, <4>1
    <3> QED
      BY <2>6, <3>1, <3>2
  <2> QED
    BY <1>1, <2>7, <2>9
<1>11. stack.ptr = Null /\ stack.blocks = u
  BY <1>10
<1>12. struct.ptr >= tail + Header
  <2>1. b.at \in Nat
    BY DEF MemBlock
  <2> QED
    BY <1>1, <1>3, <1>7, <1>8, <2>1 DEF Payload
<1> DEFINE t  == [struct |-> struct.ptr, stack |-> stack.ptr]
           P2 == P \cup {t}
           U  == TakenIn(u)
<1>13. t.struct >= tail + Header /\ t.stack = Null
  BY <1>11, <1>12
<1>14. T \subseteq U
  BY <1>7
<1> HIDE DEF t, U, T
<1>15. \E d \in U : d.at = 0 /\ End(d) >= Start(1) /\ (Slots > 0 => End(d) = Start(1))
  BY <1>14 DEF Layout, T
<1>16. \A j \in 1 .. Slots : PairSlot(j) \in P2 /\ SlotHeld(U, j)
  BY <1>4, <1>14 DEF Layout, SlotHeld, T
<1>17. \A s \in P2 : s \in PairSlots \/ (s.stack = Null /\ s.struct >= tail + Header)
  BY <1>13 DEF Layout, tail
<1>18. Layout(U, P2)
  <2> HIDE DEF P2
  <2> QED
    BY <1>15, <1>16, <1>17 DEF Layout, tail
<1> QED
  BY <1>11, <1>12, <1>18 DEF tail, U, P2, t

\* Reaping a task frees its slot from end to end, and no other.
LEMMA SlotGiven ==
  ASSUME NEW bs, Listed(bs), NEW P, Layout(TakenIn(bs), P),
         NEW t \in P, t.struct \in Nat, t.stack \in Nat
  PROVE  Layout(TakenIn(Kfree(Kfree(bs, t.stack), t.struct)), P \ {t})
<1> DEFINE T  == TakenIn(bs)
           w  == Kfree(Kfree(bs, t.stack), t.struct)
           T2 == TakenIn(w)
           P2 == P \ {t}
<1>1. /\ Arena \in Nat /\ Header \in Nat \ {0} /\ Slots \in Nat
      /\ StructBytes \in Nat \ {0} /\ StackBytes \in Nat \ {0}
      /\ PairBytes = 2 * Header + StructBytes + StackBytes
  BY SlotSizes
<1>2. T2 = {b \in T : Payload(b) \notin {t.struct, t.stack}}
  <2> DEFINE v == Kfree(bs, t.stack)
  <2>1. Sound(v, Arena) /\ Apart(v) /\ TakenIn(v) = {b \in TakenIn(bs) : Payload(b) # t.stack}
    BY <1>1, KfreeSound DEF Listed
  <2> HIDE DEF v
  <2>2. TakenIn(Kfree(v, t.struct)) = {b \in TakenIn(v) : Payload(b) # t.struct}
    BY <1>1, <2>1, KfreeSound
  <2> QED
    BY <2>1, <2>2 DEF v
<1>3. /\ Chain(bs, Arena)
      /\ \A d \in T : d.at \in Nat /\ End(d) \in Nat /\ d.at < End(d) /\ Payload(d) = d.at + Header
  <2>1. Chain(bs, Arena)
    BY DEF Listed, Sound
  <2> QED
    BY <1>1, <2>1, TakenNumbers DEF Payload
<1>4. ASSUME NEW j \in 1 .. Slots
      PROVE  /\ Start(j) \in Nat /\ Mid(j) \in Nat /\ Start(j + 1) \in Nat
             /\ Mid(j) = Start(j) + Header + StructBytes
             /\ Start(j + 1) = Mid(j) + Header + StackBytes
             /\ 0 < Start(j) /\ Start(j + 1) <= Start(Slots + 1) /\ Start(Slots + 1) \in Nat
             /\ PairSlot(j).struct = Start(j) + Header /\ PairSlot(j).stack = Mid(j) + Header
  BY SlotNumbers
<1>5. ASSUME NEW j \in 1 .. Slots, NEW k \in 1 .. Slots, j # k
      PROVE  Start(j + 1) <= Start(k) \/ Start(k + 1) <= Start(j)
  <2>1. j \in 1 .. Slots + 1 /\ k \in 1 .. Slots + 1 /\ (j < k \/ k < j)
    BY <1>1, <1>5
  <2>2. /\ j < k => Start(j) + PairBytes <= Start(k)
        /\ k < j => Start(k) + PairBytes <= Start(j)
        /\ Start(j + 1) = Start(j) + PairBytes /\ Start(k + 1) = Start(k) + PairBytes
    BY <2>1, SlotFacts
  <2> QED
    BY <2>1, <2>2
<1> HIDE DEF T, T2, w
\* What the task held, if it was not block d, is not where d is.
<1>6. ASSUME NEW d \in T, d.at # t.struct - Header, d.at # t.stack - Header
      PROVE  d \in T2
  BY <1>1, <1>2, <1>3, <1>6
\* The pointers of a task are in its slot, or behind all slots.
<1>7. ASSUME NEW x \in Nat, x = 0 \/ \E j \in 1 .. Slots : PairSlot(j) # t /\ x \in {Start(j), Mid(j)}
      PROVE  x # t.struct - Header /\ x # t.stack - Header
  <2>1. CASE t \in PairSlots
    <3>1. PICK k \in 1 .. Slots : t = PairSlot(k)
      BY <2>1, SlotSizes DEF PairSlots
    <3>2. CASE x = 0
      BY <1>1, <1>4, <3>1, <3>2
    <3>3. CASE x # 0
      <4>1. PICK j \in 1 .. Slots : PairSlot(j) # t /\ x \in {Start(j), Mid(j)}
        BY <1>7, <3>3
      <4>2. j # k
        BY <3>1, <4>1
      <4>3. Start(j + 1) <= Start(k) \/ Start(k + 1) <= Start(j)
        BY <1>5, <4>2
      <4>4. t.struct - Header = Start(k) /\ t.stack - Header = Mid(k)
        BY <1>1, <1>4, <3>1
      <4>5. /\ Start(j) \in Nat /\ Mid(j) \in Nat /\ Start(j + 1) \in Nat
            /\ Start(j) < Mid(j) /\ Mid(j) < Start(j + 1)
        BY <1>1, <1>4
      <4>6. /\ Start(k) \in Nat /\ Mid(k) \in Nat /\ Start(k + 1) \in Nat
            /\ Start(k) < Mid(k) /\ Mid(k) < Start(k + 1)
        BY <1>1, <1>4
      <4> QED
        BY <4>1, <4>3, <4>4, <4>5, <4>6
    <3> QED
      BY <3>2, <3>3
  <2>2. CASE t \notin PairSlots
    <3>1. t.stack = 0 /\ t.struct >= Start(Slots + 1) + Header
      BY <2>2 DEF Layout, Null
    <3>2. Start(Slots + 1) \in Nat \ {0}
      <4>1. Slots + 1 \in 1 .. Slots + 1
        BY <1>1
      <4>2. Start(Slots + 1) \in Nat /\ Start(1) <= Start(Slots + 1) /\ Start(1) = Header + StructBytes
        BY <4>1, SlotFacts
      <4> QED
        BY <1>1, <4>2
    <3>3. x < Start(Slots + 1)
      <4>1. CASE x = 0
        BY <3>2, <4>1
      <4>2. CASE x # 0
        <5>1. PICK j \in 1 .. Slots : x \in {Start(j), Mid(j)}
          BY <1>7, <4>2
        <5>2. /\ Start(j) \in Nat /\ Mid(j) \in Nat /\ Start(j + 1) \in Nat
              /\ Start(j) < Mid(j) /\ Mid(j) < Start(j + 1) /\ Start(j + 1) <= Start(Slots + 1)
          BY <1>1, <1>4
        <5> QED
          BY <3>2, <5>1, <5>2
      <4> QED
        BY <4>1, <4>2
    <3> QED
      BY <1>1, <3>1, <3>2, <3>3
  <2> QED
    BY <2>1, <2>2
<1>8. \E d \in T2 : d.at = 0 /\ End(d) >= Start(1) /\ (Slots > 0 => End(d) = Start(1))
  <2>1. PICK d \in T : d.at = 0 /\ End(d) >= Start(1) /\ (Slots > 0 => End(d) = Start(1))
    BY DEF Layout, T
  <2>2. d.at # t.struct - Header /\ d.at # t.stack - Header
    BY <1>3, <1>7, <2>1
  <2>3. d \in T2
    BY <1>6, <2>2
  <2> QED
    BY <2>1, <2>3
<1>9. ASSUME NEW j \in 1 .. Slots, PairSlot(j) \in P2
      PROVE  SlotHeld(T2, j)
  <2>1. SlotHeld(T, j)
    BY <1>9 DEF Layout, T
  <2>2. PICK b \in T, c \in T : /\ b.at = Start(j) /\ End(b) = Mid(j)
                                /\ c.at = Mid(j) /\ End(c) >= Start(j + 1)
                                /\ j < Slots => End(c) = Start(j + 1)
    BY <2>1 DEF SlotHeld
  <2>3. PairSlot(j) # t
    BY <1>9
  <2>4. /\ b.at # t.struct - Header /\ b.at # t.stack - Header
        /\ c.at # t.struct - Header /\ c.at # t.stack - Header
    <3>1. Start(j) \in Nat /\ Mid(j) \in Nat
      BY <1>4
    <3> QED
      BY <1>7, <2>2, <2>3, <3>1
  <2>5. b \in T2 /\ c \in T2
    BY <1>6, <2>4
  <2> QED
    BY <2>2, <2>5 DEF SlotHeld
<1>10. ASSUME NEW j \in 1 .. Slots, PairSlot(j) \notin P2
       PROVE  Gap(T2, Start(j), Start(j + 1))
  <2> SUFFICES ASSUME NEW d \in T2
               PROVE  End(d) <= Start(j) \/ d.at >= Start(j + 1)
    BY DEF Gap
  <2>1. d \in T /\ Payload(d) # t.struct /\ Payload(d) # t.stack
    BY <1>2
  <2>2. CASE PairSlot(j) \notin P
    BY <2>1, <2>2 DEF Layout, Gap, T
  <2>3. CASE PairSlot(j) \in P
    <3>1. t = PairSlot(j)
      BY <1>10, <2>3
    <3>2. SlotHeld(T, j)
      BY <2>3 DEF Layout, T
    <3>3. PICK b \in T, c \in T : /\ b.at = Start(j) /\ End(b) = Mid(j)
                                  /\ c.at = Mid(j) /\ End(c) >= Start(j + 1)
      BY <3>2 DEF SlotHeld
    <3>4. d # b /\ d # c
      BY <1>3, <1>4, <2>1, <3>1, <3>3
    <3>5. End(d) <= b.at \/ End(b) <= d.at
      BY <1>1, <1>3, <2>1, <3>4, TakenApart DEF T
    <3>6. End(d) <= c.at \/ End(c) <= d.at
      BY <1>1, <1>3, <2>1, <3>4, TakenApart DEF T
    <3>7. /\ d.at \in Nat /\ End(d) \in Nat /\ d.at < End(d)
          /\ End(c) \in Nat /\ Start(j) \in Nat /\ Mid(j) \in Nat /\ Start(j + 1) \in Nat
      BY <1>3, <1>4, <2>1
    <3> QED
      BY <3>3, <3>5, <3>6, <3>7
  <2> QED
    BY <2>2, <2>3
<1>11. \A s \in P2 : s \in PairSlots \/ (s.stack = Null /\ s.struct >= Start(Slots + 1) + Header)
  BY DEF Layout
<1>12. Layout(T2, P2)
  <2> HIDE DEF P2
  <2> QED
    BY <1>8, <1>9, <1>10, <1>11 DEF Layout
<1> QED
  BY <1>12 DEF T2, w
\* The boot task's struct is the first block, or there is no room for it.
LEMMA BootFirst ==
  ASSUME StackSize > 8, NEW bs, Listed(bs), TakenIn(bs) = {},
         NEW got, got = Kmalloc(bs, StructSize)
  PROVE  got.ptr = Null \/ Layout(TakenIn(got.blocks), {})
<1>1. /\ Arena \in Nat /\ Header \in Nat \ {0} /\ Slots \in Nat
      /\ StructBytes \in Nat \ {0} /\ StackBytes \in Nat \ {0} /\ StackBytes >= 16
      /\ StructSize \in Nat \ {0} /\ AlignUp(StructSize) = StructBytes
      /\ PairBytes = 2 * Header + StructBytes + StackBytes
  BY SlotSizes, StackIsLong, HeapAssumption DEF Slack, StructBytes
<1>2. Sound(bs, Arena) /\ Apart(bs)
  BY DEF Listed
<1>3. Covered(TakenIn(bs), 0) /\ Gap(TakenIn(bs), 0, Arena)
  BY DEF Covered, Gap
<1>4. Start(1) = Header + StructBytes
  BY SlotFacts
<1>5. Slots > 0 => Start(1) + Header + Slack <= Arena
  <2> SUFFICES ASSUME Slots > 0 PROVE Start(1) + Header + 16 <= Arena
    BY DEF Slack
  <2>1. 1 \in 1 .. Slots
    BY <1>1
  <2>2. /\ Start(1) \in Nat /\ Mid(1) \in Nat /\ Start(1 + 1) \in Nat
        /\ Mid(1) = Start(1) + Header + StructBytes /\ Start(1 + 1) = Mid(1) + Header + StackBytes
        /\ Start(1 + 1) <= Start(Slots + 1) /\ Start(Slots + 1) \in Nat
    BY <2>1, SlotNumbers
  <2>3. Start(Slots + 1) <= Arena
    BY SlotFacts
  <2> QED
    BY <1>1, <2>2, <2>3
<1>6. CASE Start(1) <= Arena
  <2>1. PlacedAt(bs, Arena, StructSize, 0, Arena)
    <3>1. 0 + Header + AlignUp(StructSize) <= Arena /\ 0 \in Nat /\ Arena <= Arena
      BY <1>1, <1>4, <1>6
    <3> QED
      BY <1>1, <1>2, <1>3, <3>1, LowestGap
  <2>2. PICK b \in MemBlock, w \in Seq(MemBlock) :
          /\ got = [ptr |-> 0 + Header, blocks |-> w]
          /\ b.at = 0 /\ b.size >= StructBytes
          /\ 0 + Header + StructBytes + Header + Slack <= Arena => b.size = StructBytes
          /\ TakenIn(w) = {b}
    BY <1>1, <2>1 DEF PlacedAt
  <2>3. got.blocks = w /\ b.size \in Nat /\ End(b) = 0 + Header + b.size
    BY <2>2 DEF MemBlock, End
  <2>4. End(b) >= Start(1) /\ (Slots > 0 => End(b) = Start(1))
    <3>1. Slots > 0 => b.size = StructBytes
      <4>1. Slots > 0 => 0 + Header + StructBytes + Header + 16 <= Arena
        BY <1>1, <1>4, <1>5 DEF Slack
      <4> QED
        BY <2>2, <4>1 DEF Slack
    <3> QED
      BY <1>1, <1>4, <2>2, <2>3, <3>1
  <2>5. ASSUME NEW k \in 1 .. Slots
        PROVE  Gap({b}, Start(k), Start(k + 1))
    <3>1. k \in 1 .. Slots + 1 /\ Slots > 0
      BY <1>1
    <3>2. Start(1) <= Start(k)
      BY <3>1, SlotFacts
    <3> QED
      BY <2>4, <3>1, <3>2 DEF Gap
  <2>6. Layout({b}, {})
    BY <2>2, <2>4, <2>5 DEF Layout
  <2> QED
    BY <2>2, <2>3, <2>6
<1>7. CASE ~(Start(1) <= Arena)
  <2>1. SUFFICES ASSUME got # [ptr |-> Null, blocks |-> bs] PROVE FALSE
    OBVIOUS
  <2>2. PlacedBehind(bs, Arena, StructSize, 0)
    BY <1>1, <1>2, <1>3, <2>1, TakenBehind
  <2>3. PICK b \in MemBlock, w \in Seq(MemBlock) :
          b.size >= StructBytes /\ Sound(w, Arena) /\ TakenIn(w) = {b}
    BY <1>1, <2>2 DEF PlacedBehind
  <2>4. b.at \in Nat /\ b.size \in Nat /\ End(b) = b.at + Header + b.size /\ End(b) <= Arena
    BY <1>1, <2>3, TakenNumbers DEF Sound
  <2> QED
    BY <1>1, <1>4, <1>7, <2>3, <2>4
<1> QED
  BY <1>6, <1>7

\* As long as only the scheduler uses the heap, nothing has been asked for or the
\* taken blocks are the boot task's struct and the tasks' slots.
OnSlots ==
  schedOnly => (live = {} /\ pairs = {}) \/ Layout(TakenIn(blocks), pairs)

\* What PairsStable asks of a step.
SlotStep ==
  schedOnly /\ pairs # pairs' => \A t \in pairs' \ pairs :
    IF PairSlots \subseteq pairs
    THEN t.stack = Null /\ \A s \in PairSlots : t.struct > s.stack
    ELSE /\ t \in PairSlots
         /\ \A s \in PairSlots : s.struct < t.struct => s \in pairs

\* Every step keeps the slots, and gives a new task the lowest that is free.
LEMMA SlotsKept ==
  ASSUME StackSize > 8, IInv, OnSlots, [Next]_vars
  PROVE  OnSlots' /\ SlotStep
<1>1. /\ Listed(blocks) /\ Arena \in Nat /\ Agree(TakenIn(blocks), live)
      /\ pairs \subseteq [struct : 0 .. Arena, stack : 0 .. Arena]
  BY HeapAssumption DEF IInv, Good, Listed
<1>2. CASE \E n \in Sizes : Malloc(n)
  BY <1>2 DEF Malloc, OnSlots, SlotStep
<1>3. CASE \E a \in live : Free(a)
  BY <1>3 DEF Free, OnSlots, SlotStep
<1>4. CASE InitBoot
  <2> DEFINE got == Kmalloc(blocks, StructSize)
  <2>1. /\ live = {} /\ blocks' = got.blocks /\ live' = Held(got.ptr, StructSize)
        /\ pairs' = pairs /\ schedOnly' = schedOnly
    BY <1>4 DEF InitBoot
  <2>2. TakenIn(blocks) = {}
    BY <1>1, <2>1 DEF Agree
  <2>3. schedOnly => pairs = {}
    BY <2>2 DEF OnSlots, Layout
  <2>4. got.ptr = Null \/ Layout(TakenIn(got.blocks), {})
    BY <1>1, <2>2, BootFirst
  <2> HIDE DEF got
  <2>5. OnSlots'
    BY <2>1, <2>3, <2>4 DEF OnSlots, Held
  <2> QED
    BY <2>1, <2>5 DEF SlotStep
<1>5. CASE NewTask
  <2> DEFINE struct == Kmalloc(blocks, StructSize)
             stack  == Kmalloc(struct.blocks, StackSize)
             t      == [struct |-> struct.ptr, stack |-> stack.ptr]
  <2>1. /\ live # {} /\ struct.ptr # Null /\ blocks' = stack.blocks
        /\ pairs' = pairs \cup {t} /\ schedOnly' = schedOnly
    BY <1>5 DEF NewTask
  <2> SUFFICES ASSUME schedOnly
               PROVE  OnSlots' /\ SlotStep
    BY <2>1 DEF OnSlots, SlotStep
  <2>2. Layout(TakenIn(blocks), pairs)
    BY <2>1 DEF OnSlots
  <2>3. CASE PairSlots \subseteq pairs
    <3>1. /\ stack.ptr = Null /\ struct.ptr >= Start(Slots + 1) + Header
          /\ Layout(TakenIn(stack.blocks), pairs \cup {t})
      BY <1>1, <2>1, <2>2, <2>3, NoSlotLeft
    <3>2. ASSUME NEW s \in PairSlots
          PROVE  t.struct > s.stack
      <4>1. PICK j \in 1 .. Slots : s = PairSlot(j)
        BY SlotSizes DEF PairSlots
      <4>2. /\ Mid(j) \in Nat /\ Start(j + 1) \in Nat /\ Start(j + 1) = Mid(j) + Header + StackBytes
            /\ Start(j + 1) <= Start(Slots + 1) /\ Start(Slots + 1) \in Nat
            /\ s.stack = Mid(j) + Header
        BY <4>1, SlotNumbers
      <4>3. struct.ptr \in Nat
        <5>1. Good(blocks, live) /\ StructSize \in Nat
          BY HeapAssumption DEF IInv
        <5>2. struct.ptr \in 0 .. Arena
          BY <5>1, MallocKeeps
        <5> QED
          BY <5>2
      <4> HIDE DEF struct, stack
      <4> QED
        BY <3>1, <4>2, <4>3, SlotSizes
    <3>3. t.stack = Null
      BY <3>1
    <3> HIDE DEF struct, stack, t
    <3>4. SlotStep
      BY <2>1, <2>3, <3>2, <3>3 DEF SlotStep
    <3> QED
      BY <2>1, <3>1, <3>4 DEF OnSlots
  <2>4. CASE ~(PairSlots \subseteq pairs)
    <3> DEFINE K == {k \in 1 .. Slots : PairSlot(k) \notin pairs}
    <3>1. K \subseteq Nat /\ K # {}
      <4>1. PICK s \in PairSlots : s \notin pairs
        BY <2>4
      <4>2. PICK k \in 1 .. Slots : s = PairSlot(k)
        BY SlotSizes DEF PairSlots
      <4>3. k \in K
        BY <4>1, <4>2
      <4>4. K \subseteq Nat
        OBVIOUS
      <4> QED
        BY <4>3, <4>4
    <3>2. PICK k \in K : \A j \in K : k <= j
      <4> HIDE DEF K
      <4> QED
        BY <3>1, LeastOf
    <3>3. /\ k \in 1 .. Slots /\ PairSlot(k) \notin pairs
          /\ \A j \in 1 .. k - 1 : PairSlot(j) \in pairs
      <4>1. k \in 1 .. Slots /\ PairSlot(k) \notin pairs
        OBVIOUS
      <4>2. ASSUME NEW j \in 1 .. k - 1, PairSlot(j) \notin pairs PROVE FALSE
        <5>1. j \in K /\ ~(k <= j)
          BY <4>1, <4>2, SlotSizes
        <5> QED
          BY <3>2, <5>1
      <4> QED
        BY <4>1, <4>2
    <3> HIDE DEF K
    <3>4. t = PairSlot(k) /\ Layout(TakenIn(stack.blocks), pairs \cup {PairSlot(k)})
      BY <1>1, <2>2, <3>3, SlotTaken
    <3> HIDE DEF struct, stack, t
    <3>5. t \in PairSlots
      BY <3>3, <3>4, SlotSizes DEF PairSlots
    <3>6. ASSUME NEW s \in PairSlots, s.struct < t.struct
          PROVE  s \in pairs
      <4>1. PICK j \in 1 .. Slots : s = PairSlot(j)
        BY SlotSizes DEF PairSlots
      <4>2. /\ s.struct = Start(j) + Header /\ t.struct = Start(k) + Header
            /\ Start(j) \in Nat /\ Start(k) \in Nat
        BY <3>3, <3>4, <4>1, SlotNumbers
      <4>3. j \in 1 .. Slots + 1 /\ k \in 1 .. Slots + 1
        BY <3>3, SlotSizes
      <4>4. k < j => Start(k) + PairBytes <= Start(j)
        BY <4>3, SlotFacts
      <4>5. j < k
        BY <3>3, <3>6, <4>2, <4>4, SlotSizes
      <4>6. j \in 1 .. k - 1
        BY <3>3, <4>5, SlotSizes
      <4> QED
        BY <3>3, <4>1, <4>6
    <3>7. SlotStep
      BY <2>1, <2>4, <3>5, <3>6 DEF SlotStep
    <3> QED
      BY <2>1, <3>4, <3>7 DEF OnSlots
  <2> QED
    BY <2>3, <2>4
<1>6. CASE \E t \in pairs : Reap(t)
  <2>1. PICK t \in pairs : Reap(t)
    BY <1>6
  <2>2. t.struct \in Nat /\ t.stack \in Nat
    BY <1>1
  <2>3. /\ blocks' = Kfree(Kfree(blocks, t.stack), t.struct)
        /\ pairs' = pairs \ {t} /\ schedOnly' = schedOnly
    BY <2>1 DEF Reap
  <2>4. schedOnly => Layout(TakenIn(blocks), pairs)
    BY DEF OnSlots
  <2>5. schedOnly => Layout(TakenIn(Kfree(Kfree(blocks, t.stack), t.struct)), pairs \ {t})
    BY <1>1, <2>2, <2>4, SlotGiven
  <2>6. OnSlots'
    BY <2>3, <2>5 DEF OnSlots
  <2>7. pairs' \ pairs = {}
    BY <2>3
  <2> QED
    BY <2>6, <2>7 DEF SlotStep
<1>7. CASE UNCHANGED vars
  BY <1>7 DEF vars, OnSlots, SlotStep
<1> QED
  BY <1>2, <1>3, <1>4, <1>5, <1>6, <1>7 DEF Next

\* The scheduler's tasks always land on the same slots, the lowest free one first,
\* a struct with its stack behind it, whatever the sizes and the order of creation
\* and reaping, if a stack is longer than 8 bytes: the block of a struct in a slot
\* between two others is not split when fewer bytes follow, and swallows them.
THEOREM SlotsStable == StackSize > 8 => (Spec => PairsStable)
<1> SUFFICES ASSUME StackSize > 8 PROVE Spec => PairsStable
  OBVIOUS
<1>1. Init => OnSlots
  BY DEF Init, OnSlots
<1>2. IInv /\ OnSlots /\ [Next]_vars => OnSlots'
  BY SlotsKept
<1>3. IInv /\ OnSlots /\ [Next]_vars =>
        [schedOnly /\ pairs # pairs' => \A t \in pairs' \ pairs :
           IF PairSlots \subseteq pairs
           THEN t.stack = Null /\ \A s \in PairSlots : t.struct > s.stack
           ELSE /\ t \in PairSlots
                /\ \A s \in PairSlots : s.struct < t.struct => s \in pairs]_vars
  BY SlotsKept DEF SlotStep
<1> QED
  BY <1>1, <1>2, <1>3, Invariant, PTL DEF Spec, PairsStable
=============================================================================
