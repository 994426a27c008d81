---------------------------- MODULE FramesProofs ----------------------------
(***************************************************************************)
(* Frames and page tables, for every memory map, any programs, and page     *)
(* tables of any size: the bitmap keeps in step with its counter and hands  *)
(* out usable frames only, and as long as memory lasts every frame in use   *)
(* has one owner.                                                           *)
(*                                                                          *)
(* Page tables are words in the same memory as pages, so first of all words *)
(* have to stay words: one that can be taken for an entry names a frame     *)
(* there is (Mem).  Then the tables under a root are a tree (Tree): each of *)
(* its frames has a level, and but for the root one entry that names it.    *)
(* map_in hangs a page into a tree; the loops of elf_load, of the stack and *)
(* of a clone are map_in again and again; destroying frees what the tree    *)
(* has.                                                                     *)
(***************************************************************************)
EXTENDS Frames, Induction

-----------------------------------------------------------------------------
(* Words, and the memory they are in.                                       *)

\* The frames of a memory of n.
Phys(n) == 0 .. n - 1

\* What a word may be: an entry in it names one of them.
Word(n) == {w \in Nat : Present(w) => FrameOf(w) \in Phys(n)}

Mem(n) ==
  {m \in [total : {n}, used : SUBSET Phys(n), count : Nat,
          word : [Phys(n) -> [Idx -> Word(n)]], short : BOOLEAN] :
     m.count = Cardinality(m.used)}

LEMMA Indices == /\ Entries \in Nat /\ Entries > 1
                 /\ 0 \in Idx /\ 1 \in Idx /\ Idx \subseteq Nat
BY FramesAssumption DEF Idx

LEMMA EntryIs ==
  /\ \A f \in Nat : Entry(f) \in Nat /\ Present(Entry(f)) /\ FrameOf(Entry(f)) = f
  /\ \A w \in Nat : FrameOf(w) \in Nat /\ (Present(w) => w = Entry(FrameOf(w)))
  /\ ~Present(0)
BY DEF Entry, Present, FrameOf

LEMMA WordIs ==
  ASSUME NEW n \in Nat
  PROVE  /\ Word(n) \subseteq Nat
         /\ \A f \in Phys(n) : f \in Nat /\ Entry(f) \in Word(n)
         /\ \A w \in Nat : ~Present(w) => w \in Word(n)
         /\ 0 \in Word(n)
         /\ Blank \in [Idx -> Word(n)]
<1>1. \A f \in Phys(n) : f \in Nat
  BY DEF Phys
<1>2. \A f \in Phys(n) : Entry(f) \in Word(n)
  BY <1>1, EntryIs DEF Word
<1>3. 0 \in Word(n)
  BY EntryIs DEF Word
<1>4. Blank \in [Idx -> Word(n)]
  BY <1>3 DEF Blank
<1> QED
  BY <1>1, <1>2, <1>3, <1>4 DEF Word

LEMMA FrameSets ==
  ASSUME NEW n \in Nat
  PROVE  IsFiniteSet(Phys(n)) /\ \A U \in SUBSET Phys(n) : IsFiniteSet(U) /\ Cardinality(U) \in 0 .. n
<1>1. IsFiniteSet(Phys(n)) /\ Cardinality(Phys(n)) = n
  <2>1. 0 \in Int /\ n - 1 \in Int /\ (IF 0 > n - 1 THEN 0 ELSE n - 1 - 0 + 1) = n
    OBVIOUS
  <2> QED
    BY <2>1, FS_Interval DEF Phys
<1>2. ASSUME NEW U \in SUBSET Phys(n)
      PROVE  IsFiniteSet(U) /\ Cardinality(U) \in 0 .. n
  <2>1. IsFiniteSet(U) /\ Cardinality(U) <= Cardinality(Phys(n))
    BY <1>1, FS_Subset
  <2>2. Cardinality(U) \in Nat
    BY <2>1, FS_CardinalityType
  <2> QED
    BY <1>1, <2>1, <2>2
<1> QED
  BY <1>1, <1>2

\* A memory's fields.
LEMMA MemIs ==
  ASSUME NEW n \in Nat, NEW m \in Mem(n)
  PROVE  /\ m.total = n /\ m.used \subseteq Phys(n) /\ m.count = Cardinality(m.used)
         /\ m.word \in [Phys(n) -> [Idx -> Word(n)]] /\ m.short \in BOOLEAN
         /\ m = [total |-> n, used |-> m.used, count |-> m.count, word |-> m.word,
                 short |-> m.short]
BY DEF Mem

\* A memory whose words have changed.
LEMMA WithWords ==
  ASSUME NEW n \in Nat, NEW m \in Mem(n), NEW ws \in [Phys(n) -> [Idx -> Word(n)]]
  PROVE  /\ [m EXCEPT !.word = ws] \in Mem(n)
         /\ [m EXCEPT !.word = ws].word = ws
         /\ [m EXCEPT !.word = ws].used = m.used
         /\ [m EXCEPT !.word = ws].short = m.short
BY DEF Mem

\* A word is set, wherever it is.
LEMMA SetWordType ==
  ASSUME NEW n \in Nat, NEW m \in Mem(n), NEW f, NEW i, NEW w \in Word(n)
  PROVE  LET m2 == SetWord(m, f, i, w)
         IN  m2 \in Mem(n) /\ m2.used = m.used /\ m2.short = m.short
<1> DEFINE ws == [m.word EXCEPT ![f] = [@ EXCEPT ![i] = w]]
<1>1. m.word \in [Phys(n) -> [Idx -> Word(n)]]
  BY MemIs
<1>2. \A row \in [Idx -> Word(n)] : [row EXCEPT ![i] = w] \in [Idx -> Word(n)]
  OBVIOUS
<1>3. ws \in [Phys(n) -> [Idx -> Word(n)]]
  BY <1>1, <1>2
<1>4. SetWord(m, f, i, w) = [m EXCEPT !.word = ws]
  BY DEF SetWord
<1> HIDE DEF ws
<1> QED
  BY <1>3, <1>4, WithWords

\* A word of a frame is set, and no other.
LEMMA SetWordIs ==
  ASSUME NEW n \in Nat, NEW m \in Mem(n), NEW f \in Phys(n), NEW i \in Idx, NEW w \in Word(n)
  PROVE  LET m2 == SetWord(m, f, i, w)
         IN  /\ m2 \in Mem(n) /\ m2.used = m.used /\ m2.short = m.short
             /\ m2.word[f][i] = w
             /\ \A j \in Idx \ {i} : m2.word[f][j] = m.word[f][j]
             /\ \A g \in Phys(n) \ {f} : m2.word[g] = m.word[g]
<1> DEFINE row == [m.word[f] EXCEPT ![i] = w]
           ws  == [m.word EXCEPT ![f] = row]
<1>1. m.word \in [Phys(n) -> [Idx -> Word(n)]]
  BY MemIs
<1>2. row \in [Idx -> Word(n)] /\ row[i] = w /\ \A j \in Idx \ {i} : row[j] = m.word[f][j]
  BY <1>1
<1>3. SetWord(m, f, i, w) = [m EXCEPT !.word = ws]
  BY DEF SetWord
<1> HIDE DEF row
<1>4. /\ ws \in [Phys(n) -> [Idx -> Word(n)]] /\ ws[f] = row
      /\ \A g \in Phys(n) \ {f} : ws[g] = m.word[g]
  BY <1>1, <1>2
<1> HIDE DEF ws
<1>5. LET m2 == [m EXCEPT !.word = ws]
      IN  m2 \in Mem(n) /\ m2.used = m.used /\ m2.short = m.short /\ m2.word = ws
  BY <1>4, WithWords
<1> QED
  BY <1>2, <1>3, <1>4, <1>5

LEMMA SetWordRow ==
  ASSUME NEW n \in Nat, NEW m \in Mem(n), NEW f \in Phys(n), NEW i \in Idx, NEW w \in Word(n)
  PROVE  SetWord(m, f, i, w).word[f] = [m.word[f] EXCEPT ![i] = w]
<1>1. m.word \in [Phys(n) -> [Idx -> Word(n)]]
  BY MemIs
<1> DEFINE row == [m.word[f] EXCEPT ![i] = w]
           ws  == [m.word EXCEPT ![f] = row]
<1>2. SetWord(m, f, i, w) = [m EXCEPT !.word = ws]
  BY DEF SetWord
<1>3. row \in [Idx -> Word(n)]
  BY <1>1
<1> HIDE DEF row
<1>4. ws \in [Phys(n) -> [Idx -> Word(n)]] /\ ws[f] = row
  BY <1>1, <1>3
<1> HIDE DEF ws
<1>5. [m EXCEPT !.word = ws].word = ws
  BY <1>4, WithWords
<1> QED
  BY <1>2, <1>4, <1>5 DEF row

\* A frame is filled, and no other.
LEMMA FillIs ==
  ASSUME NEW n \in Nat, NEW m \in Mem(n), NEW f \in Phys(n), NEW row \in [Idx -> Word(n)]
  PROVE  LET m2 == [m EXCEPT !.word[f] = row]
         IN  /\ m2 \in Mem(n) /\ m2.used = m.used /\ m2.short = m.short
             /\ m2.word[f] = row
             /\ \A g \in Phys(n) \ {f} : m2.word[g] = m.word[g]
<1> DEFINE ws == [m.word EXCEPT ![f] = row]
<1>1. m.word \in [Phys(n) -> [Idx -> Word(n)]]
  BY MemIs
<1>2. [m EXCEPT !.word[f] = row] = [m EXCEPT !.word = ws]
  OBVIOUS
<1>3. /\ ws \in [Phys(n) -> [Idx -> Word(n)]] /\ ws[f] = row
      /\ \A g \in Phys(n) \ {f} : ws[g] = m.word[g]
  BY <1>1
<1> HIDE DEF ws
<1>4. LET m2 == [m EXCEPT !.word = ws]
      IN  m2 \in Mem(n) /\ m2.used = m.used /\ m2.short = m.short /\ m2.word = ws
  BY <1>3, WithWords
<1> QED
  BY <1>2, <1>3, <1>4

-----------------------------------------------------------------------------
(* The allocator, and tables made from what it gives.                       *)

\* Only taking frames leads from a to b.
Grown(a, b) == a.used \subseteq b.used /\ (a.short => b.short)

LEMMA GrownOn ==
  ASSUME NEW a, NEW b, NEW c, Grown(a, b), Grown(b, c)
  PROVE  Grown(a, c)
BY DEF Grown

\* The lowest free frame is one.
LEMMA LowestIs ==
  ASSUME NEW S, S \subseteq Nat, S # {}
  PROVE  Min(S) \in S
<1>1. \E x \in S : \A y \in S : x <= y
  BY LeastOf
<1> QED
  BY <1>1 DEF Min

LEMMA AllocIs ==
  ASSUME NEW n \in Nat \ {0}, NEW m \in Mem(n)
  PROVE  LET a == Alloc(m)
         IN  /\ a.m \in Mem(n) /\ a.f \in Phys(n) /\ a.m.word = m.word
             /\ a.f \in a.m.used /\ Grown(m, a.m)
             /\ ~a.m.short => a.f \notin m.used /\ a.m.used = m.used \cup {a.f}
<1>1. /\ n \in Nat /\ m.total = n /\ m.used \subseteq Phys(n) /\ m.count = Cardinality(m.used)
  BY MemIs
<1>2. FreeFrames(m) = Phys(n) \ m.used /\ FreeFrames(m) \subseteq Nat
  BY <1>1 DEF FreeFrames, Phys
<1>3. CASE FreeFrames(m) = {}
  <2> DEFINE m2 == [m EXCEPT !.short = TRUE]
  <2>1. m2 \in Mem(n) /\ m2.word = m.word /\ m2.used = m.used /\ m2.short = TRUE
    BY DEF Mem
  <2>2. Alloc(m) = [m |-> m2, f |-> 0]
    BY <1>3 DEF Alloc
  <2>3. 0 \in Phys(n)
    BY DEF Phys
  <2>4. 0 \in m.used
    BY <1>2, <1>3, <2>3
  <2> HIDE DEF m2
  <2> QED
    BY <2>1, <2>2, <2>3, <2>4 DEF Grown
<1>4. CASE FreeFrames(m) # {}
  <2> DEFINE f  == Min(FreeFrames(m))
             U  == m.used \cup {f}
             c  == m.count + 1
             m2 == [m EXCEPT !.used = U, !.count = c]
  <2>1. f \in FreeFrames(m)
    BY <1>2, <1>4, LowestIs
  <2>2. Alloc(m) = [m |-> m2, f |-> f]
    BY <1>4 DEF Alloc
  <2> HIDE DEF f
  <2>3. U \in SUBSET Phys(n) /\ f \notin m.used
    BY <1>1, <1>2, <2>1
  <2>4. c = Cardinality(U)
    <3>1. IsFiniteSet(m.used)
      BY <1>1, FrameSets
    <3>2. Cardinality(m.used \cup {f}) = Cardinality(m.used) + 1
      BY <2>3, <3>1, FS_AddElement
    <3> QED
      BY <1>1, <3>2
  <2>5. m2 \in Mem(n) /\ m2.word = m.word /\ m2.used = U /\ m2.short = m.short
    <3> HIDE DEF U, c
    <3>1. c \in Nat
      BY <1>1, <2>3, <2>4, FrameSets
    <3> QED
      BY <2>3, <2>4, <3>1 DEF Mem
  <2> HIDE DEF m2
  <2>6. f \in Phys(n)
    BY <1>2, <2>1
  <2> QED
    BY <2>2, <2>3, <2>5, <2>6 DEF Grown
<1> QED
  BY <1>3, <1>4

LEMMA AllocTableIs ==
  ASSUME NEW n \in Nat \ {0}, NEW m \in Mem(n)
  PROVE  LET a == AllocTable(m)
         IN  /\ a.m \in Mem(n) /\ a.f \in Phys(n) /\ a.f \in a.m.used /\ Grown(m, a.m)
             /\ a.m.word[a.f] = Blank
             /\ \A g \in Phys(n) \ {a.f} : a.m.word[g] = m.word[g]
             /\ ~a.m.short => a.f \notin m.used /\ a.m.used = m.used \cup {a.f}
<1> DEFINE got == Alloc(m)
           m2  == [got.m EXCEPT !.word[got.f] = Blank]
<1>1. /\ got.m \in Mem(n) /\ got.f \in Phys(n) /\ got.m.word = m.word
      /\ got.f \in got.m.used /\ Grown(m, got.m)
      /\ ~got.m.short => got.f \notin m.used /\ got.m.used = m.used \cup {got.f}
  BY AllocIs
<1>2. AllocTable(m) = [m |-> m2, f |-> got.f]
  BY DEF AllocTable
<1> HIDE DEF got
<1>3. /\ m2 \in Mem(n) /\ m2.used = got.m.used /\ m2.short = got.m.short /\ m2.word[got.f] = Blank
      /\ \A g \in Phys(n) \ {got.f} : m2.word[g] = got.m.word[g]
  <2>1. n \in Nat /\ Blank \in [Idx -> Word(n)]
    BY WordIs
  <2> QED
    BY <1>1, <2>1, FillIs
<1> HIDE DEF m2
<1> QED
  BY <1>1, <1>2, <1>3 DEF Grown

LEMMA NextTableType ==
  ASSUME NEW n \in Nat \ {0}, NEW m \in Mem(n), NEW t \in Phys(n), NEW i \in Idx
  PROVE  LET nt == NextTable(m, t, i)
         IN  nt.m \in Mem(n) /\ nt.f \in Phys(n) /\ Grown(m, nt.m)
<1> DEFINE new == AllocTable(m)
           m2  == SetWord(new.m, t, i, Entry(new.f))
<1>1. m.word[t][i] \in Word(n)
  BY MemIs
<1>2. CASE Present(m.word[t][i])
  <2>1. NextTable(m, t, i) = [m |-> m, f |-> FrameOf(m.word[t][i])]
    BY <1>2 DEF NextTable
  <2> QED
    BY <1>1, <1>2, <2>1 DEF Word, Grown
<1>3. CASE ~Present(m.word[t][i])
  <2>1. NextTable(m, t, i) = [m |-> m2, f |-> new.f]
    BY <1>3 DEF NextTable
  <2>2. new.m \in Mem(n) /\ new.f \in Phys(n) /\ Grown(m, new.m)
    BY AllocTableIs
  <2> HIDE DEF new
  <2>3. m2 \in Mem(n) /\ m2.used = new.m.used /\ m2.short = new.m.short
    BY <2>2, SetWordType, WordIs
  <2> HIDE DEF m2
  <2> QED
    BY <2>1, <2>2, <2>3 DEF Grown
<1> QED
  BY <1>2, <1>3

\* A virtual page's four indices.
Addresses == Idx \X Idx \X Idx \X Idx

LEMMA AddressIs ==
  /\ \A va \in Addresses : /\ va[1] \in Idx /\ va[2] \in Idx /\ va[3] \in Idx /\ va[4] \in Idx
                           /\ va = <<va[1], va[2], va[3], va[4]>>
  /\ \A va \in UserPaths : va \in Addresses /\ va[1] # 0
BY DEF Addresses, UserPaths

LEMMA MapInType ==
  ASSUME NEW n \in Nat \ {0}, NEW m \in Mem(n), NEW root \in Phys(n), NEW va \in Addresses,
         NEW frame \in Phys(n)
  PROVE  MapIn(m, root, va, frame) \in Mem(n) /\ Grown(m, MapIn(m, root, va, frame))
<1> DEFINE pdpt == NextTable(m, root, va[1])
           pd   == NextTable(pdpt.m, pdpt.f, va[2])
           pt   == NextTable(pd.m, pd.f, va[3])
           m2   == SetWord(pt.m, pt.f, va[4], Entry(frame))
<1>1. va[1] \in Idx /\ va[2] \in Idx /\ va[3] \in Idx
  BY AddressIs
<1>2. MapIn(m, root, va, frame) = m2
  BY DEF MapIn
<1>3. pdpt.m \in Mem(n) /\ pdpt.f \in Phys(n) /\ Grown(m, pdpt.m)
  BY <1>1, NextTableType
<1> HIDE DEF pdpt
<1>4. pd.m \in Mem(n) /\ pd.f \in Phys(n) /\ Grown(pdpt.m, pd.m)
  BY <1>1, <1>3, NextTableType
<1> HIDE DEF pd
<1>5. pt.m \in Mem(n) /\ pt.f \in Phys(n) /\ Grown(pd.m, pt.m)
  BY <1>1, <1>4, NextTableType
<1> HIDE DEF pt
<1>6. m2 \in Mem(n) /\ m2.used = pt.m.used /\ m2.short = pt.m.short
  BY <1>5, SetWordType, WordIs
<1> HIDE DEF m2
<1> QED
  BY <1>2, <1>3, <1>4, <1>5, <1>6 DEF Grown

LEMMA PutPageType ==
  ASSUME NEW n \in Nat \ {0}, NEW m \in Mem(n), NEW root \in Phys(n), NEW va \in Addresses,
         NEW page \in [Idx -> Word(n)]
  PROVE  PutPage(m, root, va, page) \in Mem(n) /\ Grown(m, PutPage(m, root, va, page))
<1> DEFINE got == Alloc(m)
           m2  == [got.m EXCEPT !.word[got.f] = page]
<1>1. got.m \in Mem(n) /\ got.f \in Phys(n) /\ Grown(m, got.m)
  BY AllocIs
<1>2. PutPage(m, root, va, page) = MapIn(m2, root, va, got.f)
  BY DEF PutPage
<1> HIDE DEF got
<1>3. m2 \in Mem(n) /\ m2.used = got.m.used /\ m2.short = got.m.short
  BY <1>1, FillIs
<1> HIDE DEF m2
<1>4. MapIn(m2, root, va, got.f) \in Mem(n) /\ Grown(m2, MapIn(m2, root, va, got.f))
  BY <1>1, <1>3, MapInType
<1> QED
  BY <1>1, <1>2, <1>3, <1>4 DEF Grown

-----------------------------------------------------------------------------
(* The tables under a root.                                                 *)

\* What the word of a frame names.
To(m, f, i) == FrameOf(m.word[f][i])

\* Entry i of frame f, of its level, is one of the space's own.
Slot(m, lvl, f, i) == lvl[f] < 4 /\ (lvl[f] = 0 => i # 0) /\ Present(m.word[f][i])

\* T is a tree with root r: its tables, with levels 0 to 3, and its pages, with
\* level 4.
Top(r, T, lvl)     == r \in T /\ lvl[r] = 0 /\ \A f \in T : lvl[f] = 0 => f = r
Downward(m, T, lvl) ==
  \A f \in T, i \in Idx : Slot(m, lvl, f, i) => To(m, f, i) \in T /\ lvl[To(m, f, i)] = lvl[f] + 1
NamedOnce(m, T, lvl) ==
  \A f, g \in T, i, j \in Idx :
    Slot(m, lvl, f, i) /\ Slot(m, lvl, g, j) /\ To(m, f, i) = To(m, g, j) => f = g /\ i = j
AllNamed(m, r, T, lvl) ==
  \A g \in T \ {r} : \E f \in T, i \in Idx : Slot(m, lvl, f, i) /\ To(m, f, i) = g

Tree(n, m, r, T, lvl) ==
  /\ T \subseteq Phys(n) /\ lvl \in [Phys(n) -> 0 .. 4]
  /\ Top(r, T, lvl) /\ Downward(m, T, lvl) /\ NamedOnce(m, T, lvl) /\ AllNamed(m, r, T, lvl)

\* A root that has no entries of its own.
LEMMA RootTree ==
  ASSUME NEW n \in Nat, NEW m \in Mem(n), NEW r \in Phys(n),
         \A i \in Idx \ {0} : ~Present(m.word[r][i])
  PROVE  Tree(n, m, r, {r}, [f \in Phys(n) |-> 0])
<1> DEFINE lvl == [f \in Phys(n) |-> 0]
<1> SUFFICES Tree(n, m, r, {r}, lvl)
  OBVIOUS
<1>1. lvl \in [Phys(n) -> 0 .. 4] /\ lvl[r] = 0
  OBVIOUS
<1> HIDE DEF lvl
<1>2. \A i \in Idx : ~Slot(m, lvl, r, i)
  BY <1>1 DEF Slot
<1> QED
  BY <1>1, <1>2 DEF Tree, Top, Downward, NamedOnce, AllNamed

\* A tree depends on the words of its tables only.
SameTables(T, lvl, m, m2) == \A f \in T : lvl[f] < 4 => m2.word[f] = m.word[f]

LEMMA SameTree ==
  ASSUME NEW n \in Nat, NEW m, NEW m2, NEW r, NEW T, NEW lvl, Tree(n, m, r, T, lvl),
         SameTables(T, lvl, m, m2)
  PROVE  Tree(n, m2, r, T, lvl)
<1>1. \A f \in T, i \in Idx :
        /\ Slot(m2, lvl, f, i) <=> Slot(m, lvl, f, i)
        /\ Slot(m, lvl, f, i) => To(m2, f, i) = To(m, f, i)
  BY DEF SameTables, Slot, To
<1>2. Downward(m2, T, lvl)
  BY <1>1 DEF Tree, Downward
<1>3. NamedOnce(m2, T, lvl)
  BY <1>1 DEF Tree, NamedOnce
<1>4. AllNamed(m2, r, T, lvl)
  BY <1>1 DEF Tree, AllNamed
<1> QED
  BY <1>2, <1>3, <1>4 DEF Tree

\* A frame g is hung into the tree, at entry i of frame f.
Linked(n, m, T, lvl, f, i, g, m2, l2) ==
  /\ f \in T /\ i \in Idx /\ lvl[f] < 4 /\ (lvl[f] = 0 => i # 0) /\ ~Present(m.word[f][i])
  /\ g \in Phys(n) \ T
  /\ m2.word[f][i] = Entry(g)
  /\ \A j \in Idx \ {i} : m2.word[f][j] = m.word[f][j]
  /\ \A h \in T \ {f} : m2.word[h] = m.word[h]
  /\ lvl[f] < 3 => \A j \in Idx : ~Present(m2.word[g][j])
  /\ l2 \in [Phys(n) -> 0 .. 4] /\ l2[g] = lvl[f] + 1 /\ \A h \in T : l2[h] = lvl[h]

\* The slots afterwards.
LEMMA LinkedSlots ==
  ASSUME NEW n \in Nat, NEW m, NEW m2, NEW r, NEW T, NEW lvl, Tree(n, m, r, T, lvl),
         NEW f, NEW i, NEW g, NEW l2, Linked(n, m, T, lvl, f, i, g, m2, l2)
  PROVE  /\ l2 \in [Phys(n) -> 0 .. 4] /\ l2[g] = lvl[f] + 1 /\ \A h \in T : l2[h] = lvl[h]
         /\ Slot(m2, l2, f, i) /\ To(m2, f, i) = g
         /\ \A j \in Idx : ~Slot(m2, l2, g, j)
         /\ \A h \in T, j \in Idx : ~(h = f /\ j = i) =>
              /\ Slot(m2, l2, h, j) <=> Slot(m, lvl, h, j)
              /\ Slot(m, lvl, h, j) => To(m2, h, j) = To(m, h, j)
         /\ ~Slot(m, lvl, f, i)
<1>1. /\ T \subseteq Phys(n) /\ lvl \in [Phys(n) -> 0 .. 4]
      /\ f \in T /\ i \in Idx /\ lvl[f] < 4 /\ (lvl[f] = 0 => i # 0) /\ ~Present(m.word[f][i])
      /\ g \in Phys(n) \ T /\ m2.word[f][i] = Entry(g)
      /\ lvl[f] < 3 => \A j \in Idx : ~Present(m2.word[g][j])
  BY DEF Tree, Linked
<1>2. /\ l2 \in [Phys(n) -> 0 .. 4] /\ l2[g] = lvl[f] + 1 /\ \A h \in T : l2[h] = lvl[h]
  BY DEF Linked
<1>3. g \in Nat
  BY <1>1, WordIs
<1>4. Present(m2.word[f][i]) /\ To(m2, f, i) = g
  BY <1>1, <1>3, EntryIs DEF To
<1>5. Slot(m2, l2, f, i) /\ ~Slot(m, lvl, f, i)
  BY <1>1, <1>2, <1>4 DEF Slot
<1>6. \A j \in Idx : ~Slot(m2, l2, g, j)
  BY <1>1, <1>2 DEF Slot
<1>7. \A h \in T, j \in Idx : ~(h = f /\ j = i) => m2.word[h][j] = m.word[h][j]
  BY DEF Linked
<1>8. \A h \in T, j \in Idx : ~(h = f /\ j = i) =>
              /\ Slot(m2, l2, h, j) <=> Slot(m, lvl, h, j)
              /\ Slot(m, lvl, h, j) => To(m2, h, j) = To(m, h, j)
  BY <1>2, <1>7 DEF Slot, To
<1> QED
  BY <1>2, <1>4, <1>5, <1>6, <1>8

\* It is a tree still.
LEMMA LinkedTree ==
  ASSUME NEW n \in Nat, NEW m, NEW m2, NEW r, NEW T, NEW lvl, Tree(n, m, r, T, lvl),
         NEW f, NEW i, NEW g, NEW l2, Linked(n, m, T, lvl, f, i, g, m2, l2)
  PROVE  Tree(n, m2, r, T \cup {g}, l2)
<1> DEFINE U == T \cup {g}
<1>0. /\ l2 \in [Phys(n) -> 0 .. 4] /\ l2[g] = lvl[f] + 1 /\ \A h \in T : l2[h] = lvl[h]
      /\ Slot(m2, l2, f, i) /\ To(m2, f, i) = g
      /\ \A j \in Idx : ~Slot(m2, l2, g, j)
      /\ \A h \in T, j \in Idx : ~(h = f /\ j = i) =>
              /\ Slot(m2, l2, h, j) <=> Slot(m, lvl, h, j)
              /\ Slot(m, lvl, h, j) => To(m2, h, j) = To(m, h, j)
      /\ ~Slot(m, lvl, f, i)
  BY LinkedSlots, ZenonT(30)
<1>1. /\ l2 \in [Phys(n) -> 0 .. 4] /\ l2[g] = lvl[f] + 1 /\ \A h \in T : l2[h] = lvl[h]
      /\ Slot(m2, l2, f, i) /\ To(m2, f, i) = g
      /\ \A j \in Idx : ~Slot(m2, l2, g, j)
      /\ ~Slot(m, lvl, f, i)
  BY <1>0
<1>2. \A h \in T, j \in Idx : ~(h = f /\ j = i) =>
              /\ Slot(m2, l2, h, j) <=> Slot(m, lvl, h, j)
              /\ Slot(m, lvl, h, j) => To(m2, h, j) = To(m, h, j)
  BY <1>0
<1>3. f \in T /\ i \in Idx /\ g \in Phys(n) /\ g \notin T
  BY DEF Linked
<1>4. /\ T \subseteq Phys(n) /\ lvl \in [Phys(n) -> 0 .. 4]
      /\ Top(r, T, lvl) /\ Downward(m, T, lvl) /\ NamedOnce(m, T, lvl) /\ AllNamed(m, r, T, lvl)
  BY DEF Tree
<1>5. Top(r, U, l2)
  <2>1. l2[g] # 0
    BY <1>1, <1>3, <1>4
  <2> QED
    BY <1>1, <1>3, <1>4, <2>1 DEF Top
<1>6. Downward(m2, U, l2)
  <2> SUFFICES ASSUME NEW h \in U, NEW j \in Idx, Slot(m2, l2, h, j)
               PROVE  To(m2, h, j) \in U /\ l2[To(m2, h, j)] = l2[h] + 1
    BY DEF Downward
  <2>1. h \in T
    BY <1>1
  <2>2. CASE h = f /\ j = i
    BY <1>1, <1>3, <2>2
  <2>3. CASE ~(h = f /\ j = i)
    <3>1. Slot(m, lvl, h, j) /\ To(m2, h, j) = To(m, h, j)
      BY <1>2, <2>1, <2>3
    <3>2. To(m, h, j) \in T /\ lvl[To(m, h, j)] = lvl[h] + 1
      BY <1>4, <2>1, <3>1 DEF Downward
    <3> QED
      BY <1>1, <2>1, <3>1, <3>2
  <2> QED
    BY <2>2, <2>3
<1>7. NamedOnce(m2, U, l2)
  <2> SUFFICES ASSUME NEW h \in U, NEW k \in U, NEW j \in Idx, NEW l \in Idx,
                      Slot(m2, l2, h, j), Slot(m2, l2, k, l), To(m2, h, j) = To(m2, k, l)
               PROVE  h = k /\ j = l
    BY DEF NamedOnce
  <2>1. h \in T /\ k \in T
    BY <1>1
  <2>2. ASSUME NEW x \in T, NEW y \in Idx, Slot(m2, l2, x, y), ~(x = f /\ y = i)
        PROVE  To(m2, x, y) # g
    BY <1>2, <1>3, <1>4, <2>2 DEF Downward
  <2>3. CASE (h = f /\ j = i) \/ (k = f /\ l = i)
    BY <1>1, <2>1, <2>2, <2>3
  <2>4. CASE ~(h = f /\ j = i) /\ ~(k = f /\ l = i)
    <3>1. Slot(m, lvl, h, j) /\ Slot(m, lvl, k, l) /\ To(m, h, j) = To(m, k, l)
      BY <1>2, <2>1, <2>4
    <3> QED
      BY <1>4, <2>1, <3>1 DEF NamedOnce
  <2> QED
    BY <2>3, <2>4
<1>8. AllNamed(m2, r, U, l2)
  <2> SUFFICES ASSUME NEW h \in U \ {r}
               PROVE  \E k \in U, j \in Idx : Slot(m2, l2, k, j) /\ To(m2, k, j) = h
    BY DEF AllNamed
  <2>1. CASE h = g
    BY <1>1, <1>3, <2>1
  <2>2. CASE h # g
    <3>1. PICK k \in T, j \in Idx : Slot(m, lvl, k, j) /\ To(m, k, j) = h
      BY <1>4, <2>2 DEF AllNamed
    <3>2. ~(k = f /\ j = i)
      BY <1>1, <3>1
    <3> QED
      BY <1>2, <3>1, <3>2
  <2> QED
    BY <2>1, <2>2
<1>9. U \subseteq Phys(n)
  BY <1>3, <1>4
<1> QED
  BY <1>1, <1>5, <1>6, <1>7, <1>8, <1>9 DEF Tree

-----------------------------------------------------------------------------
(* Walks.                                                                   *)

\* A walk goes down the tree.
LEMMA StepIs ==
  ASSUME NEW n \in Nat, NEW m, NEW r, NEW T, NEW lvl, Tree(n, m, r, T, lvl),
         NEW f \in T, NEW i \in Idx, lvl[f] < 4, lvl[f] = 0 => i # 0, Present(m.word[f][i])
  PROVE  Slot(m, lvl, f, i) /\ To(m, f, i) \in T /\ lvl[To(m, f, i)] = lvl[f] + 1
<1>1. Slot(m, lvl, f, i)
  BY DEF Slot
<1> QED
  BY <1>1 DEF Tree, Downward

\* The whole of one.
LEMMA WalkIs ==
  ASSUME NEW n \in Nat, NEW m, NEW r, NEW T, NEW lvl, Tree(n, m, r, T, lvl),
         NEW va \in UserPaths, IsMapped(m, r, va)
  PROVE  /\ r \in T /\ lvl[r] = 0 /\ Slot(m, lvl, r, va[1])
         /\ LET f == Pdpt(m, r, va)
            IN  f = To(m, r, va[1]) /\ f \in T /\ lvl[f] = 1 /\ Slot(m, lvl, f, va[2])
         /\ LET f == Pd(m, r, va)
            IN  f = To(m, Pdpt(m, r, va), va[2]) /\ f \in T /\ lvl[f] = 2 /\ Slot(m, lvl, f, va[3])
         /\ LET f == Pt(m, r, va)
            IN  f = To(m, Pd(m, r, va), va[3]) /\ f \in T /\ lvl[f] = 3 /\ Slot(m, lvl, f, va[4])
         /\ LET f == Page(m, r, va)
            IN  f = To(m, Pt(m, r, va), va[4]) /\ f \in T /\ lvl[f] = 4
<1> DEFINE p1 == Pdpt(m, r, va)
           p2 == Pd(m, r, va)
           p3 == Pt(m, r, va)
           p4 == Page(m, r, va)
<1>1. /\ va[1] \in Idx /\ va[2] \in Idx /\ va[3] \in Idx /\ va[4] \in Idx /\ va[1] # 0
  BY AddressIs
<1>2. /\ p1 = To(m, r, va[1]) /\ p2 = To(m, p1, va[2]) /\ p3 = To(m, p2, va[3])
      /\ p4 = To(m, p3, va[4])
  BY DEF Pdpt, Pd, Pt, Page, To
<1>3. /\ Present(m.word[r][va[1]]) /\ Present(m.word[p1][va[2]])
      /\ Present(m.word[p2][va[3]]) /\ Present(m.word[p3][va[4]])
  BY DEF IsMapped
<1>4. r \in T /\ lvl[r] = 0
  BY DEF Tree, Top
<1> HIDE DEF p1, p2, p3, p4
<1>5. Slot(m, lvl, r, va[1]) /\ p1 \in T /\ lvl[p1] = 1
  BY <1>1, <1>2, <1>3, <1>4, StepIs
<1>6. Slot(m, lvl, p1, va[2]) /\ p2 \in T /\ lvl[p2] = 2
  BY <1>1, <1>2, <1>3, <1>5, StepIs
<1>7. Slot(m, lvl, p2, va[3]) /\ p3 \in T /\ lvl[p3] = 3
  BY <1>1, <1>2, <1>3, <1>6, StepIs
<1>8. Slot(m, lvl, p3, va[4]) /\ p4 \in T /\ lvl[p4] = 4
  BY <1>1, <1>2, <1>3, <1>7, StepIs
<1> QED
  BY <1>2, <1>4, <1>5, <1>6, <1>7, <1>8 DEF p1, p2, p3, p4

\* A page is at one address only.
LEMMA WalkOnce ==
  ASSUME NEW n \in Nat, NEW m, NEW r, NEW T, NEW lvl, Tree(n, m, r, T, lvl),
         NEW va \in UserPaths, IsMapped(m, r, va), NEW vb \in UserPaths, IsMapped(m, r, vb),
         Page(m, r, va) = Page(m, r, vb)
  PROVE  va = vb
<1>1. /\ va[1] \in Idx /\ va[2] \in Idx /\ va[3] \in Idx /\ va[4] \in Idx
      /\ vb[1] \in Idx /\ vb[2] \in Idx /\ vb[3] \in Idx /\ vb[4] \in Idx
      /\ va = <<va[1], va[2], va[3], va[4]>> /\ vb = <<vb[1], vb[2], vb[3], vb[4]>>
  BY AddressIs
<1>2. \A f, g \in T, i, j \in Idx :
        Slot(m, lvl, f, i) /\ Slot(m, lvl, g, j) /\ To(m, f, i) = To(m, g, j) => f = g /\ i = j
  BY DEF Tree, NamedOnce
<1>3. Pt(m, r, va) = Pt(m, r, vb) /\ va[4] = vb[4]
  BY <1>1, <1>2, WalkIs
<1>4. Pd(m, r, va) = Pd(m, r, vb) /\ va[3] = vb[3]
  BY <1>1, <1>2, <1>3, WalkIs
<1>5. Pdpt(m, r, va) = Pdpt(m, r, vb) /\ va[2] = vb[2]
  BY <1>1, <1>2, <1>4, WalkIs
<1>6. va[1] = vb[1]
  BY <1>1, <1>2, <1>5, WalkIs
<1> QED
  BY <1>1, <1>3, <1>4, <1>5, <1>6

\* A walk whose entries have stayed goes where it went.
LEMMA WalkKept ==
  ASSUME NEW m, NEW m2, NEW r, NEW va, IsMapped(m, r, va),
         m2.word[r][va[1]] = m.word[r][va[1]],
         m2.word[Pdpt(m, r, va)][va[2]] = m.word[Pdpt(m, r, va)][va[2]],
         m2.word[Pd(m, r, va)][va[3]] = m.word[Pd(m, r, va)][va[3]],
         m2.word[Pt(m, r, va)][va[4]] = m.word[Pt(m, r, va)][va[4]]
  PROVE  IsMapped(m2, r, va) /\ Pt(m2, r, va) = Pt(m, r, va) /\ Page(m2, r, va) = Page(m, r, va)
<1>1. Pdpt(m2, r, va) = Pdpt(m, r, va)
  BY DEF Pdpt
<1>2. Pd(m2, r, va) = Pd(m, r, va)
  BY <1>1 DEF Pd
<1>3. Pt(m2, r, va) = Pt(m, r, va)
  BY <1>2 DEF Pt
<1>4. Page(m2, r, va) = Page(m, r, va)
  BY <1>3 DEF Page
<1> QED
  BY <1>1, <1>2, <1>3, <1>4 DEF IsMapped

\* A frame is hung into the tree: the walks there were stay, and one that is new
\* ends in the frame.
LEMMA LinkedWalks ==
  ASSUME NEW n \in Nat, NEW m, NEW m2, NEW r, NEW T, NEW lvl, Tree(n, m, r, T, lvl),
         NEW f, NEW i, NEW g, NEW l2, Linked(n, m, T, lvl, f, i, g, m2, l2),
         NEW va \in UserPaths
  PROVE  /\ IsMapped(m, r, va) =>
              IsMapped(m2, r, va) /\ Pt(m2, r, va) = Pt(m, r, va) /\ Page(m2, r, va) = Page(m, r, va)
         /\ IsMapped(m2, r, va) /\ ~IsMapped(m, r, va) => lvl[f] = 3 /\ Page(m2, r, va) = g
<1>1. /\ f \in T /\ i \in Idx /\ g \notin T /\ lvl[f] < 4
      /\ l2[g] = lvl[f] + 1 /\ \A h \in T : l2[h] = lvl[h]
  BY DEF Linked
<1>2. ~Slot(m, lvl, f, i) /\ To(m2, f, i) = g /\ \A j \in Idx : ~Slot(m2, l2, g, j)
  BY LinkedSlots
<1>3. \A h \in T, j \in Idx : ~(h = f /\ j = i) => m2.word[h][j] = m.word[h][j]
  BY DEF Linked
<1>4. /\ va[1] \in Idx /\ va[2] \in Idx /\ va[3] \in Idx /\ va[4] \in Idx
  BY AddressIs
<1>5. ASSUME IsMapped(m, r, va)
      PROVE  IsMapped(m2, r, va) /\ Pt(m2, r, va) = Pt(m, r, va) /\ Page(m2, r, va) = Page(m, r, va)
  <2>1. \A h \in T, j \in Idx : Slot(m, lvl, h, j) => m2.word[h][j] = m.word[h][j]
    BY <1>2, <1>3
  <2>2. /\ m2.word[r][va[1]] = m.word[r][va[1]]
        /\ m2.word[Pdpt(m, r, va)][va[2]] = m.word[Pdpt(m, r, va)][va[2]]
        /\ m2.word[Pd(m, r, va)][va[3]] = m.word[Pd(m, r, va)][va[3]]
        /\ m2.word[Pt(m, r, va)][va[4]] = m.word[Pt(m, r, va)][va[4]]
    BY <1>4, <1>5, <2>1, WalkIs
  <2> QED
    BY <1>5, <2>2, WalkKept
<1>6. ASSUME IsMapped(m2, r, va), ~IsMapped(m, r, va)
      PROVE  lvl[f] = 3 /\ Page(m2, r, va) = g
  <2> DEFINE U  == T \cup {g}
             p1 == Pdpt(m2, r, va)
             p2 == Pd(m2, r, va)
             p3 == Pt(m2, r, va)
             p4 == Page(m2, r, va)
  <2>1. Tree(n, m2, r, U, l2)
    BY LinkedTree
  <2>2. /\ r \in U /\ Slot(m2, l2, r, va[1])
        /\ p1 = To(m2, r, va[1]) /\ p1 \in U /\ Slot(m2, l2, p1, va[2])
        /\ p2 = To(m2, p1, va[2]) /\ p2 \in U /\ Slot(m2, l2, p2, va[3])
        /\ p3 = To(m2, p2, va[3]) /\ p3 \in U /\ Slot(m2, l2, p3, va[4]) /\ l2[p3] = 3
        /\ p4 = To(m2, p3, va[4])
    <3> HIDE DEF U
    <3> QED
      BY <1>6, <2>1, WalkIs
  <2>3. r \in T /\ p1 \in T /\ p2 \in T /\ p3 \in T
    <3> HIDE DEF p1, p2, p3, p4
    <3> QED
      BY <1>2, <1>4, <2>2
  <2>4. ~(r = f /\ va[1] = i) /\ ~(p1 = f /\ va[2] = i) /\ ~(p2 = f /\ va[3] = i)
    <3> HIDE DEF p1, p2, p3, p4
    <3> QED
      BY <1>1, <1>2, <2>2, <2>3
  <2>5. p3 = f /\ va[4] = i
    <3> SUFFICES ASSUME ~(p3 = f /\ va[4] = i) PROVE FALSE
      OBVIOUS
    <3>1. /\ m.word[r][va[1]] = m2.word[r][va[1]]
          /\ m.word[p1][va[2]] = m2.word[p1][va[2]]
          /\ m.word[p2][va[3]] = m2.word[p2][va[3]]
          /\ m.word[p3][va[4]] = m2.word[p3][va[4]]
      <4> HIDE DEF p1, p2, p3, p4
      <4> QED
        BY <1>3, <1>4, <2>3, <2>4
    <3> QED
      BY <1>6, <3>1, WalkKept
  <2> HIDE DEF p3, p4
  <2>6. p4 = g /\ lvl[f] = 3
    BY <1>1, <1>2, <2>2, <2>3, <2>5
  <2> QED
    BY <2>6 DEF p4
<1> QED
  BY <1>5, <1>6

\* What is at an address.
Row(m, r, va) == m.word[Page(m, r, va)]

\* A table is hung into the tree: nothing more is mapped.
LEMMA LinkTable ==
  ASSUME NEW n \in Nat, NEW m, NEW m2, NEW r, NEW T, NEW lvl, Tree(n, m, r, T, lvl),
         NEW f, NEW i, NEW g, NEW l2, Linked(n, m, T, lvl, f, i, g, m2, l2), lvl[f] # 3
  PROVE  /\ Mapped(m2, r) = Mapped(m, r)
         /\ \A va \in Mapped(m, r) : Page(m2, r, va) = Page(m, r, va)
<1>1. \A va \in UserPaths :
         /\ IsMapped(m2, r, va) <=> IsMapped(m, r, va)
         /\ IsMapped(m, r, va) => Page(m2, r, va) = Page(m, r, va)
  BY LinkedWalks
<1> QED
  BY <1>1 DEF Mapped

\* A page is hung in where the walk along va has come to a table: it is what va
\* names then.
LEMMA LinkPage ==
  ASSUME NEW n \in Nat, NEW m, NEW m2, NEW r, NEW T, NEW lvl, Tree(n, m, r, T, lvl),
         NEW f, NEW i, NEW g, NEW l2, Linked(n, m, T, lvl, f, i, g, m2, l2),
         NEW va \in UserPaths, IsMapped(m2, r, va), Pt(m2, r, va) = f, va[4] = i
  PROVE  /\ Mapped(m2, r) = Mapped(m, r) \cup {va} /\ va \notin Mapped(m, r)
         /\ \A x \in Mapped(m, r) : Page(m2, r, x) = Page(m, r, x)
         /\ Page(m2, r, va) = g
<1>1. Page(m2, r, va) = g
  BY LinkedSlots DEF Page, To
<1>2. \A x \in UserPaths :
         /\ IsMapped(m, r, x) => IsMapped(m2, r, x) /\ Page(m2, r, x) = Page(m, r, x)
         /\ IsMapped(m2, r, x) /\ ~IsMapped(m, r, x) => Page(m2, r, x) = g
  BY LinkedWalks
<1>3. Tree(n, m2, r, T \cup {g}, l2)
  BY LinkedTree
<1>4. \A x \in UserPaths : IsMapped(m2, r, x) /\ ~IsMapped(m, r, x) => x = va
  <2> DEFINE U == T \cup {g}
  <2>1. Tree(n, m2, r, U, l2)
    BY <1>3
  <2> HIDE DEF U
  <2> QED
    BY <1>1, <1>2, <2>1, WalkOnce
<1>5. ~IsMapped(m, r, va)
  <2>1. g \notin T
    BY DEF Linked
  <2>2. IsMapped(m, r, va) => Page(m, r, va) \in T
    BY WalkIs
  <2> QED
    BY <1>1, <1>2, <2>1, <2>2
<1> QED
  BY <1>1, <1>2, <1>4, <1>5 DEF Mapped

-----------------------------------------------------------------------------
(* Tables on the way to a page.                                             *)

\* From m on the tree T, l has only taken frames that were free, for tables that
\* map no page yet.
Grew(n, r, m, T, lvl, m2, T2, l2) ==
  /\ Tree(n, m2, r, T2, l2) /\ T \subseteq T2 /\ \A h \in T : l2[h] = lvl[h]
  /\ m2.used = m.used \cup T2 /\ T2 \cap m.used = T
  /\ \A h \in m.used \ T : m2.word[h] = m.word[h]
  /\ \A h \in T, j \in Idx : Slot(m, lvl, h, j) => m2.word[h][j] = m.word[h][j]
  /\ \A h \in T : lvl[h] = 4 => m2.word[h] = m.word[h]
  /\ Mapped(m2, r) = Mapped(m, r)
  /\ \A va \in Mapped(m, r) : Page(m2, r, va) = Page(m, r, va)

LEMMA GrewIs ==
  ASSUME NEW n, NEW r, NEW m, NEW T, NEW lvl, NEW m2, NEW T2, NEW l2,
         Grew(n, r, m, T, lvl, m2, T2, l2)
  PROVE  /\ Tree(n, m2, r, T2, l2) /\ T2 \subseteq m2.used
         /\ \A h \in T : h \in T2 /\ l2[h] = lvl[h]
         /\ \A h \in T, j \in Idx : Slot(m, lvl, h, j) => m2.word[h][j] = m.word[h][j]
BY DEF Grew

LEMMA GrewNone ==
  ASSUME NEW n, NEW r, NEW m, NEW T, NEW lvl, Tree(n, m, r, T, lvl), T \subseteq m.used
  PROVE  Grew(n, r, m, T, lvl, m, T, lvl)
BY DEF Grew

LEMMA GrewOn ==
  ASSUME NEW n, NEW r, NEW m, NEW T, NEW lvl, NEW m2, NEW T2, NEW l2, NEW m3, NEW T3, NEW l3,
         Grew(n, r, m, T, lvl, m2, T2, l2), Grew(n, r, m2, T2, l2, m3, T3, l3)
  PROVE  Grew(n, r, m, T, lvl, m3, T3, l3)
<1>1. /\ T \subseteq T2 /\ \A h \in T : l2[h] = lvl[h]
      /\ m2.used = m.used \cup T2 /\ T2 \cap m.used = T
  BY DEF Grew
<1>2. /\ T2 \subseteq T3 /\ \A h \in T2 : l3[h] = l2[h]
      /\ m3.used = m2.used \cup T3 /\ T3 \cap m2.used = T2
  BY DEF Grew
<1>3. /\ T \subseteq T3 /\ \A h \in T : l3[h] = lvl[h]
      /\ m3.used = m.used \cup T3 /\ T3 \cap m.used = T
  BY <1>1, <1>2
<1>4. \A h \in m.used \ T : m3.word[h] = m.word[h]
  <2>1. \A h \in m.used \ T : h \in m2.used \ T2
    BY <1>1
  <2> QED
    BY <2>1 DEF Grew
<1>5. \A h \in T, j \in Idx : Slot(m, lvl, h, j) => m3.word[h][j] = m.word[h][j]
  <2> SUFFICES ASSUME NEW h \in T, NEW j \in Idx, Slot(m, lvl, h, j)
               PROVE  m3.word[h][j] = m.word[h][j]
    OBVIOUS
  <2>1. m2.word[h][j] = m.word[h][j]
    BY DEF Grew
  <2>2. h \in T2 /\ Slot(m2, l2, h, j)
    BY <1>1, <2>1 DEF Slot
  <2>3. m3.word[h][j] = m2.word[h][j]
    BY <2>2 DEF Grew
  <2> QED
    BY <2>1, <2>3
<1>6. \A h \in T : lvl[h] = 4 => m3.word[h] = m.word[h]
  <2> SUFFICES ASSUME NEW h \in T, lvl[h] = 4
               PROVE  m3.word[h] = m.word[h]
    OBVIOUS
  <2>1. h \in T2 /\ l2[h] = 4
    BY <1>1
  <2>2. m2.word[h] = m.word[h] /\ m3.word[h] = m2.word[h]
    BY <2>1 DEF Grew
  <2> QED
    BY <2>2
<1>7. /\ Mapped(m3, r) = Mapped(m, r)
      /\ \A va \in Mapped(m, r) : Page(m3, r, va) = Page(m, r, va)
  BY DEF Grew
<1> QED
  BY <1>3, <1>4, <1>5, <1>6, <1>7 DEF Grew

\* In m2, entry i of t leads to g, a table further down.
Down(n, r, m, T, lvl, t, i, m2, g, T2, l2) ==
  /\ Grew(n, r, m, T, lvl, m2, T2, l2)
  /\ g \in T2 /\ l2[g] = lvl[t] + 1
  /\ Present(m2.word[t][i]) /\ To(m2, t, i) = g

\* next_table, if memory lasts.
LEMMA DownIs ==
  ASSUME NEW n \in Nat \ {0}, NEW m \in Mem(n), NEW r, NEW T, NEW lvl, Tree(n, m, r, T, lvl),
         T \subseteq m.used, NEW t \in T, NEW i \in Idx, lvl[t] < 3, lvl[t] = 0 => i # 0,
         ~NextTable(m, t, i).m.short
  PROVE  \E T2, l2 :
           Down(n, r, m, T, lvl, t, i, NextTable(m, t, i).m, NextTable(m, t, i).f, T2, l2)
<1> DEFINE nt  == NextTable(m, t, i)
           new == AllocTable(m)
           m2  == SetWord(new.m, t, i, Entry(new.f))
           g   == new.f
           l2  == [h \in Phys(n) |-> IF h = g THEN lvl[t] + 1 ELSE lvl[h]]
<1>1. n \in Nat /\ T \subseteq Phys(n) /\ lvl \in [Phys(n) -> 0 .. 4] /\ m.used \subseteq Phys(n)
  BY MemIs DEF Tree
<1>2. CASE Present(m.word[t][i])
  <2>1. nt.m = m /\ nt.f = To(m, t, i)
    BY <1>2 DEF NextTable, To
  <2>2. To(m, t, i) \in T /\ lvl[To(m, t, i)] = lvl[t] + 1
    BY <1>1, <1>2, StepIs
  <2>3. Grew(n, r, m, T, lvl, m, T, lvl)
    BY GrewNone
  <2> HIDE DEF nt
  <2>4. Down(n, r, m, T, lvl, t, i, nt.m, nt.f, T, lvl)
    BY <1>2, <2>1, <2>2, <2>3 DEF Down
  <2> QED
    BY <2>4 DEF nt
<1>3. CASE ~Present(m.word[t][i])
  <2>1. nt.m = m2 /\ nt.f = g
    BY <1>3 DEF NextTable
  <2>2. /\ new.m \in Mem(n) /\ g \in Phys(n) /\ new.m.word[g] = Blank
        /\ \A h \in Phys(n) \ {g} : new.m.word[h] = m.word[h]
        /\ ~new.m.short => g \notin m.used /\ new.m.used = m.used \cup {g}
    BY AllocTableIs
  <2>3. Entry(g) \in Word(n)
    BY <1>1, <2>2, WordIs
  <2> HIDE DEF new, g, l2
  <2>4. /\ m2.used = new.m.used /\ m2.short = new.m.short
        /\ m2.word[t][i] = Entry(g)
        /\ \A j \in Idx \ {i} : m2.word[t][j] = new.m.word[t][j]
        /\ \A h \in Phys(n) \ {t} : m2.word[h] = new.m.word[h]
    <3>1. t \in Phys(n)
      BY <1>1
    <3> HIDE DEF m2
    <3> QED
      BY <1>1, <2>2, <2>3, <3>1, SetWordIs DEF m2, g
  <2> HIDE DEF m2
  <2>5. g \notin m.used /\ g \notin T /\ m2.used = m.used \cup {g}
    <3>1. ~m2.short
      BY <2>1
    <3> QED
      BY <2>2, <2>4, <3>1
  <2>6. l2 \in [Phys(n) -> 0 .. 4] /\ l2[g] = lvl[t] + 1 /\ \A h \in T : l2[h] = lvl[h]
    <3>1. lvl[t] + 1 \in 0 .. 4
      BY <1>1
    <3>2. \A h \in T : h \in Phys(n) /\ h # g
      BY <1>1, <2>5
    <3> DEFINE x == lvl[t] + 1
    <3> HIDE DEF x
    <3>3. l2 = [h \in Phys(n) |-> IF h = g THEN x ELSE lvl[h]]
      BY DEF l2, x
    <3> QED
      BY <1>1, <2>2, <3>1, <3>2, <3>3 DEF x
  <2>7. /\ \A j \in Idx \ {i} : m2.word[t][j] = m.word[t][j]
        /\ \A h \in T \ {t} : m2.word[h] = m.word[h]
        /\ \A h \in m.used \ T : m2.word[h] = m.word[h]
    BY <1>1, <2>2, <2>4, <2>5
  <2>8. \A j \in Idx : ~Present(m2.word[g][j])
    <3>1. m2.word[g] = Blank
      BY <2>2, <2>4, <2>5
    <3> QED
      BY <3>1, EntryIs DEF Blank
  <2>9. Linked(n, m, T, lvl, t, i, g, m2, l2)
    BY <1>1, <1>3, <2>2, <2>4, <2>5, <2>6, <2>7, <2>8 DEF Linked
  <2> DEFINE T2 == T \cup {g}
  <2>10. Tree(n, m2, r, T2, l2)
    BY <2>9, LinkedTree
  <2>11. /\ Mapped(m2, r) = Mapped(m, r)
         /\ \A va \in Mapped(m, r) : Page(m2, r, va) = Page(m, r, va)
    BY <2>9, LinkTable
  <2>12. \A h \in T, j \in Idx : Slot(m, lvl, h, j) => m2.word[h][j] = m.word[h][j]
    <3>1. ~Slot(m, lvl, t, i)
      BY <1>3 DEF Slot
    <3> QED
      BY <2>7, <3>1
  <2>13. Grew(n, r, m, T, lvl, m2, T2, l2)
    BY <2>5, <2>6, <2>7, <2>10, <2>11, <2>12 DEF Grew
  <2>14. g \in T2 /\ Present(m2.word[t][i]) /\ To(m2, t, i) = g
    <3>1. g \in Nat
      BY <1>1, <2>2, WordIs
    <3> QED
      BY <2>4, <3>1, EntryIs DEF To
  <2> HIDE DEF T2, nt
  <2>15. Down(n, r, m, T, lvl, t, i, nt.m, nt.f, T2, l2)
    BY <2>1, <2>6, <2>13, <2>14 DEF Down
  <2> QED
    BY <2>15 DEF nt
<1> QED
  BY <1>2, <1>3

\* A walk is the same where the tree's words are.
LEMMA SameWalks ==
  ASSUME NEW n \in Nat, NEW m, NEW m2, NEW r, NEW T, NEW lvl, Tree(n, m, r, T, lvl),
         SameTables(T, lvl, m, m2)
  PROVE  /\ Mapped(m2, r) = Mapped(m, r)
         /\ \A va \in Mapped(m, r) : Page(m2, r, va) = Page(m, r, va)
<1>1. Tree(n, m2, r, T, lvl)
  BY SameTree
<1>2. ASSUME NEW va \in UserPaths, IsMapped(m, r, va)
      PROVE  IsMapped(m2, r, va) /\ Page(m2, r, va) = Page(m, r, va)
  <2>1. /\ m2.word[r][va[1]] = m.word[r][va[1]]
        /\ m2.word[Pdpt(m, r, va)][va[2]] = m.word[Pdpt(m, r, va)][va[2]]
        /\ m2.word[Pd(m, r, va)][va[3]] = m.word[Pd(m, r, va)][va[3]]
        /\ m2.word[Pt(m, r, va)][va[4]] = m.word[Pt(m, r, va)][va[4]]
    BY <1>2, WalkIs DEF SameTables
  <2> QED
    BY <1>2, <2>1, WalkKept
<1>3. ASSUME NEW va \in UserPaths, IsMapped(m2, r, va)
      PROVE  IsMapped(m, r, va)
  <2>1. /\ m.word[r][va[1]] = m2.word[r][va[1]]
        /\ m.word[Pdpt(m2, r, va)][va[2]] = m2.word[Pdpt(m2, r, va)][va[2]]
        /\ m.word[Pd(m2, r, va)][va[3]] = m2.word[Pd(m2, r, va)][va[3]]
        /\ m.word[Pt(m2, r, va)][va[4]] = m2.word[Pt(m2, r, va)][va[4]]
    BY <1>1, <1>3, WalkIs DEF SameTables
  <2> QED
    BY <1>3, <2>1, WalkKept
<1> QED
  BY <1>2, <1>3 DEF Mapped

\* Three tables further down from the root, along va.
Downs(n, r, m, T, lvl, va, m1, f1, T1, l1, m2, f2, T2, l2, m3, f3, T3, l3) ==
  /\ Down(n, r, m, T, lvl, r, va[1], m1, f1, T1, l1)
  /\ Down(n, r, m1, T1, l1, f1, va[2], m2, f2, T2, l2)
  /\ Down(n, r, m2, T2, l2, f2, va[3], m3, f3, T3, l3)

LEMMA DownToPage ==
  ASSUME NEW n \in Nat, NEW r, NEW m, NEW T, NEW lvl, Tree(n, m, r, T, lvl),
         NEW va \in UserPaths,
         NEW m1, NEW f1, NEW T1, NEW l1, NEW m2, NEW f2, NEW T2, NEW l2,
         NEW m3, NEW f3, NEW T3, NEW l3,
         Downs(n, r, m, T, lvl, va, m1, f1, T1, l1, m2, f2, T2, l2, m3, f3, T3, l3)
  PROVE  /\ Grew(n, r, m, T, lvl, m3, T3, l3)
         /\ r \in T3 /\ l3[r] = 0
         /\ Pdpt(m3, r, va) = f1 /\ f1 \in T3 /\ l3[f1] = 1
         /\ Pd(m3, r, va) = f2 /\ f2 \in T3 /\ l3[f2] = 2
         /\ Pt(m3, r, va) = f3 /\ f3 \in T3 /\ l3[f3] = 3
         /\ Present(m3.word[r][va[1]]) /\ Present(m3.word[f1][va[2]])
         /\ Present(m3.word[f2][va[3]])
<1>1. /\ va[1] \in Idx /\ va[2] \in Idx /\ va[3] \in Idx /\ va[1] # 0
  BY AddressIs
<1>2. r \in T /\ lvl[r] = 0
  BY DEF Tree, Top
<1>3. /\ Grew(n, r, m, T, lvl, m1, T1, l1) /\ f1 \in T1 /\ l1[f1] = 1
      /\ Present(m1.word[r][va[1]]) /\ To(m1, r, va[1]) = f1
  BY <1>2 DEF Downs, Down
<1>4. /\ Grew(n, r, m1, T1, l1, m2, T2, l2) /\ f2 \in T2 /\ l2[f2] = 2
      /\ Present(m2.word[f1][va[2]]) /\ To(m2, f1, va[2]) = f2
  BY <1>3 DEF Downs, Down
<1>5. /\ Grew(n, r, m2, T2, l2, m3, T3, l3) /\ f3 \in T3 /\ l3[f3] = 3
      /\ Present(m3.word[f2][va[3]]) /\ To(m3, f2, va[3]) = f3
  BY <1>4 DEF Downs, Down
<1>6. Grew(n, r, m1, T1, l1, m3, T3, l3)
  BY <1>4, <1>5, GrewOn
<1>7. Grew(n, r, m, T, lvl, m3, T3, l3)
  BY <1>3, <1>6, GrewOn
<1>8. r \in T1 /\ l1[r] = 0 /\ r \in T3 /\ l3[r] = 0
  BY <1>2, <1>3, <1>7, GrewIs
<1>9. f1 \in T2 /\ l2[f1] = 1 /\ f1 \in T3 /\ l3[f1] = 1
  BY <1>3, <1>4, <1>6, GrewIs
<1>10. f2 \in T3 /\ l3[f2] = 2
  BY <1>4, <1>5, GrewIs
<1>11. m3.word[r][va[1]] = m1.word[r][va[1]]
  <2>1. Slot(m1, l1, r, va[1])
    BY <1>1, <1>3, <1>8 DEF Slot
  <2> QED
    BY <1>1, <1>6, <1>8, <2>1, GrewIs
<1>12. m3.word[f1][va[2]] = m2.word[f1][va[2]]
  <2>1. Slot(m2, l2, f1, va[2])
    BY <1>4, <1>9 DEF Slot
  <2> QED
    BY <1>1, <1>5, <1>9, <2>1, GrewIs
<1>13. Pdpt(m3, r, va) = f1
  BY <1>3, <1>11 DEF Pdpt, To
<1>14. Pd(m3, r, va) = f2
  BY <1>4, <1>12, <1>13 DEF Pd, To
<1>15. Pt(m3, r, va) = f3
  BY <1>5, <1>14 DEF Pt, To
<1>16. Present(m3.word[r][va[1]]) /\ Present(m3.word[f1][va[2]])
  BY <1>3, <1>4, <1>11, <1>12
<1> QED
  BY <1>5, <1>7, <1>8, <1>9, <1>10, <1>13, <1>14, <1>15, <1>16

\* The walk along va has come to page table f3.
AtTable(m, r, T, lvl, va, f1, f2, f3) ==
  /\ Pdpt(m, r, va) = f1 /\ f1 \in T /\ lvl[f1] = 1
  /\ Pd(m, r, va) = f2 /\ f2 \in T /\ lvl[f2] = 2
  /\ Pt(m, r, va) = f3 /\ f3 \in T /\ lvl[f3] = 3
  /\ Present(m.word[r][va[1]]) /\ Present(m.word[f1][va[2]])
  /\ Present(m.word[f2][va[3]])

\* Page g has been hung there, by which m has become m2.
Hung(n, m, r, T, va, f3, g, m2) ==
  /\ m2 \in Mem(n) /\ m2.used = m.used /\ m2.short = m.short
  /\ \E l2 : Tree(n, m2, r, T \cup {g}, l2)
  /\ \A h \in Phys(n) \ {f3} : m2.word[h] = m.word[h]
  /\ Mapped(m2, r) = Mapped(m, r) \cup {va}
  /\ \A x \in Mapped(m, r) : Row(m2, r, x) = Row(m, r, x)
  /\ Row(m2, r, va) = m.word[g]

LEMMA HangIs ==
  ASSUME NEW n \in Nat, NEW m \in Mem(n), NEW r, NEW T, NEW lvl, Tree(n, m, r, T, lvl),
         NEW va \in UserPaths, NEW f1, NEW f2, NEW f3, AtTable(m, r, T, lvl, va, f1, f2, f3),
         va \notin Mapped(m, r), NEW g \in Phys(n) \ T
  PROVE  Hung(n, m, r, T, va, f3, g, SetWord(m, f3, va[4], Entry(g)))
<1> DEFINE m2 == SetWord(m, f3, va[4], Entry(g))
           l2 == [h \in Phys(n) |-> IF h = g THEN 4 ELSE lvl[h]]
<1>1. /\ va[1] \in Idx /\ va[2] \in Idx /\ va[3] \in Idx /\ va[4] \in Idx /\ va[1] # 0
  BY AddressIs
<1>2. T \subseteq Phys(n) /\ lvl \in [Phys(n) -> 0 .. 4] /\ r \in T /\ lvl[r] = 0
  BY DEF Tree, Top
<1>17. /\ Pdpt(m, r, va) = f1 /\ f1 \in T /\ lvl[f1] = 1
       /\ Pd(m, r, va) = f2 /\ f2 \in T /\ lvl[f2] = 2
       /\ Pt(m, r, va) = f3 /\ f3 \in T /\ lvl[f3] = 3
       /\ Present(m.word[r][va[1]]) /\ Present(m.word[f1][va[2]])
       /\ Present(m.word[f2][va[3]])
  BY DEF AtTable
<1>3. Entry(g) \in Word(n) /\ f3 \in Phys(n)
  <2>1. f3 \in Phys(n)
    BY <1>17, <1>2
  <2>2. Entry(g) \in Word(n)
    BY WordIs
  <2> QED
    BY <2>1, <2>2
<1>4. /\ m2 \in Mem(n) /\ m2.used = m.used /\ m2.short = m.short
      /\ m2.word[f3][va[4]] = Entry(g)
      /\ \A j \in Idx \ {va[4]} : m2.word[f3][j] = m.word[f3][j]
      /\ \A h \in Phys(n) \ {f3} : m2.word[h] = m.word[h]
  BY <1>17, <1>1, <1>3, SetWordIs, SMTT(30)
<1> HIDE DEF m2
<1>5. l2 \in [Phys(n) -> 0 .. 4] /\ l2[g] = 4 /\ \A h \in T : l2[h] = lvl[h]
  BY <1>2
<1> HIDE DEF l2
<1>6. ~Present(m.word[f3][va[4]])
  BY <1>17 DEF Mapped, IsMapped
<1>7. Linked(n, m, T, lvl, f3, va[4], g, m2, l2)
  <2>1. \A h \in T \ {f3} : m2.word[h] = m.word[h]
    BY <1>17, <1>2, <1>4
  <2> QED
    BY <1>17, <1>1, <1>4, <1>5, <1>6, <2>1 DEF Linked
<1>8. Tree(n, m2, r, T \cup {g}, l2)
  BY <1>7, LinkedTree
<1>9. m2.word[r] = m.word[r] /\ m2.word[f1] = m.word[f1] /\ m2.word[f2] = m.word[f2]
  BY <1>17, <1>2, <1>4
<1>10. Pdpt(m2, r, va) = f1
  BY <1>17, <1>9 DEF Pdpt
<1>11. Pd(m2, r, va) = f2
  BY <1>17, <1>9, <1>10 DEF Pd
<1>12. Pt(m2, r, va) = f3
  BY <1>17, <1>9, <1>11 DEF Pt
<1>13. IsMapped(m2, r, va)
  <2>1. Present(m2.word[f3][va[4]])
    <3>1. g \in Nat
      BY WordIs
    <3>2. Present(Entry(g))
      BY <3>1, EntryIs
    <3> QED
      BY <1>4, <3>2
  <2> QED
    BY <1>17, <1>9, <1>10, <1>11, <1>12, <2>1 DEF IsMapped
<1>14. /\ Mapped(m2, r) = Mapped(m, r) \cup {va}
       /\ \A x \in Mapped(m, r) : Page(m2, r, x) = Page(m, r, x)
       /\ Page(m2, r, va) = g
  <2>1. /\ Mapped(m2, r) = Mapped(m, r) \cup {va} /\ va \notin Mapped(m, r)
        /\ \A x \in Mapped(m, r) : Page(m2, r, x) = Page(m, r, x)
        /\ Page(m2, r, va) = g
    BY <1>17, <1>1, <1>7, <1>12, <1>13, LinkPage
  <2> QED
    BY <2>1
<1>15. Row(m2, r, va) = m.word[g]
  BY <1>17, <1>2, <1>4, <1>14 DEF Row
<1>16. \A x \in Mapped(m, r) : Row(m2, r, x) = Row(m, r, x)
  <2> SUFFICES ASSUME NEW x \in Mapped(m, r) PROVE Row(m2, r, x) = Row(m, r, x)
    OBVIOUS
  <2>1. x \in UserPaths /\ IsMapped(m, r, x)
    BY DEF Mapped
  <2>2. Page(m, r, x) \in T /\ lvl[Page(m, r, x)] = 4
    BY <2>1, WalkIs
  <2>3. m2.word[Page(m, r, x)] = m.word[Page(m, r, x)]
    BY <1>17, <1>2, <1>4, <2>2
  <2> QED
    BY <1>14, <2>3 DEF Row
<1> QED
  BY <1>4, <1>8, <1>14, <1>15, <1>16 DEF Hung, m2

\* A space under r has been built in m, of frames that were free in b; what was
\* in use then has stayed as it was.
Built(n, b, r, m) ==
  /\ \E T, lvl : Tree(n, m, r, T, lvl) /\ m.used = b.used \cup T /\ T \cap b.used = {}
  /\ \A h \in b.used : m.word[h] = b.word[h]

\* One page more, with what is in it.
More(r, m, va, page, m2) ==
  /\ Mapped(m2, r) = Mapped(m, r) \cup {va}
  /\ \A x \in Mapped(m, r) : Row(m2, r, x) = Row(m, r, x)
  /\ Row(m2, r, va) = page

LEMMA PutPageIs ==
  ASSUME NEW n \in Nat \ {0}, NEW b, NEW r, NEW m \in Mem(n), Built(n, b, r, m),
         NEW va \in UserPaths, va \notin Mapped(m, r), NEW page \in [Idx -> Word(n)],
         ~PutPage(m, r, va, page).short
  PROVE  /\ Built(n, b, r, PutPage(m, r, va, page))
         /\ More(r, m, va, page, PutPage(m, r, va, page))
<1> DEFINE got  == Alloc(m)
           g    == got.f
           m0   == [got.m EXCEPT !.word[g] = page]
           pdpt == NextTable(m0, r, va[1])
           pd   == NextTable(pdpt.m, pdpt.f, va[2])
           pt   == NextTable(pd.m, pd.f, va[3])
           m4   == SetWord(pt.m, pt.f, va[4], Entry(g))
<1>1. n \in Nat /\ va[1] \in Idx /\ va[2] \in Idx /\ va[3] \in Idx /\ va[1] # 0 /\ va \in Addresses
  BY AddressIs
<1>2. PICK T, lvl : Tree(n, m, r, T, lvl) /\ m.used = b.used \cup T /\ T \cap b.used = {}
  BY DEF Built
<1>3. \A h \in b.used : m.word[h] = b.word[h]
  BY DEF Built
<1>4. r \in T /\ lvl[r] = 0 /\ T \subseteq Phys(n) /\ r \in Phys(n) /\ m.used \subseteq Phys(n)
  <2>1. m.used \subseteq Phys(n)
    BY <1>1, MemIs
  <2>2. T \subseteq Phys(n) /\ Top(r, T, lvl)
    BY <1>2 DEF Tree
  <2> QED
    BY <2>1, <2>2 DEF Top
<1>5. PutPage(m, r, va, page) = m4
  BY Zenon DEF PutPage, MapIn
<1>6. /\ got.m \in Mem(n) /\ g \in Phys(n) /\ got.m.word = m.word
      /\ ~got.m.short => g \notin m.used /\ got.m.used = m.used \cup {g}
  BY AllocIs
<1> HIDE DEF got, g
<1>7. /\ m0 \in Mem(n) /\ m0.used = got.m.used /\ m0.short = got.m.short
      /\ m0.word[g] = page
      /\ \A h \in Phys(n) \ {g} : m0.word[h] = m.word[h]
  BY <1>1, <1>6, FillIs
<1> HIDE DEF m0
<1>8. pdpt.m \in Mem(n) /\ pdpt.f \in Phys(n) /\ Grown(m0, pdpt.m)
  BY <1>1, <1>4, <1>7, NextTableType
<1>9. ~pdpt.m.short /\ Tree(n, m0, r, T, lvl) /\ T \subseteq m0.used =>
        \E T1, l1 : Down(n, r, m0, T, lvl, r, va[1], pdpt.m, pdpt.f, T1, l1)
  <2>1. lvl[r] < 3 /\ (lvl[r] = 0 => va[1] # 0)
    BY <1>1, <1>4
  <2> QED
    BY <1>1, <1>4, <1>7, <2>1, DownIs
<1> HIDE DEF pdpt
<1>10. pd.m \in Mem(n) /\ pd.f \in Phys(n) /\ Grown(pdpt.m, pd.m)
  BY <1>1, <1>8, NextTableType
<1>11. ASSUME NEW T1, NEW l1, Tree(n, pdpt.m, r, T1, l1), T1 \subseteq pdpt.m.used,
              pdpt.f \in T1, l1[pdpt.f] = 1, ~pd.m.short
       PROVE  \E T2, l2 : Down(n, r, pdpt.m, T1, l1, pdpt.f, va[2], pd.m, pd.f, T2, l2)
  <2>1. l1[pdpt.f] < 3 /\ (l1[pdpt.f] = 0 => va[2] # 0)
    BY <1>11
  <2> QED
    BY <1>1, <1>8, <1>11, <2>1, DownIs
<1> HIDE DEF pd
<1>12. pt.m \in Mem(n) /\ pt.f \in Phys(n) /\ Grown(pd.m, pt.m)
  BY <1>1, <1>10, NextTableType
<1>13. ASSUME NEW T2, NEW l2, Tree(n, pd.m, r, T2, l2), T2 \subseteq pd.m.used,
              pd.f \in T2, l2[pd.f] = 2, ~pt.m.short
       PROVE  \E T3, l3 : Down(n, r, pd.m, T2, l2, pd.f, va[3], pt.m, pt.f, T3, l3)
  <2>1. l2[pd.f] < 3 /\ (l2[pd.f] = 0 => va[3] # 0)
    BY <1>13
  <2> QED
    BY <1>1, <1>10, <1>13, <2>1, DownIs
<1> HIDE DEF pt
<1>14. m4.short = pt.m.short
  BY <1>12, <1>6, SetWordType, WordIs
<1> HIDE DEF m4
<1>15. ~m4.short /\ ~pt.m.short /\ ~pd.m.short /\ ~pdpt.m.short /\ ~m0.short
  BY <1>5, <1>8, <1>10, <1>12, <1>14 DEF Grown
<1>16. g \notin m.used /\ m0.used = m.used \cup {g} /\ g \notin T
  BY <1>2, <1>6, <1>7, <1>15
<1>17. SameTables(T, lvl, m, m0) /\ \A h \in T : m0.word[h] = m.word[h]
  BY <1>4, <1>7, <1>16 DEF SameTables
<1>18. Tree(n, m0, r, T, lvl) /\ T \subseteq m0.used
  BY <1>1, <1>2, <1>16, <1>17, SameTree
<1>19. /\ Mapped(m0, r) = Mapped(m, r)
       /\ \A x \in Mapped(m, r) : Page(m0, r, x) = Page(m, r, x)
  BY <1>1, <1>2, <1>17, SameWalks
<1>20. PICK T1, l1 : Down(n, r, m0, T, lvl, r, va[1], pdpt.m, pdpt.f, T1, l1)
  BY <1>9, <1>15, <1>18
<1>21. Tree(n, pdpt.m, r, T1, l1) /\ T1 \subseteq pdpt.m.used /\ pdpt.f \in T1 /\ l1[pdpt.f] = 1
  BY <1>4, <1>20, GrewIs DEF Down
<1>22. PICK T2, l2 : Down(n, r, pdpt.m, T1, l1, pdpt.f, va[2], pd.m, pd.f, T2, l2)
  BY <1>11, <1>15, <1>21
<1>23. Tree(n, pd.m, r, T2, l2) /\ T2 \subseteq pd.m.used /\ pd.f \in T2 /\ l2[pd.f] = 2
  BY <1>21, <1>22, GrewIs DEF Down
<1>24. PICK T3, l3 : Down(n, r, pd.m, T2, l2, pd.f, va[3], pt.m, pt.f, T3, l3)
  BY <1>13, <1>15, <1>23
<1>25. /\ Grew(n, r, m0, T, lvl, pt.m, T3, l3)
       /\ Pdpt(pt.m, r, va) = pdpt.f /\ pdpt.f \in T3 /\ l3[pdpt.f] = 1
       /\ Pd(pt.m, r, va) = pd.f /\ pd.f \in T3 /\ l3[pd.f] = 2
       /\ Pt(pt.m, r, va) = pt.f /\ pt.f \in T3 /\ l3[pt.f] = 3
       /\ Present(pt.m.word[r][va[1]]) /\ Present(pt.m.word[pdpt.f][va[2]])
       /\ Present(pt.m.word[pd.f][va[3]])
  <2>1. Downs(n, r, m0, T, lvl, va, pdpt.m, pdpt.f, T1, l1, pd.m, pd.f, T2, l2,
              pt.m, pt.f, T3, l3)
    BY <1>20, <1>22, <1>24 DEF Downs
  <2> QED
    BY <1>1, <1>18, <2>1, DownToPage
<1>26. /\ Tree(n, pt.m, r, T3, l3)
       /\ pt.m.used = m0.used \cup T3 /\ T3 \cap m0.used = T
       /\ \A h \in m0.used \ T : pt.m.word[h] = m0.word[h]
       /\ \A h \in T : lvl[h] = 4 => pt.m.word[h] = m0.word[h]
       /\ Mapped(pt.m, r) = Mapped(m0, r)
       /\ \A x \in Mapped(m0, r) : Page(pt.m, r, x) = Page(m0, r, x)
  BY <1>25 DEF Grew
<1>27. g \in Phys(n) \ T3
  BY <1>6, <1>16, <1>26
<1>28. /\ m4.used = pt.m.used
       /\ \E l4 : Tree(n, m4, r, T3 \cup {g}, l4)
       /\ \A h \in Phys(n) \ {pt.f} : m4.word[h] = pt.m.word[h]
       /\ Mapped(m4, r) = Mapped(pt.m, r) \cup {va}
       /\ \A x \in Mapped(pt.m, r) : Row(m4, r, x) = Row(pt.m, r, x)
       /\ Row(m4, r, va) = pt.m.word[g]
  <2>1. va \notin Mapped(pt.m, r)
    BY <1>19, <1>26
  <2>2. AtTable(pt.m, r, T3, l3, va, pdpt.f, pd.f, pt.f)
    BY <1>25 DEF AtTable
  <2>3. Hung(n, pt.m, r, T3, va, pt.f, g, SetWord(pt.m, pt.f, va[4], Entry(g)))
    BY <1>1, <1>12, <1>26, <1>27, <2>1, <2>2, HangIs
  <2> QED
    BY <2>3 DEF Hung, m4
<1>29. Built(n, b, r, m4)
  <2>1. m4.used = b.used \cup (T3 \cup {g}) /\ (T3 \cup {g}) \cap b.used = {}
    BY <1>2, <1>16, <1>26, <1>28
  <2>2. \A h \in b.used : m4.word[h] = b.word[h]
    <3> SUFFICES ASSUME NEW h \in b.used PROVE m4.word[h] = b.word[h]
      OBVIOUS
    <3>1. h \in m.used /\ h \in Phys(n) /\ h # g /\ h \in m0.used \ T /\ h # pt.f
      BY <1>2, <1>4, <1>16, <1>25, <1>26
    <3>2. m4.word[h] = pt.m.word[h] /\ pt.m.word[h] = m0.word[h] /\ m0.word[h] = m.word[h]
      BY <1>7, <1>26, <1>28, <3>1
    <3> QED
      BY <1>3, <3>2
  <2> DEFINE T4 == T3 \cup {g}
  <2> HIDE DEF T4
  <2>3. /\ \E l4 : Tree(n, m4, r, T4, l4)
        /\ m4.used = b.used \cup T4 /\ T4 \cap b.used = {}
    BY <1>28, <2>1 DEF T4
  <2> QED
    BY <2>2, <2>3 DEF Built
<1>30. Row(m4, r, va) = page
  <2>1. pt.m.word[g] = m0.word[g]
    BY <1>16, <1>26
  <2> QED
    BY <1>7, <1>28, <2>1
<1>31. \A x \in Mapped(m, r) : Row(m4, r, x) = Row(m, r, x)
  <2> SUFFICES ASSUME NEW x \in Mapped(m, r) PROVE Row(m4, r, x) = Row(m, r, x)
    OBVIOUS
  <2>1. x \in UserPaths /\ IsMapped(m, r, x)
    BY DEF Mapped
  <2>2. Page(m, r, x) \in T /\ lvl[Page(m, r, x)] = 4
    BY <1>1, <1>2, <2>1, WalkIs
  <2>3. Page(pt.m, r, x) = Page(m, r, x)
    BY <1>19, <1>26
  <2>4. pt.m.word[Page(m, r, x)] = m.word[Page(m, r, x)]
    BY <1>17, <1>26, <2>2
  <2>5. Row(m4, r, x) = Row(pt.m, r, x)
    BY <1>19, <1>26, <1>28
  <2> QED
    BY <2>3, <2>4, <2>5 DEF Row
<1> QED
  BY <1>5, <1>19, <1>26, <1>28, <1>29, <1>30, <1>31 DEF More

-----------------------------------------------------------------------------
(* A new space.                                                             *)

\* Walks stay in memory.
LEMMA WalkType ==
  ASSUME NEW n \in Nat, NEW m \in Mem(n), NEW r \in Phys(n), NEW va \in UserPaths,
         IsMapped(m, r, va)
  PROVE  Page(m, r, va) \in Phys(n) /\ Row(m, r, va) \in [Idx -> Word(n)]
<1>1. /\ va[1] \in Idx /\ va[2] \in Idx /\ va[3] \in Idx /\ va[4] \in Idx
  BY AddressIs
<1>2. /\ Present(m.word[r][va[1]])
      /\ Present(m.word[Pdpt(m, r, va)][va[2]])
      /\ Present(m.word[Pd(m, r, va)][va[3]])
      /\ Present(m.word[Pt(m, r, va)][va[4]])
  BY DEF IsMapped
<1>3. \A f \in Phys(n), i \in Idx : Present(m.word[f][i]) => FrameOf(m.word[f][i]) \in Phys(n)
  BY MemIs DEF Word
<1>4. Pdpt(m, r, va) \in Phys(n)
  BY <1>1, <1>2, <1>3 DEF Pdpt
<1>5. Pd(m, r, va) \in Phys(n)
  BY <1>1, <1>2, <1>3, <1>4 DEF Pd
<1>6. Pt(m, r, va) \in Phys(n)
  BY <1>1, <1>2, <1>3, <1>5 DEF Pt
<1>7. Page(m, r, va) \in Phys(n)
  BY <1>1, <1>2, <1>3, <1>6 DEF Page
<1> QED
  BY <1>7, MemIs DEF Row

LEMMA CreateSpaceIs ==
  ASSUME NEW n \in Nat \ {0}, NEW m \in Mem(n), kpml4 \in Phys(n)
  PROVE  LET c == CreateSpace(m)
         IN  /\ c.m \in Mem(n) /\ c.f \in Phys(n) /\ Grown(m, c.m) /\ c = [m |-> c.m, f |-> c.f]
             /\ ~c.m.short => /\ Built(n, m, c.f, c.m) /\ Mapped(c.m, c.f) = {}
                              /\ c.f \notin m.used
<1> DEFINE got == AllocTable(m)
           g   == got.f
           w   == got.m.word[kpml4][0]
           m2  == SetWord(got.m, g, 0, w)
<1>1. n \in Nat /\ 0 \in Idx /\ m.used \subseteq Phys(n)
  BY Indices, MemIs
<1>2. /\ got.m \in Mem(n) /\ g \in Phys(n) /\ Grown(m, got.m)
      /\ got.m.word[g] = Blank
      /\ \A h \in Phys(n) \ {g} : got.m.word[h] = m.word[h]
      /\ ~got.m.short => g \notin m.used /\ got.m.used = m.used \cup {g}
  BY AllocTableIs
<1>3. CreateSpace(m) = [m |-> m2, f |-> g]
  BY DEF CreateSpace
<1> HIDE DEF got, g
<1>4. w \in Word(n)
  BY <1>1, <1>2, MemIs
<1> HIDE DEF w
<1>5. /\ m2 \in Mem(n) /\ m2.used = got.m.used /\ m2.short = got.m.short
      /\ \A j \in Idx \ {0} : m2.word[g][j] = got.m.word[g][j]
      /\ \A h \in Phys(n) \ {g} : m2.word[h] = got.m.word[h]
  BY <1>1, <1>2, <1>4, SetWordIs
<1> HIDE DEF m2
<1>6. ASSUME ~m2.short
      PROVE  Built(n, m, g, m2) /\ Mapped(m2, g) = {} /\ g \notin m.used
  <2>1. g \notin m.used /\ m2.used = m.used \cup {g}
    BY <1>2, <1>5, <1>6
  <2>2. \A i \in Idx \ {0} : ~Present(m2.word[g][i])
    BY <1>2, <1>5, EntryIs DEF Blank
  <2>3. Tree(n, m2, g, {g}, [f \in Phys(n) |-> 0])
    BY <1>1, <1>2, <1>5, <2>2, RootTree
  <2>4. \A h \in m.used : m2.word[h] = m.word[h]
    BY <1>1, <1>2, <1>5, <2>1
  <2>5. Built(n, m, g, m2)
    <3> DEFINE T == {g}
               lvl == [f \in Phys(n) |-> 0]
    <3>1. Tree(n, m2, g, T, lvl) /\ m2.used = m.used \cup T /\ T \cap m.used = {}
      BY <2>1, <2>3
    <3> HIDE DEF T, lvl
    <3> QED
      BY <2>4, <3>1 DEF Built
  <2>6. Mapped(m2, g) = {}
    BY <2>2, AddressIs DEF Mapped, IsMapped
  <2> QED
    BY <2>1, <2>5, <2>6
<1>7. Grown(m, m2)
  BY <1>2, <1>5 DEF Grown
<1> QED
  BY <1>2, <1>3, <1>5, <1>6, <1>7

-----------------------------------------------------------------------------
(* The loops that put pages into a space.                                   *)

LoadStep(r, prog, m, k) == PutPage(m, r, prog[k].va, [Blank EXCEPT ![0] = prog[k].val])
StackStep(r, m, k)      == PutPage(m, r, Stack[k], Leftover(m))
HeapStep(r, m, k)       == PutPage(m, r, <<0, 1, 0, k - 1>>, Leftover(m))
CopyStep(src, r, m, k)  == CopyPage(m, src, r, Path(k - 1))

LEMMA ImageIs ==
  ASSUME NEW prog \in Programs
  PROVE  /\ Len(prog) \in Nat /\ DOMAIN prog = 1 .. Len(prog)
         /\ \A k \in 1 .. Len(prog) :
              prog[k].va \in UserPaths /\ prog[k].val \in Nat /\ ~Present(prog[k].val)
         /\ \A i, j \in 1 .. Len(prog) : prog[i].va = prog[j].va => i = j
         /\ \A i \in 1 .. Len(prog), j \in 1 .. Len(Stack) : prog[i].va # Stack[j]
<1>1. /\ prog \in Seq([va : UserPaths, val : {n \in Nat : ~Present(n)}])
      /\ Stack \in Seq(UserPaths)
      /\ \A i \in DOMAIN prog :
           /\ \A j \in DOMAIN prog : prog[i].va = prog[j].va => i = j
           /\ \A j \in DOMAIN Stack : prog[i].va # Stack[j]
  BY FramesAssumption
<1> DEFINE R == [va : UserPaths, val : {n \in Nat : ~Present(n)}]
<1>2. \A x \in R : x.va \in UserPaths /\ x.val \in Nat /\ ~Present(x.val)
  OBVIOUS
<1>3. prog \in Seq(R)
  BY <1>1
<1> HIDE DEF R
<1>4. /\ Len(prog) \in Nat /\ DOMAIN prog = 1 .. Len(prog) /\ DOMAIN Stack = 1 .. Len(Stack)
      /\ \A k \in 1 .. Len(prog) : prog[k] \in R
  BY <1>1, <1>3
<1> QED
  BY <1>1, <1>2, <1>4

LEMMA ImagePages ==
  ASSUME NEW prog \in Programs
  PROVE  /\ \A va : va \in DOMAIN Image(prog) <=> \E k \in 1 .. Len(prog) : va = prog[k].va
         /\ \A k \in 1 .. Len(prog) : Image(prog)[prog[k].va] = [Blank EXCEPT ![0] = prog[k].val]
<1> DEFINE at(va) == CHOOSE i \in DOMAIN prog : prog[i].va = va
           pages  == {prog[i].va : i \in DOMAIN prog}
<1>1. DOMAIN prog = 1 .. Len(prog) /\ \A i, j \in DOMAIN prog : prog[i].va = prog[j].va => i = j
  BY ImageIs
<1>2. Image(prog) = [va \in pages |-> [Blank EXCEPT ![0] = prog[at(va)].val]]
  BY DEF Image
<1>3. ASSUME NEW k \in DOMAIN prog
      PROVE  at(prog[k].va) = k
  <2>1. \E i \in DOMAIN prog : prog[i].va = prog[k].va
    OBVIOUS
  <2>2. at(prog[k].va) \in DOMAIN prog /\ prog[at(prog[k].va)].va = prog[k].va
    BY <2>1
  <2> QED
    BY <1>1, <2>2
<1> HIDE DEF at
<1>4. ASSUME NEW k \in DOMAIN prog
      PROVE  Image(prog)[prog[k].va] = [Blank EXCEPT ![0] = prog[k].val]
  <2>1. prog[k].va \in pages
    OBVIOUS
  <2>2. Image(prog)[prog[k].va] = [Blank EXCEPT ![0] = prog[at(prog[k].va)].val]
    BY <1>2, <2>1
  <2> QED
    BY <1>3, <2>2
<1>5. DOMAIN Image(prog) = pages
  BY <1>2
<1> QED
  BY <1>1, <1>4, <1>5

LEMMA StackIs ==
  /\ Len(Stack) \in Nat \ {0} /\ \A k \in 1 .. Len(Stack) : Stack[k] \in UserPaths
  /\ \A i, j \in 1 .. Len(Stack) : Stack[i] = Stack[j] => i = j
  /\ Range(Stack) = {Stack[k] : k \in 1 .. Len(Stack)} /\ Last(Stack) = Stack[Len(Stack)]
<1>1. /\ Stack \in Seq(UserPaths) /\ Stack # << >>
      /\ \A i, j \in DOMAIN Stack : Stack[i] = Stack[j] => i = j
  BY FramesAssumption
<1>2. DOMAIN Stack = 1 .. Len(Stack) /\ Len(Stack) \in Nat \ {0}
  BY <1>1
<1> QED
  BY <1>1, <1>2 DEF Range, Last

LEMMA LeftoverIs ==
  ASSUME NEW n \in Nat \ {0}, NEW m \in Mem(n)
  PROVE  Leftover(m) \in [Idx -> Word(n)]
<1>1. Alloc(m).f \in Phys(n)
  BY AllocIs
<1> QED
  BY <1>1, MemIs DEF Leftover

LEMMA LoadStepType ==
  ASSUME NEW n \in Nat \ {0}, NEW r \in Phys(n), NEW prog \in Programs, NEW m \in Mem(n),
         NEW k \in 1 .. Len(prog)
  PROVE  /\ [Blank EXCEPT ![0] = prog[k].val] \in [Idx -> Word(n)]
         /\ LoadStep(r, prog, m, k) \in Mem(n) /\ Grown(m, LoadStep(r, prog, m, k))
<1> DEFINE page == [Blank EXCEPT ![0] = prog[k].val]
           va   == prog[k].va
<1>1. va \in Addresses /\ prog[k].val \in Word(n)
  BY ImageIs, AddressIs, WordIs
<1>2. page \in [Idx -> Word(n)]
  BY <1>1, WordIs
<1> HIDE DEF page, va
<1>3. PutPage(m, r, va, page) \in Mem(n) /\ Grown(m, PutPage(m, r, va, page))
  BY <1>1, <1>2, PutPageType
<1> QED
  BY <1>2, <1>3 DEF LoadStep, page, va

LEMMA StackStepType ==
  ASSUME NEW n \in Nat \ {0}, NEW r \in Phys(n), NEW m \in Mem(n), NEW k \in 1 .. Len(Stack)
  PROVE  StackStep(r, m, k) \in Mem(n) /\ Grown(m, StackStep(r, m, k))
<1>1. Stack[k] \in Addresses /\ Leftover(m) \in [Idx -> Word(n)]
  BY StackIs, AddressIs, LeftoverIs
<1> QED
  BY <1>1, PutPageType DEF StackStep

LEMMA HeapStepType ==
  ASSUME NEW n \in Nat \ {0}, NEW r \in Phys(n), NEW m \in Mem(n), NEW k \in 1 .. HeapPages
  PROVE  HeapStep(r, m, k) \in Mem(n) /\ Grown(m, HeapStep(r, m, k))
<1> DEFINE va == <<0, 1, 0, k - 1>>
<1>1. k - 1 \in Idx
  BY FramesAssumption DEF Idx
<1>2. va \in Addresses
  BY <1>1, Indices DEF Addresses
<1> HIDE DEF va
<1>3. Leftover(m) \in [Idx -> Word(n)]
  BY LeftoverIs
<1>4. PutPage(m, r, va, Leftover(m)) \in Mem(n) /\ Grown(m, PutPage(m, r, va, Leftover(m)))
  BY <1>2, <1>3, PutPageType
<1> QED
  BY <1>4 DEF HeapStep, va

LEMMA CopyStepType ==
  ASSUME NEW n \in Nat \ {0}, NEW r \in Phys(n), NEW src \in Phys(n), NEW m \in Mem(n), NEW k
  PROVE  CopyStep(src, r, m, k) \in Mem(n) /\ Grown(m, CopyStep(src, r, m, k))
<1> DEFINE va == Path(k - 1)
<1>1. CopyStep(src, r, m, k) = CopyPage(m, src, r, va)
  BY DEF CopyStep
<1> HIDE DEF va
<1>2. CASE va \in Mapped(m, src)
  <2>1. va \in UserPaths /\ IsMapped(m, src, va)
    BY <1>2 DEF Mapped
  <2>2. va \in Addresses /\ Row(m, src, va) \in [Idx -> Word(n)]
    BY <2>1, AddressIs, WalkType
  <2>3. CopyPage(m, src, r, va) = PutPage(m, r, va, Row(m, src, va))
    BY <1>2 DEF CopyPage, Row
  <2> QED
    BY <1>1, <2>2, <2>3, PutPageType
<1>3. CASE va \notin Mapped(m, src)
  BY <1>1, <1>3 DEF CopyPage, Grown
<1> QED
  BY <1>2, <1>3

LEMMA PathsIs == Paths \in Nat
<1> DEFINE a == Entries * Entries
           b == a * Entries
<1>1. a \in Nat
  BY Indices
<1> HIDE DEF a
<1>2. b \in Nat
  BY <1>1, Indices
<1> HIDE DEF b
<1>3. b * Entries \in Nat
  BY <1>2, Indices
<1> QED
  BY <1>3 DEF Paths, a, b

\* elf_load.
LEMMA LoadIs ==
  ASSUME NEW n \in Nat \ {0}, NEW m \in Mem(n), kpml4 \in Phys(n), NEW prog \in Programs
  PROVE  \E f \in [0 .. Len(prog) -> Mem(n)] :
           /\ f[0] = CreateSpace(m).m /\ \A k \in 1 .. Len(prog) : f[k] = LoadStep(CreateSpace(m).f, prog, f[k - 1], k)
           /\ ElfLoad(m, prog) = [CreateSpace(m) EXCEPT !.m = f[Len(prog)]]
<1> DEFINE N == Len(prog)
           S == Mem(n)
           b == CreateSpace(m).m
           next(x, k) == LoadStep(CreateSpace(m).f, prog, x, k)
           step == [u \in S \X (1 .. N) |-> next(u[1], u[2])]
           Runs(g) == g = [k \in 0 .. N |-> IF k = 0 THEN b ELSE next(g[k - 1], k)]
           f == CHOOSE g : Runs(g)
<1>1. N \in Nat
  BY ImageIs
<1>2. b \in S
  BY CreateSpaceIs
<1>3. \A x \in S, k \in 1 .. N : next(x, k) \in S
  BY LoadStepType, CreateSpaceIs
<1>4. ElfLoad(m, prog) = [CreateSpace(m) EXCEPT !.m = f[Len(prog)]]
  BY DEF ElfLoad, LoadStep
<1> HIDE DEF N, S, b, next
<1>5. step \in [S \X (1 .. N) -> S]
  BY <1>3
<1>6. PICK h \in [0 .. N -> S] : h[0] = b /\ \A i \in 1 .. N : h[i] = step[<<h[i - 1], i>>]
  <2> HIDE DEF step
  <2>1. \E h \in [0 .. N -> S] : Iterates(h, N, b, step)
    BY <1>1, <1>2, <1>5, Iteration
  <2> QED
    BY <2>1 DEF Iterates
<1>7. ASSUME NEW i \in 1 .. N
      PROVE  h[i] = next(h[i - 1], i)
  <2>1. h[i - 1] \in S
    BY <1>1
  <2> DEFINE u == <<h[i - 1], i>>
  <2>2. u \in S \X (1 .. N) /\ u[1] = h[i - 1] /\ u[2] = i
    BY <2>1
  <2>3. h[i] = step[u]
    BY <1>6
  <2>4. step[u] = next(u[1], u[2])
    <3> HIDE DEF u
    <3> QED
      BY <2>2
  <2> QED
    BY <2>2, <2>3, <2>4
<1>8. Runs(h)
  <2> HIDE DEF step
  <2> QED
    BY <1>6, <1>7
<1>9. Runs(f)
  <2> HIDE DEF Runs
  <2> QED
    BY <1>8
<1> HIDE DEF f
<1>10. f[0] = b /\ \A k \in 1 .. N : f[k] = next(f[k - 1], k)
  <2> DEFINE e(k) == IF k = 0 THEN b ELSE next(f[k - 1], k)
  <2>1. e(0) = b /\ \A k \in 1 .. N : e(k) = next(f[k - 1], k)
    OBVIOUS
  <2>2. f = [k \in 0 .. N |-> e(k)]
    BY <1>9
  <2> HIDE DEF e
  <2>3. \A k \in 0 .. N : f[k] = e(k)
    BY <2>2
  <2> QED
    BY <1>1, <2>1, <2>3
<1>11. \A k \in 0 .. N : f[k] \in S
  <2> DEFINE P == {k \in Nat : f[k] \in S}
  <2>1. 0 \in P
    BY <1>2, <1>10
  <2>2. ASSUME NEW i \in 0 .. N - 1, i \in P
        PROVE  i + 1 \in P
    <3>1. i + 1 \in 1 .. N /\ i + 1 - 1 = i /\ i + 1 \in Nat /\ f[i] \in S
      BY <1>1, <2>2
    <3> QED
      BY <1>3, <1>10, <3>1
  <2> HIDE DEF P
  <2>3. 0 .. N \subseteq P
    BY <1>1, <2>1, <2>2, UpTo
  <2> QED
    BY <2>3 DEF P
<1>12. f \in [0 .. N -> S]
  BY <1>9, <1>11
<1> QED
  BY <1>4, <1>10, <1>12 DEF N, S, b, next

\* The stack.
LEMMA AddStackIs ==
  ASSUME NEW n \in Nat \ {0}, NEW m \in Mem(n), NEW r \in Phys(n)
  PROVE  \E f \in [0 .. Len(Stack) -> Mem(n)] :
           /\ f[0] = m /\ \A k \in 1 .. Len(Stack) : f[k] = StackStep(r, f[k - 1], k)
           /\ AddStack(m, r) = f[Len(Stack)]
<1> DEFINE N == Len(Stack)
           S == Mem(n)
           b == m
           next(x, k) == StackStep(r, x, k)
           step == [u \in S \X (1 .. N) |-> next(u[1], u[2])]
           Runs(g) == g = [k \in 0 .. N |-> IF k = 0 THEN b ELSE next(g[k - 1], k)]
           f == CHOOSE g : Runs(g)
<1>1. N \in Nat
  BY StackIs
<1>2. b \in S
  BY DEF S
<1>3. \A x \in S, k \in 1 .. N : next(x, k) \in S
  BY StackStepType
<1>4. AddStack(m, r) = f[Len(Stack)]
  BY DEF AddStack, StackStep
<1> HIDE DEF N, S, b, next
<1>5. step \in [S \X (1 .. N) -> S]
  BY <1>3
<1>6. PICK h \in [0 .. N -> S] : h[0] = b /\ \A i \in 1 .. N : h[i] = step[<<h[i - 1], i>>]
  <2> HIDE DEF step
  <2>1. \E h \in [0 .. N -> S] : Iterates(h, N, b, step)
    BY <1>1, <1>2, <1>5, Iteration
  <2> QED
    BY <2>1 DEF Iterates
<1>7. ASSUME NEW i \in 1 .. N
      PROVE  h[i] = next(h[i - 1], i)
  <2>1. h[i - 1] \in S
    BY <1>1
  <2> DEFINE u == <<h[i - 1], i>>
  <2>2. u \in S \X (1 .. N) /\ u[1] = h[i - 1] /\ u[2] = i
    BY <2>1
  <2>3. h[i] = step[u]
    BY <1>6
  <2>4. step[u] = next(u[1], u[2])
    <3> HIDE DEF u
    <3> QED
      BY <2>2
  <2> QED
    BY <2>2, <2>3, <2>4
<1>8. Runs(h)
  <2> HIDE DEF step
  <2> QED
    BY <1>6, <1>7
<1>9. Runs(f)
  <2> HIDE DEF Runs
  <2> QED
    BY <1>8
<1> HIDE DEF f
<1>10. f[0] = b /\ \A k \in 1 .. N : f[k] = next(f[k - 1], k)
  <2> DEFINE e(k) == IF k = 0 THEN b ELSE next(f[k - 1], k)
  <2>1. e(0) = b /\ \A k \in 1 .. N : e(k) = next(f[k - 1], k)
    OBVIOUS
  <2>2. f = [k \in 0 .. N |-> e(k)]
    BY <1>9
  <2> HIDE DEF e
  <2>3. \A k \in 0 .. N : f[k] = e(k)
    BY <2>2
  <2> QED
    BY <1>1, <2>1, <2>3
<1>11. \A k \in 0 .. N : f[k] \in S
  <2> DEFINE P == {k \in Nat : f[k] \in S}
  <2>1. 0 \in P
    BY <1>2, <1>10
  <2>2. ASSUME NEW i \in 0 .. N - 1, i \in P
        PROVE  i + 1 \in P
    <3>1. i + 1 \in 1 .. N /\ i + 1 - 1 = i /\ i + 1 \in Nat /\ f[i] \in S
      BY <1>1, <2>2
    <3> QED
      BY <1>3, <1>10, <3>1
  <2> HIDE DEF P
  <2>3. 0 .. N \subseteq P
    BY <1>1, <2>1, <2>2, UpTo
  <2> QED
    BY <2>3 DEF P
<1>12. f \in [0 .. N -> S]
  BY <1>9, <1>11
<1> QED
  BY <1>4, <1>10, <1>12 DEF N, S, b, next

\* The heap's pages.
LEMMA BackHeapIs ==
  ASSUME NEW n \in Nat \ {0}, NEW m \in Mem(n), NEW r \in Phys(n)
  PROVE  \E f \in [0 .. HeapPages -> Mem(n)] :
           /\ f[0] = m /\ \A k \in 1 .. HeapPages : f[k] = HeapStep(r, f[k - 1], k)
           /\ BackHeap(m, r) = f[HeapPages]
<1> DEFINE N == HeapPages
           S == Mem(n)
           b == m
           next(x, k) == HeapStep(r, x, k)
           step == [u \in S \X (1 .. N) |-> next(u[1], u[2])]
           Runs(g) == g = [k \in 0 .. N |-> IF k = 0 THEN b ELSE next(g[k - 1], k)]
           f == CHOOSE g : Runs(g)
<1>1. N \in Nat
  BY FramesAssumption
<1>2. b \in S
  BY DEF S
<1>3. \A x \in S, k \in 1 .. N : next(x, k) \in S
  BY HeapStepType
<1>4. BackHeap(m, r) = f[HeapPages]
  BY DEF BackHeap, HeapStep
<1> HIDE DEF N, S, b, next
<1>5. step \in [S \X (1 .. N) -> S]
  BY <1>3
<1>6. PICK h \in [0 .. N -> S] : h[0] = b /\ \A i \in 1 .. N : h[i] = step[<<h[i - 1], i>>]
  <2> HIDE DEF step
  <2>1. \E h \in [0 .. N -> S] : Iterates(h, N, b, step)
    BY <1>1, <1>2, <1>5, Iteration
  <2> QED
    BY <2>1 DEF Iterates
<1>7. ASSUME NEW i \in 1 .. N
      PROVE  h[i] = next(h[i - 1], i)
  <2>1. h[i - 1] \in S
    BY <1>1
  <2> DEFINE u == <<h[i - 1], i>>
  <2>2. u \in S \X (1 .. N) /\ u[1] = h[i - 1] /\ u[2] = i
    BY <2>1
  <2>3. h[i] = step[u]
    BY <1>6
  <2>4. step[u] = next(u[1], u[2])
    <3> HIDE DEF u
    <3> QED
      BY <2>2
  <2> QED
    BY <2>2, <2>3, <2>4
<1>8. Runs(h)
  <2> HIDE DEF step
  <2> QED
    BY <1>6, <1>7
<1>9. Runs(f)
  <2> HIDE DEF Runs
  <2> QED
    BY <1>8
<1> HIDE DEF f
<1>10. f[0] = b /\ \A k \in 1 .. N : f[k] = next(f[k - 1], k)
  <2> DEFINE e(k) == IF k = 0 THEN b ELSE next(f[k - 1], k)
  <2>1. e(0) = b /\ \A k \in 1 .. N : e(k) = next(f[k - 1], k)
    OBVIOUS
  <2>2. f = [k \in 0 .. N |-> e(k)]
    BY <1>9
  <2> HIDE DEF e
  <2>3. \A k \in 0 .. N : f[k] = e(k)
    BY <2>2
  <2> QED
    BY <1>1, <2>1, <2>3
<1>11. \A k \in 0 .. N : f[k] \in S
  <2> DEFINE P == {k \in Nat : f[k] \in S}
  <2>1. 0 \in P
    BY <1>2, <1>10
  <2>2. ASSUME NEW i \in 0 .. N - 1, i \in P
        PROVE  i + 1 \in P
    <3>1. i + 1 \in 1 .. N /\ i + 1 - 1 = i /\ i + 1 \in Nat /\ f[i] \in S
      BY <1>1, <2>2
    <3> QED
      BY <1>3, <1>10, <3>1
  <2> HIDE DEF P
  <2>3. 0 .. N \subseteq P
    BY <1>1, <2>1, <2>2, UpTo
  <2> QED
    BY <2>3 DEF P
<1>12. f \in [0 .. N -> S]
  BY <1>9, <1>11
<1> QED
  BY <1>4, <1>10, <1>12 DEF N, S, b, next

\* vmm_clone_address_space.
LEMMA CloneIs ==
  ASSUME NEW n \in Nat \ {0}, NEW m \in Mem(n), kpml4 \in Phys(n), NEW src \in Phys(n)
  PROVE  \E f \in [0 .. Paths -> Mem(n)] :
           /\ f[0] = CreateSpace(m).m /\ \A k \in 1 .. Paths : f[k] = CopyStep(src, CreateSpace(m).f, f[k - 1], k)
           /\ CloneSpace(m, src) = [CreateSpace(m) EXCEPT !.m = f[Paths]]
<1> DEFINE N == Paths
           S == Mem(n)
           b == CreateSpace(m).m
           next(x, k) == CopyStep(src, CreateSpace(m).f, x, k)
           step == [u \in S \X (1 .. N) |-> next(u[1], u[2])]
           Runs(g) == g = [k \in 0 .. N |-> IF k = 0 THEN b ELSE next(g[k - 1], k)]
           f == CHOOSE g : Runs(g)
<1>1. N \in Nat
  BY PathsIs
<1>2. b \in S
  BY CreateSpaceIs
<1>3. \A x \in S, k \in 1 .. N : next(x, k) \in S
  BY CopyStepType, CreateSpaceIs
<1>4. CloneSpace(m, src) = [CreateSpace(m) EXCEPT !.m = f[Paths]]
  BY DEF CloneSpace, CopyStep
<1> HIDE DEF N, S, b, next
<1>5. step \in [S \X (1 .. N) -> S]
  BY <1>3
<1>6. PICK h \in [0 .. N -> S] : h[0] = b /\ \A i \in 1 .. N : h[i] = step[<<h[i - 1], i>>]
  <2> HIDE DEF step
  <2>1. \E h \in [0 .. N -> S] : Iterates(h, N, b, step)
    BY <1>1, <1>2, <1>5, Iteration
  <2> QED
    BY <2>1 DEF Iterates
<1>7. ASSUME NEW i \in 1 .. N
      PROVE  h[i] = next(h[i - 1], i)
  <2>1. h[i - 1] \in S
    BY <1>1
  <2> DEFINE u == <<h[i - 1], i>>
  <2>2. u \in S \X (1 .. N) /\ u[1] = h[i - 1] /\ u[2] = i
    BY <2>1
  <2>3. h[i] = step[u]
    BY <1>6
  <2>4. step[u] = next(u[1], u[2])
    <3> HIDE DEF u
    <3> QED
      BY <2>2
  <2> QED
    BY <2>2, <2>3, <2>4
<1>8. Runs(h)
  <2> HIDE DEF step
  <2> QED
    BY <1>6, <1>7
<1>9. Runs(f)
  <2> HIDE DEF Runs
  <2> QED
    BY <1>8
<1> HIDE DEF f
<1>10. f[0] = b /\ \A k \in 1 .. N : f[k] = next(f[k - 1], k)
  <2> DEFINE e(k) == IF k = 0 THEN b ELSE next(f[k - 1], k)
  <2>1. e(0) = b /\ \A k \in 1 .. N : e(k) = next(f[k - 1], k)
    OBVIOUS
  <2>2. f = [k \in 0 .. N |-> e(k)]
    BY <1>9
  <2> HIDE DEF e
  <2>3. \A k \in 0 .. N : f[k] = e(k)
    BY <2>2
  <2> QED
    BY <1>1, <2>1, <2>3
<1>11. \A k \in 0 .. N : f[k] \in S
  <2> DEFINE P == {k \in Nat : f[k] \in S}
  <2>1. 0 \in P
    BY <1>2, <1>10
  <2>2. ASSUME NEW i \in 0 .. N - 1, i \in P
        PROVE  i + 1 \in P
    <3>1. i + 1 \in 1 .. N /\ i + 1 - 1 = i /\ i + 1 \in Nat /\ f[i] \in S
      BY <1>1, <2>2
    <3> QED
      BY <1>3, <1>10, <3>1
  <2> HIDE DEF P
  <2>3. 0 .. N \subseteq P
    BY <1>1, <2>1, <2>2, UpTo
  <2> QED
    BY <2>3 DEF P
<1>12. f \in [0 .. N -> S]
  BY <1>9, <1>11
<1> QED
  BY <1>4, <1>10, <1>12 DEF N, S, b, next

\* In every round frames are only taken; so they are from any round to a later one.
Rises(N, f) == \A k \in 1 .. N : Grown(f[k - 1], f[k])

LEMMA LoopGrown ==
  ASSUME NEW N \in Nat, NEW f, Rises(N, f)
  PROVE  Grown(f[0], f[N]) /\ \A i \in 0 .. N : Grown(f[i], f[N])
<1>0. \A k \in 1 .. N : Grown(f[k - 1], f[k])
  BY DEF Rises
<1> DEFINE P == {j \in Nat : \A i \in 0 .. j : Grown(f[i], f[j])}
<1>1. 0 \in P
  BY DEF Grown
<1>2. ASSUME NEW j \in 0 .. N - 1, j \in P
      PROVE  j + 1 \in P
  <2> DEFINE k == j + 1
  <2>1. k \in 1 .. N /\ k - 1 = j /\ k \in Nat /\ 0 .. k = (0 .. j) \cup {k}
    OBVIOUS
  <2> HIDE DEF k
  <2>2. Grown(f[j], f[k])
    BY <1>0, <2>1
  <2>3. \A i \in 0 .. j : Grown(f[i], f[k])
    BY <1>2, <2>2, GrownOn
  <2>4. Grown(f[k], f[k])
    BY DEF Grown
  <2> QED
    BY <2>1, <2>3, <2>4 DEF k
<1> HIDE DEF P
<1>3. 0 .. N \subseteq P
  BY <1>1, <1>2, UpTo
<1>4. \A i \in 0 .. N : Grown(f[i], f[N])
  BY <1>3 DEF P
<1> QED
  BY <1>4

\* f is a loop: in its rounds K it puts page[k] at V[k] of r, in others nothing.
Puts(n, r, N, f, K, V, page) ==
  /\ f \in [0 .. N -> Mem(n)] /\ K \subseteq 1 .. N
  /\ \A k \in 1 .. N : k \notin K => f[k] = f[k - 1]
  /\ \A k \in K : /\ V[k] \in UserPaths /\ page[k] \in [Idx -> Word(n)]
                  /\ f[k] = PutPage(f[k - 1], r, V[k], page[k])
  /\ \A k, l \in K : V[k] = V[l] => k = l

\* What it has put there when i rounds are over.
Until(K, V, i) == {V[k] : k \in {l \in K : l <= i}}

Holds(n, b, r, f, K, V, page, i) ==
  /\ Built(n, b, r, f[i])
  /\ Mapped(f[i], r) = Mapped(f[0], r) \cup Until(K, V, i)
  /\ \A x \in Mapped(f[0], r) : Row(f[i], r, x) = Row(f[0], r, x)
  /\ \A k \in K : k <= i => Row(f[i], r, V[k]) = page[k]

LEMMA PutsIs ==
  ASSUME NEW n \in Nat \ {0}, NEW b, NEW r \in Phys(n), NEW N \in Nat, NEW f, NEW K, NEW V,
         NEW page, Puts(n, r, N, f, K, V, page),
         Built(n, b, r, f[0]), \A k \in K : V[k] \notin Mapped(f[0], r)
  PROVE  /\ \A k \in 1 .. N : Grown(f[k - 1], f[k])
         /\ \A i \in 0 .. N : ~f[i].short => Holds(n, b, r, f, K, V, page, i)
<1>1. /\ f \in [0 .. N -> Mem(n)] /\ K \subseteq 1 .. N
      /\ \A k \in 1 .. N : k \notin K => f[k] = f[k - 1]
      /\ \A k \in K : /\ V[k] \in UserPaths /\ page[k] \in [Idx -> Word(n)]
                      /\ f[k] = PutPage(f[k - 1], r, V[k], page[k])
      /\ \A k, l \in K : V[k] = V[l] => k = l
  BY DEF Puts
<1>2. ASSUME NEW k \in 1 .. N
      PROVE  f[k - 1] \in Mem(n) /\ k - 1 \in 0 .. N
  BY <1>1
<1>3. ASSUME NEW k \in 1 .. N
      PROVE  Grown(f[k - 1], f[k])
  <2>1. CASE k \notin K
    BY <1>1, <2>1 DEF Grown
  <2>2. CASE k \in K
    <3>1. V[k] \in Addresses
      BY <1>1, <2>2, AddressIs
    <3>2. page[k] \in [Idx -> Word(n)] /\ f[k] = PutPage(f[k - 1], r, V[k], page[k])
      BY <1>1, <2>2
    <3> QED
      BY <1>2, <3>1, <3>2, PutPageType
  <2> QED
    BY <2>1, <2>2
<1> DEFINE P == {i \in Nat : ~f[i].short => Holds(n, b, r, f, K, V, page, i)}
<1>4. 0 \in P
  <2>1. \A k \in K : ~(k <= 0)
    BY <1>1
  <2>2. Until(K, V, 0) = {}
    BY <2>1 DEF Until
  <2> QED
    BY <2>1, <2>2 DEF Holds
<1>5. ASSUME NEW i \in 0 .. N - 1, i \in P
      PROVE  i + 1 \in P
  <2> DEFINE k == i + 1
  <2>1. k \in 1 .. N /\ k - 1 = i /\ k \in Nat /\ i \in Nat
    OBVIOUS
  <2>2. \A l \in K : (l <= k <=> l <= i \/ l = k) /\ (l = k => ~(l <= i))
    BY <1>1
  <2> HIDE DEF k
  <2>3. CASE f[k].short
    BY <2>1, <2>3 DEF k
  <2>4. CASE ~f[k].short
    <3>1. ~f[i].short
      BY <1>3, <2>1, <2>4 DEF Grown
    <3>2. Holds(n, b, r, f, K, V, page, i)
      BY <1>5, <3>1
    <3>3. CASE k \notin K
      <4>1. f[k] = f[i]
        BY <1>1, <2>1, <3>3
      <4>2. \A l \in K : l <= k <=> l <= i
        BY <2>2, <3>3
      <4>3. Until(K, V, k) = Until(K, V, i)
        BY <4>2 DEF Until
      <4>4. Holds(n, b, r, f, K, V, page, k)
        BY <3>2, <4>1, <4>2, <4>3 DEF Holds
      <4> QED
        BY <2>1, <4>4 DEF k
    <3>4. CASE k \in K
      <4>1. /\ V[k] \in UserPaths /\ page[k] \in [Idx -> Word(n)]
            /\ f[k] = PutPage(f[i], r, V[k], page[k]) /\ f[i] \in Mem(n)
        BY <1>1, <1>2, <2>1, <3>4
      <4>2. V[k] \notin Mapped(f[i], r)
        <5>1. V[k] \notin Until(K, V, i)
          BY <1>1, <2>2, <3>4 DEF Until
        <5> QED
          BY <3>2, <3>4, <5>1 DEF Holds
      <4>3. Built(n, b, r, f[i])
        BY <3>2 DEF Holds
      <4>4. Built(n, b, r, f[k]) /\ More(r, f[i], V[k], page[k], f[k])
        BY <2>4, <4>1, <4>2, <4>3, PutPageIs
      <4>5. Until(K, V, k) = Until(K, V, i) \cup {V[k]}
        BY <2>2, <3>4 DEF Until
      <4>6. Mapped(f[k], r) = Mapped(f[0], r) \cup Until(K, V, k)
        BY <3>2, <4>4, <4>5 DEF Holds, More
      <4>7. \A x \in Mapped(f[0], r) : Row(f[k], r, x) = Row(f[0], r, x)
        BY <3>2, <4>4 DEF Holds, More
      <4>8. \A l \in K : l <= k => Row(f[k], r, V[l]) = page[l]
        <5> SUFFICES ASSUME NEW l \in K, l <= k PROVE Row(f[k], r, V[l]) = page[l]
          OBVIOUS
        <5>1. CASE l = k
          BY <4>4, <5>1 DEF More
        <5>2. CASE l <= i
          <6>1. V[l] \in Mapped(f[i], r)
            BY <3>2, <5>2 DEF Holds, Until
          <6>2. Row(f[i], r, V[l]) = page[l]
            BY <3>2, <5>2 DEF Holds
          <6> QED
            BY <4>4, <6>1, <6>2 DEF More
        <5> QED
          BY <2>2, <5>1, <5>2
      <4>9. Holds(n, b, r, f, K, V, page, k)
        BY <4>4, <4>6, <4>7, <4>8 DEF Holds
      <4> QED
        BY <2>1, <4>9 DEF k
    <3> QED
      BY <3>3, <3>4
  <2> QED
    BY <2>3, <2>4
<1> HIDE DEF P
<1>6. 0 .. N \subseteq P
  BY <1>4, <1>5, UpTo
<1> QED
  BY <1>3, <1>6 DEF P

-----------------------------------------------------------------------------
(* Paths in the order of four loops.                                        *)

\* A number is made of its quotient and remainder.
LEMMA Quotient ==
  ASSUME NEW k \in Nat, NEW e \in Nat \ {0}
  PROVE  /\ k \div e \in Nat /\ k % e \in 0 .. e - 1
         /\ k = (k \div e) * e + (k % e)
OBVIOUS

\* And they are its quotient and remainder.
LEMMA Digit ==
  ASSUME NEW a \in Nat, NEW e \in Nat \ {0}, NEW b \in 0 .. e - 1
  PROVE  a * e + b \in Nat /\ (a * e + b) \div e = a /\ (a * e + b) % e = b
<1> DEFINE x == a * e + b
           y == a * e
           q == x \div e
           z == q * e
           s == x % e
<1>1. y \in Nat /\ x \in Nat
  <2>1. a * e \in Nat
    OBVIOUS
  <2> QED
    BY <2>1
<1>2. q \in Nat /\ s \in 0 .. e - 1 /\ x = z + s
  <2> HIDE DEF x
  <2> QED
    BY <1>1, Quotient
<1>3. z + s = y + b
  BY <1>2
<1> HIDE DEF q, s
<1>4. z \in Nat
  BY <1>2
<1>5. ASSUME q < a
      PROVE  FALSE
  <2>1. y >= (q + 1) * e /\ (q + 1) * e = z + e
    BY <1>2, <1>5
  <2> HIDE DEF y, z
  <2> QED
    BY <1>1, <1>2, <1>3, <1>4, <2>1
<1>6. ASSUME q > a
      PROVE  FALSE
  <2>1. z >= (a + 1) * e /\ (a + 1) * e = y + e
    BY <1>2, <1>6
  <2> HIDE DEF y, z
  <2> QED
    BY <1>1, <1>2, <1>3, <1>4, <2>1
<1>7. q = a
  BY <1>2, <1>5, <1>6
<1>8. s = b
  <2>1. z = y
    BY <1>7
  <2> HIDE DEF y, z
  <2> QED
    BY <1>1, <1>2, <1>3, <2>1
<1> QED
  BY <1>1, <1>7, <1>8 DEF q, s

\* Below a bound.
LEMMA DigitBound ==
  ASSUME NEW a \in Nat, NEW e \in Nat \ {0}, NEW b \in 0 .. e - 1, NEW p \in Nat, a < p
  PROVE  a * e + b < p * e
<1> DEFINE y == a * e
           z == p * e
<1>1. y \in Nat /\ z \in Nat
  OBVIOUS
<1>2. z >= (a + 1) * e /\ (a + 1) * e = y + e
  OBVIOUS
<1> HIDE DEF y, z
<1>3. y + b < z
  BY <1>1, <1>2
<1> QED
  BY <1>3 DEF y, z

Hi(k) == k \div Entries
Lo(k) == k % Entries

LEMMA HiLo ==
  ASSUME NEW k \in Nat
  PROVE  Hi(k) \in Nat /\ Lo(k) \in Idx /\ k = Hi(k) * Entries + Lo(k)
<1>1. Entries \in Nat \ {0}
  BY Indices
<1> QED
  BY <1>1, Quotient DEF Hi, Lo, Idx

LEMMA HiLoOf ==
  ASSUME NEW a \in Nat, NEW b \in Idx
  PROVE  a * Entries + b \in Nat /\ Hi(a * Entries + b) = a /\ Lo(a * Entries + b) = b
<1>1. Entries \in Nat \ {0}
  BY Indices
<1>2. b \in 0 .. Entries - 1
  BY DEF Idx
<1> QED
  BY <1>1, <1>2, Digit DEF Hi, Lo

LEMMA PathIs == \A k : Path(k) = <<Hi(Hi(Hi(k))), Lo(Hi(Hi(k))), Lo(Hi(k)), Lo(k)>>
BY DEF Path, Hi, Lo

LEMMA PathOnce ==
  ASSUME NEW k \in Nat, NEW l \in Nat, Path(k) = Path(l)
  PROVE  k = l
<1>1. /\ Hi(Hi(Hi(k))) = Hi(Hi(Hi(l))) /\ Lo(Hi(Hi(k))) = Lo(Hi(Hi(l)))
      /\ Lo(Hi(k)) = Lo(Hi(l)) /\ Lo(k) = Lo(l)
  BY PathIs
<1>2. \A x, y \in Nat : Hi(x) = Hi(y) /\ Lo(x) = Lo(y) => x = y
  BY HiLo
<1>3. \A x \in Nat : Hi(x) \in Nat
  BY HiLo
<1>4. Hi(Hi(k)) = Hi(Hi(l))
  BY <1>1, <1>2, <1>3
<1>5. Hi(k) = Hi(l)
  BY <1>1, <1>2, <1>3, <1>4
<1> QED
  BY <1>1, <1>2, <1>5

LEMMA PathOnto ==
  ASSUME NEW va \in Addresses
  PROVE  \E k \in 1 .. Paths : Path(k - 1) = va
<1> DEFINE x == va[1] * Entries + va[2]
           y == x * Entries + va[3]
           z == y * Entries + va[4]
<1>1. /\ va[1] \in Idx /\ va[2] \in Idx /\ va[3] \in Idx /\ va[4] \in Idx
      /\ va = <<va[1], va[2], va[3], va[4]>>
  BY AddressIs
<1>2. /\ Entries \in Nat \ {0} /\ va[1] \in Nat
      /\ \A i \in Idx : i \in 0 .. Entries - 1 /\ i < Entries
  BY <1>1, Indices DEF Idx
<1> DEFINE e2 == Entries * Entries
           e3 == e2 * Entries
           e4 == e3 * Entries
<1>3. e4 = Paths
  BY DEF Paths
<1>4. e2 \in Nat
  BY <1>2
<1> HIDE DEF e2
<1>5. e3 \in Nat
  BY <1>2, <1>4
<1> HIDE DEF e3
<1>6. e4 \in Nat
  BY <1>2, <1>5
<1> HIDE DEF e4
<1>7. x \in Nat /\ Hi(x) = va[1] /\ Lo(x) = va[2] /\ x < e2
  BY <1>1, <1>2, HiLoOf, DigitBound DEF e2
<1> HIDE DEF x
<1>8. y \in Nat /\ Hi(y) = x /\ Lo(y) = va[3] /\ y < e3
  BY <1>1, <1>2, <1>4, <1>7, HiLoOf, DigitBound DEF e3
<1> HIDE DEF y
<1>9. z \in Nat /\ Hi(z) = y /\ Lo(z) = va[4] /\ z < e4
  BY <1>1, <1>2, <1>5, <1>8, HiLoOf, DigitBound DEF e4
<1> HIDE DEF z
<1>10. Path(z) = va
  BY <1>1, <1>7, <1>8, <1>9, PathIs
<1> DEFINE k == z + 1
<1>11. k \in 1 .. Paths /\ k - 1 = z
  BY <1>3, <1>6, <1>9
<1> QED
  BY <1>10, <1>11

-----------------------------------------------------------------------------
(* The spaces that elf_load, the stack and a clone make.                    *)

LEMMA ElfLoaded ==
  ASSUME NEW n \in Nat \ {0}, NEW m \in Mem(n), kpml4 \in Phys(n), NEW prog \in Programs
  PROVE  LET got == ElfLoad(m, prog)
         IN  /\ got.m \in Mem(n) /\ got.f \in Phys(n) /\ Grown(m, got.m)
             /\ ~got.m.short =>
                  /\ Built(n, m, got.f, got.m) /\ got.f \notin m.used
                  /\ Mapped(got.m, got.f) = DOMAIN Image(prog)
                  /\ \A va \in DOMAIN Image(prog) : Row(got.m, got.f, va) = Image(prog)[va]
                  /\ \A k \in 1 .. Len(Stack) : Stack[k] \notin Mapped(got.m, got.f)
<1> DEFINE c == CreateSpace(m)
           r == c.f
           N == Len(prog)
           K == 1 .. N
           V == [k \in 1 .. N |-> prog[k].va]
           page == [k \in 1 .. N |-> [Blank EXCEPT ![0] = prog[k].val]]
<1>1. /\ N \in Nat /\ \A k \in 1 .. N : prog[k].va \in UserPaths
      /\ \A i, j \in 1 .. N : prog[i].va = prog[j].va => i = j
      /\ \A i \in 1 .. N, j \in 1 .. Len(Stack) : prog[i].va # Stack[j]
  BY ImageIs
<1>2. /\ c.m \in Mem(n) /\ r \in Phys(n) /\ Grown(m, c.m) /\ c = [m |-> c.m, f |-> c.f]
      /\ ~c.m.short => Built(n, m, r, c.m) /\ Mapped(c.m, r) = {} /\ r \notin m.used
  BY CreateSpaceIs
<1>3. PICK f \in [0 .. N -> Mem(n)] :
         /\ f[0] = c.m /\ \A k \in 1 .. N : f[k] = LoadStep(r, prog, f[k - 1], k)
         /\ ElfLoad(m, prog) = [c EXCEPT !.m = f[N]]
  BY LoadIs
<1> HIDE DEF c
<1>4. ElfLoad(m, prog).m = f[N] /\ ElfLoad(m, prog).f = r
  BY <1>2, <1>3
<1>5. \A k \in 1 .. N : k - 1 \in 0 .. N /\ f[k - 1] \in Mem(n)
  BY <1>1
<1>6. Rises(N, f)
  BY <1>2, <1>3, <1>5, LoadStepType DEF Rises
<1>7. Grown(f[0], f[N]) /\ f[N] \in Mem(n)
  BY <1>1, <1>6, LoopGrown
<1>8. Grown(m, f[N])
  BY <1>2, <1>3, <1>7, GrownOn
<1>9. ASSUME ~f[N].short
      PROVE  /\ Built(n, m, r, f[N]) /\ r \notin m.used
             /\ Mapped(f[N], r) = DOMAIN Image(prog)
             /\ \A va \in DOMAIN Image(prog) : Row(f[N], r, va) = Image(prog)[va]
             /\ \A k \in 1 .. Len(Stack) : Stack[k] \notin Mapped(f[N], r)
  <2>1. ~c.m.short
    BY <1>3, <1>7, <1>9 DEF Grown
  <2>2. Puts(n, r, N, f, K, V, page)
    <3>1. \A k \in K : V[k] \in UserPaths /\ \A l \in K : V[k] = V[l] => k = l
      BY <1>1
    <3>2. \A k \in K : /\ page[k] \in [Idx -> Word(n)]
                       /\ f[k] = PutPage(f[k - 1], r, V[k], page[k])
      <4> SUFFICES ASSUME NEW k \in K
                   PROVE  /\ page[k] \in [Idx -> Word(n)]
                          /\ f[k] = PutPage(f[k - 1], r, V[k], page[k])
        OBVIOUS
      <4>1. V[k] = prog[k].va /\ page[k] = [Blank EXCEPT ![0] = prog[k].val]
        OBVIOUS
      <4> HIDE DEF V, page
      <4>2. f[k] = PutPage(f[k - 1], r, V[k], page[k])
        BY <1>3, <4>1 DEF LoadStep
      <4>3. [Blank EXCEPT ![0] = prog[k].val] \in [Idx -> Word(n)]
        BY <1>2, <1>5, LoadStepType
      <4> QED
        BY <4>1, <4>2, <4>3
    <3> HIDE DEF V, page
    <3> QED
      BY <3>1, <3>2 DEF Puts
  <2>3. \A k \in K : V[k] \notin Mapped(f[0], r)
    BY <1>2, <1>3, <2>1
  <2>4. Until(K, V, N) = DOMAIN Image(prog)
    <3>1. \A x : x \in Until(K, V, N) <=> \E k \in 1 .. N : x = prog[k].va
      BY <1>1 DEF Until
    <3> HIDE DEF K, V
    <3>2. \A x : x \in Until(K, V, N) <=> x \in DOMAIN Image(prog)
      BY <3>1, ImagePages
    <3> QED
      BY <3>2
  <2>7. \A k \in 1 .. N : /\ k \in K /\ k <= N /\ V[k] = prog[k].va
                          /\ page[k] = Image(prog)[prog[k].va]
    BY <1>1, ImagePages
  <2> HIDE DEF V, page, K
  <2>5. Holds(n, m, r, f, K, V, page, N)
    <3>1. Built(n, m, r, f[0])
      BY <1>2, <1>3, <2>1
    <3>2. \A i \in 0 .. N : ~f[i].short => Holds(n, m, r, f, K, V, page, i)
      BY <1>1, <1>2, <2>2, <2>3, <3>1, PutsIs
    <3>3. N \in 0 .. N
      BY <1>1
    <3> QED
      BY <1>9, <3>2, <3>3
  <2>6. Built(n, m, r, f[N]) /\ Mapped(f[N], r) = DOMAIN Image(prog)
    BY <1>2, <1>3, <2>1, <2>4, <2>5 DEF Holds
  <2>8. ASSUME NEW va \in DOMAIN Image(prog)
        PROVE  Row(f[N], r, va) = Image(prog)[va]
    <3>1. PICK k \in 1 .. N : va = prog[k].va
      BY ImagePages
    <3> QED
      BY <2>5, <2>7, <3>1 DEF Holds
  <2>9. ASSUME NEW k \in 1 .. Len(Stack)
        PROVE  Stack[k] \notin Mapped(f[N], r)
    BY <1>1, <2>6, ImagePages
  <2> QED
    BY <1>2, <2>1, <2>6, <2>8, <2>9
<1> QED
  BY <1>2, <1>4, <1>7, <1>8, <1>9

LEMMA StackType ==
  ASSUME NEW n \in Nat \ {0}, NEW m \in Mem(n), NEW r \in Phys(n)
  PROVE  AddStack(m, r) \in Mem(n) /\ Grown(m, AddStack(m, r))
<1> DEFINE N == Len(Stack)
<1>1. N \in Nat
  BY StackIs
<1>2. PICK f \in [0 .. N -> Mem(n)] :
         /\ f[0] = m /\ \A k \in 1 .. N : f[k] = StackStep(r, f[k - 1], k)
         /\ AddStack(m, r) = f[N]
  BY AddStackIs
<1>3. \A k \in 1 .. N : k - 1 \in 0 .. N /\ f[k - 1] \in Mem(n)
  BY <1>1
<1>4. Rises(N, f)
  BY <1>2, <1>3, StackStepType DEF Rises
<1> QED
  BY <1>1, <1>2, <1>4, LoopGrown

LEMMA StackAdded ==
  ASSUME NEW n \in Nat \ {0}, NEW m \in Mem(n), NEW r \in Phys(n), NEW b, Built(n, b, r, m),
         \A k \in 1 .. Len(Stack) : Stack[k] \notin Mapped(m, r),
         ~AddStack(m, r).short
  PROVE  /\ Built(n, b, r, AddStack(m, r))
         /\ Mapped(AddStack(m, r), r) = Mapped(m, r) \cup Range(Stack)
         /\ \A x \in Mapped(m, r) : Row(AddStack(m, r), r, x) = Row(m, r, x)
<1> DEFINE N == Len(Stack)
           K == 1 .. N
<1>1. /\ N \in Nat /\ \A k \in 1 .. N : Stack[k] \in UserPaths
      /\ \A i, j \in 1 .. N : Stack[i] = Stack[j] => i = j
  BY StackIs
<1>2. PICK f \in [0 .. N -> Mem(n)] :
         /\ f[0] = m /\ \A k \in 1 .. N : f[k] = StackStep(r, f[k - 1], k)
         /\ AddStack(m, r) = f[N]
  BY AddStackIs
<1> DEFINE page == [k \in 1 .. N |-> Leftover(f[k - 1])]
<1>3. Puts(n, r, N, f, K, Stack, page)
  <2>1. \A k \in K : /\ page[k] \in [Idx -> Word(n)]
                     /\ f[k] = PutPage(f[k - 1], r, Stack[k], page[k])
    <3> SUFFICES ASSUME NEW k \in K
                 PROVE  /\ page[k] \in [Idx -> Word(n)]
                        /\ f[k] = PutPage(f[k - 1], r, Stack[k], page[k])
      OBVIOUS
    <3>1. page[k] = Leftover(f[k - 1]) /\ k - 1 \in 0 .. N
      BY <1>1
    <3> HIDE DEF page
    <3>2. f[k - 1] \in Mem(n)
      BY <3>1
    <3>3. f[k] = PutPage(f[k - 1], r, Stack[k], page[k])
      BY <1>2, <3>1 DEF StackStep
    <3> QED
      BY <3>1, <3>2, <3>3, LeftoverIs
  <2> HIDE DEF page
  <2> QED
    BY <1>1, <2>1 DEF Puts
<1> HIDE DEF page
<1>4. Holds(n, b, r, f, K, Stack, page, N)
  <2>1. Built(n, b, r, f[0])
    BY <1>2
  <2>2. \A k \in K : Stack[k] \notin Mapped(f[0], r)
    BY <1>2
  <2> HIDE DEF K
  <2>3. \A i \in 0 .. N : ~f[i].short => Holds(n, b, r, f, K, Stack, page, i)
    BY <1>1, <1>3, <2>1, <2>2, PutsIs
  <2>4. N \in 0 .. N
    BY <1>1
  <2> QED
    BY <1>2, <2>3, <2>4
<1>5. Until(K, Stack, N) = Range(Stack)
  BY <1>1, StackIs DEF Until
<1> QED
  BY <1>2, <1>4, <1>5 DEF Holds

LEMMA HeapBacked ==
  ASSUME NEW n \in Nat \ {0}, NEW m \in Mem(n), NEW r \in Phys(n)
  PROVE  BackHeap(m, r) \in Mem(n) /\ Grown(m, BackHeap(m, r))
<1> DEFINE N == HeapPages
<1>1. N \in Nat
  BY FramesAssumption
<1>2. PICK f \in [0 .. N -> Mem(n)] :
         /\ f[0] = m /\ \A k \in 1 .. N : f[k] = HeapStep(r, f[k - 1], k)
         /\ BackHeap(m, r) = f[N]
  BY BackHeapIs
<1> HIDE DEF N
<1>3. \A k \in 1 .. N : k - 1 \in 0 .. N /\ f[k - 1] \in Mem(n)
  BY <1>1
<1>4. Rises(N, f)
  BY <1>2, <1>3, HeapStepType DEF N, Rises
<1> QED
  BY <1>1, <1>2, <1>4, LoopGrown

LEMMA CloneType ==
  ASSUME NEW n \in Nat \ {0}, NEW m \in Mem(n), kpml4 \in Phys(n), NEW src \in Phys(n)
  PROVE  LET got == CloneSpace(m, src)
         IN  got.m \in Mem(n) /\ got.f \in Phys(n) /\ Grown(m, got.m)
<1> DEFINE c == CreateSpace(m)
           r == c.f
           N == Paths
<1>1. N \in Nat
  BY PathsIs
<1>2. c.m \in Mem(n) /\ r \in Phys(n) /\ Grown(m, c.m) /\ c = [m |-> c.m, f |-> c.f]
  BY CreateSpaceIs
<1>3. PICK f \in [0 .. N -> Mem(n)] :
         /\ f[0] = c.m /\ \A k \in 1 .. N : f[k] = CopyStep(src, r, f[k - 1], k)
         /\ CloneSpace(m, src) = [c EXCEPT !.m = f[N]]
  BY CloneIs
<1> HIDE DEF c, N
<1>4. CloneSpace(m, src).m = f[N] /\ CloneSpace(m, src).f = r
  BY <1>2, <1>3
<1>5. \A k \in 1 .. N : k - 1 \in 0 .. N /\ f[k - 1] \in Mem(n)
  BY <1>1
<1>6. Rises(N, f)
  BY <1>2, <1>3, <1>5, CopyStepType DEF Rises
<1>7. Grown(f[0], f[N]) /\ f[N] \in Mem(n)
  BY <1>1, <1>6, LoopGrown
<1>8. Grown(m, f[N])
  BY <1>2, <1>3, <1>7, GrownOn
<1> QED
  BY <1>2, <1>4, <1>7, <1>8

\* The same pages, with the same in them.
LEMMA Cloned ==
  ASSUME NEW n \in Nat \ {0}, NEW m \in Mem(n), kpml4 \in Phys(n), NEW src \in Phys(n),
         NEW Ts, NEW ls, Tree(n, m, src, Ts, ls), Ts \subseteq m.used,
         ~CloneSpace(m, src).m.short
  PROVE  LET got == CloneSpace(m, src)
         IN  /\ Built(n, m, got.f, got.m) /\ got.f \notin m.used
             /\ Mapped(got.m, got.f) = Mapped(m, src)
             /\ \A va \in Mapped(m, src) : Row(got.m, got.f, va) = Row(m, src, va)
<1> DEFINE c == CreateSpace(m)
           r == c.f
           N == Paths
<1>1. N \in Nat /\ n \in Nat
  BY PathsIs
<1>2. /\ c.m \in Mem(n) /\ r \in Phys(n) /\ Grown(m, c.m) /\ c = [m |-> c.m, f |-> c.f]
      /\ ~c.m.short => Built(n, m, r, c.m) /\ Mapped(c.m, r) = {} /\ r \notin m.used
  BY CreateSpaceIs
<1>3. PICK f \in [0 .. N -> Mem(n)] :
         /\ f[0] = c.m /\ \A k \in 1 .. N : f[k] = CopyStep(src, r, f[k - 1], k)
         /\ CloneSpace(m, src) = [c EXCEPT !.m = f[N]]
  BY CloneIs
<1> HIDE DEF c, N
<1>4. CloneSpace(m, src).m = f[N] /\ CloneSpace(m, src).f = r
  BY <1>2, <1>3
<1>5. \A k \in 1 .. N : k - 1 \in 0 .. N /\ f[k - 1] \in Mem(n)
  BY <1>1
<1>6. Rises(N, f)
  BY <1>2, <1>3, <1>5, CopyStepType DEF Rises
<1>7. \A i \in 0 .. N : ~f[i].short
  <2>1. \A i \in 0 .. N : Grown(f[i], f[N])
    BY <1>1, <1>6, LoopGrown
  <2> QED
    BY <1>4, <2>1 DEF Grown
<1>8. /\ f[0] = c.m /\ Built(n, m, r, f[0]) /\ Mapped(f[0], r) = {} /\ r \notin m.used
  BY <1>1, <1>2, <1>3, <1>7
<1> DEFINE V == [k \in 1 .. N |-> Path(k - 1)]
           K == {k \in 1 .. N : V[k] \in Mapped(f[k - 1], src)}
           page == [k \in 1 .. N |-> Row(f[k - 1], src, V[k])]
<1>9. \A k \in 1 .. N : V[k] = Path(k - 1) /\ page[k] = Row(f[k - 1], src, V[k])
  OBVIOUS
<1>10. K \subseteq 1 .. N /\ \A k \in 1 .. N : k \in K <=> V[k] \in Mapped(f[k - 1], src)
  OBVIOUS
<1> HIDE DEF V, K, page
<1>11. \A k, l \in 1 .. N : V[k] = V[l] => k = l
  <2> SUFFICES ASSUME NEW k \in 1 .. N, NEW l \in 1 .. N, V[k] = V[l] PROVE k = l
    OBVIOUS
  <2>1. k - 1 \in Nat /\ l - 1 \in Nat /\ Path(k - 1) = Path(l - 1)
    BY <1>9
  <2>2. k - 1 = l - 1
    BY <2>1, PathOnce
  <2> QED
    BY <2>2
<1>12. \A k \in 1 .. N : k \notin K => f[k] = f[k - 1]
  BY <1>3, <1>9, <1>10 DEF CopyStep, CopyPage
<1>13. ASSUME NEW k \in K
       PROVE  /\ V[k] \in UserPaths /\ page[k] \in [Idx -> Word(n)]
              /\ f[k] = PutPage(f[k - 1], r, V[k], page[k])
  <2>1. k \in 1 .. N /\ V[k] \in Mapped(f[k - 1], src)
    BY <1>10
  <2>2. V[k] \in UserPaths /\ IsMapped(f[k - 1], src, V[k])
    BY <2>1 DEF Mapped
  <2>3. page[k] \in [Idx -> Word(n)]
    BY <1>1, <1>5, <1>9, <2>1, <2>2, WalkType
  <2>4. f[k] = PutPage(f[k - 1], r, V[k], page[k])
    BY <1>3, <1>9, <2>1 DEF CopyStep, CopyPage, Row
  <2> QED
    BY <2>2, <2>3, <2>4
<1>14. Puts(n, r, N, f, K, V, page)
  BY <1>10, <1>11, <1>12, <1>13 DEF Puts
<1>15. \A i \in 0 .. N : Holds(n, m, r, f, K, V, page, i)
  <2>1. \A k \in K : V[k] \notin Mapped(f[0], r)
    BY <1>8
  <2>2. \A i \in 0 .. N : ~f[i].short => Holds(n, m, r, f, K, V, page, i)
    BY <1>1, <1>2, <1>8, <1>14, <2>1, PutsIs
  <2> QED
    BY <1>7, <2>2
<1>16. \A i \in 0 .. N : /\ Mapped(f[i], src) = Mapped(m, src)
                         /\ \A va \in Mapped(m, src) : Row(f[i], src, va) = Row(m, src, va)
  <2> SUFFICES ASSUME NEW i \in 0 .. N
               PROVE  /\ Mapped(f[i], src) = Mapped(m, src)
                      /\ \A va \in Mapped(m, src) : Row(f[i], src, va) = Row(m, src, va)
    OBVIOUS
  <2>1. \A h \in Ts : f[i].word[h] = m.word[h]
    BY <1>15 DEF Holds, Built
  <2>2. /\ Mapped(f[i], src) = Mapped(m, src)
        /\ \A va \in Mapped(m, src) : Page(f[i], src, va) = Page(m, src, va)
    <3>1. SameTables(Ts, ls, m, f[i])
      BY <2>1 DEF SameTables
    <3> QED
      BY <1>1, <3>1, SameWalks
  <2>3. \A va \in Mapped(m, src) : Page(m, src, va) \in Ts
    BY <1>1, WalkIs DEF Mapped
  <2> QED
    BY <2>1, <2>2, <2>3 DEF Row
<1>17. \A va \in Mapped(m, src) : \E k \in K : k <= N /\ V[k] = va /\ page[k] = Row(m, src, va)
  <2> SUFFICES ASSUME NEW va \in Mapped(m, src)
               PROVE  \E k \in K : k <= N /\ V[k] = va /\ page[k] = Row(m, src, va)
    OBVIOUS
  <2>1. va \in Addresses
    BY AddressIs DEF Mapped
  <2>2. PICK k \in 1 .. N : Path(k - 1) = va
    BY <2>1, PathOnto DEF N
  <2>3. V[k] = va /\ k - 1 \in 0 .. N /\ k <= N
    BY <1>5, <1>9, <2>2
  <2>4. k \in K /\ page[k] = Row(m, src, va)
    BY <1>9, <1>10, <1>16, <2>3
  <2> QED
    BY <2>3, <2>4
<1>18. \A k \in K : V[k] \in Mapped(m, src)
  BY <1>5, <1>10, <1>16
<1>19. Until(K, V, N) = Mapped(m, src)
  BY <1>17, <1>18 DEF Until
<1>20. Holds(n, m, r, f, K, V, page, N)
  BY <1>1, <1>15
<1>21. /\ Built(n, m, r, f[N]) /\ Mapped(f[N], r) = Mapped(m, src)
       /\ \A va \in Mapped(m, src) : Row(f[N], r, va) = Row(m, src, va)
  BY <1>8, <1>17, <1>19, <1>20 DEF Holds
<1> QED
  BY <1>4, <1>8, <1>21

-----------------------------------------------------------------------------
(* What a space owns is its tree.                                           *)

LEMMA KidsAre ==
  ASSUME NEW m, NEW S, NEW lo, NEW x
  PROVE  x \in Kids(m, S, lo) <=>
           \E t \in S, i \in lo .. Entries - 1 : Present(m.word[t][i]) /\ x = To(m, t, i)
BY DEF Kids, To

Level(T, lvl, k) == {f \in T : lvl[f] = k}

LEMMA KidsOfLevel ==
  ASSUME NEW n \in Nat, NEW m, NEW r, NEW T, NEW lvl, Tree(n, m, r, T, lvl),
         NEW k \in 0 .. 3, NEW lo \in {0, 1}, lo = 1 <=> k = 0
  PROVE  Kids(m, Level(T, lvl, k), lo) = Level(T, lvl, k + 1)
<1>1. /\ lvl \in [Phys(n) -> 0 .. 4] /\ T \subseteq Phys(n)
      /\ r \in T /\ lvl[r] = 0 /\ \A f \in T : lvl[f] = 0 => f = r
      /\ \A f \in T, i \in Idx : Slot(m, lvl, f, i) =>
           To(m, f, i) \in T /\ lvl[To(m, f, i)] = lvl[f] + 1
      /\ \A g \in T \ {r} : \E f \in T, i \in Idx : Slot(m, lvl, f, i) /\ To(m, f, i) = g
  BY DEF Tree, Top, Downward, AllNamed
<1>2. \A i : i \in lo .. Entries - 1 <=> i \in Idx /\ (k = 0 => i # 0)
  BY Indices DEF Idx
<1>3. \A f \in Level(T, lvl, k), i \in Idx :
        Slot(m, lvl, f, i) <=> (k = 0 => i # 0) /\ Present(m.word[f][i])
  BY <1>1 DEF Level, Slot
<1>4. ASSUME NEW x \in Kids(m, Level(T, lvl, k), lo)
      PROVE  x \in Level(T, lvl, k + 1)
  <2>1. PICK t \in Level(T, lvl, k), i \in lo .. Entries - 1 :
           Present(m.word[t][i]) /\ x = To(m, t, i)
    BY KidsAre
  <2>2. t \in T /\ lvl[t] = k /\ i \in Idx /\ Slot(m, lvl, t, i)
    BY <1>2, <1>3, <2>1 DEF Level
  <2> QED
    BY <1>1, <2>1, <2>2 DEF Level
<1>5. ASSUME NEW x \in Level(T, lvl, k + 1)
      PROVE  x \in Kids(m, Level(T, lvl, k), lo)
  <2>1. x \in T /\ lvl[x] = k + 1 /\ x # r
    BY <1>1 DEF Level
  <2>2. PICK f \in T, i \in Idx : Slot(m, lvl, f, i) /\ To(m, f, i) = x
    BY <1>1, <2>1
  <2>3. lvl[f] \in Nat /\ lvl[x] = lvl[f] + 1
    BY <1>1, <2>2
  <2>4. f \in Level(T, lvl, k)
    BY <2>1, <2>3 DEF Level
  <2>5. i \in lo .. Entries - 1 /\ Present(m.word[f][i])
    BY <1>2, <1>3, <2>2, <2>4
  <2> QED
    BY <2>2, <2>4, <2>5, KidsAre
<1> QED
  BY <1>4, <1>5

\* The tree, level by level.
Layers(m, r, T, L1, L2, L3, L4) ==
  /\ Kids(m, {r}, 1) = L1 /\ Kids(m, L1, 0) = L2 /\ Kids(m, L2, 0) = L3 /\ Kids(m, L3, 0) = L4
  /\ T = {r} \cup L1 \cup L2 \cup L3 \cup L4

LEMMA LayersAre ==
  ASSUME NEW n \in Nat, NEW m, NEW r, NEW T, NEW lvl, Tree(n, m, r, T, lvl)
  PROVE  Layers(m, r, T, Level(T, lvl, 1), Level(T, lvl, 2), Level(T, lvl, 3), Level(T, lvl, 4))
<1>1. {r} = Level(T, lvl, 0)
  BY DEF Tree, Top, Level
<1>2. Kids(m, {r}, 1) = Level(T, lvl, 0 + 1)
  BY <1>1, KidsOfLevel
<1>3. /\ Kids(m, Level(T, lvl, 1), 0) = Level(T, lvl, 1 + 1)
      /\ Kids(m, Level(T, lvl, 2), 0) = Level(T, lvl, 2 + 1)
      /\ Kids(m, Level(T, lvl, 3), 0) = Level(T, lvl, 3 + 1)
  BY KidsOfLevel
<1>4. \A f \in T : lvl[f] \in 0 .. 4
  BY DEF Tree
<1>5. T = Level(T, lvl, 0) \cup Level(T, lvl, 1) \cup Level(T, lvl, 2) \cup Level(T, lvl, 3)
            \cup Level(T, lvl, 4)
  BY <1>4 DEF Level
<1> QED
  BY <1>1, <1>2, <1>3, <1>5 DEF Layers

LEMMA TreeIsOwned ==
  ASSUME NEW n \in Nat, NEW m, NEW r, NEW T, NEW lvl, Tree(n, m, r, T, lvl)
  PROVE  Owned(m, r) = T
<1> DEFINE L1 == Level(T, lvl, 1)
           L2 == Level(T, lvl, 2)
           L3 == Level(T, lvl, 3)
           L4 == Level(T, lvl, 4)
<1>1. Layers(m, r, T, L1, L2, L3, L4)
  BY LayersAre
<1>2. Owned(m, r) =
        {r} \cup Kids(m, {r}, 1) \cup Kids(m, Kids(m, {r}, 1), 0)
            \cup Kids(m, Kids(m, Kids(m, {r}, 1), 0), 0)
            \cup Kids(m, Kids(m, Kids(m, Kids(m, {r}, 1), 0), 0), 0)
  BY Zenon DEF Owned
<1> HIDE DEF L1, L2, L3, L4
<1> QED
  BY <1>1, <1>2 DEF Layers

\* Each of its frames but the root is named once.
LEMMA TreeNames ==
  ASSUME NEW n \in Nat, ram \in Mem(n), NEW r, NEW T, NEW lvl, Tree(n, ram, r, T, lvl),
         NEW g \in T \ {r}
  PROVE  Names(r, g) = 1
<1> DEFINE from(S, lo) == {e \in S \X (lo .. Entries - 1) : ram.word[e[1]][e[2]] = Entry(g)}
           U == Level(T, lvl, 1) \cup Level(T, lvl, 2) \cup Level(T, lvl, 3)
           All == from({r}, 1) \cup from(U, 0)
<1>1. Names(r, g) = Cardinality(All)
  <2> DEFINE L1 == Level(T, lvl, 1)
             L2 == Level(T, lvl, 2)
             L3 == Level(T, lvl, 3)
             L4 == Level(T, lvl, 4)
  <2>1. Layers(ram, r, T, L1, L2, L3, L4)
    BY LayersAre
  <2> DEFINE K1 == Kids(ram, {r}, 1)
             K2 == Kids(ram, K1, 0)
             K3 == Kids(ram, K2, 0)
  <2>2. Names(r, g) = Cardinality(from({r}, 1) \cup from(K1 \cup K2 \cup K3, 0))
    BY Zenon DEF Names
  <2>3. K1 = L1 /\ K2 = L2 /\ K3 = L3
    <3> HIDE DEF L1, L2, L3, L4
    <3> QED
      BY <2>1 DEF Layers
  <2> HIDE DEF L1, L2, L3, L4, K1, K2, K3, from
  <2> QED
    BY <2>2, <2>3 DEF L1, L2, L3
<1>2. /\ lvl \in [Phys(n) -> 0 .. 4] /\ T \subseteq Phys(n)
      /\ r \in T /\ lvl[r] = 0 /\ \A f \in T : lvl[f] = 0 => f = r
      /\ \A f, h \in T, i, j \in Idx :
           Slot(ram, lvl, f, i) /\ Slot(ram, lvl, h, j) /\ To(ram, f, i) = To(ram, h, j) =>
             f = h /\ i = j
  BY DEF Tree, Top, NamedOnce
<1>3. PICK f \in T, i \in Idx : Slot(ram, lvl, f, i) /\ To(ram, f, i) = g
  BY DEF Tree, AllNamed
<1>4. g \in Nat
  BY <1>2, WordIs
<1>5. \A h \in T, j \in Idx : ram.word[h][j] \in Nat
  BY <1>2, MemIs, WordIs
<1>6. \A h \in T, j \in Idx :
        Slot(ram, lvl, h, j) /\ ram.word[h][j] = Entry(g) <=> h = f /\ j = i
  <2>1. ram.word[f][i] = Entry(g)
    BY <1>3, <1>5, EntryIs DEF Slot, To
  <2>2. \A h \in T, j \in Idx : ram.word[h][j] = Entry(g) => To(ram, h, j) = g
    BY <1>4, EntryIs DEF To
  <2> QED
    BY <1>2, <1>3, <2>1, <2>2
<1>7. \A h, j : /\ <<h, j>> \in from({r}, 1) <=>
                     h = r /\ j \in Idx /\ j # 0 /\ ram.word[h][j] = Entry(g)
                /\ <<h, j>> \in from(U, 0) <=>
                     h \in T /\ lvl[h] \in 1 .. 3 /\ j \in Idx /\ ram.word[h][j] = Entry(g)
  <2>1. \A j : (j \in 1 .. Entries - 1 <=> j \in Idx /\ j # 0) /\ (j \in 0 .. Entries - 1 <=> j \in Idx)
    BY Indices DEF Idx
  <2>2. \A h : h \in U <=> h \in T /\ lvl[h] \in 1 .. 3
    BY DEF Level
  <2> HIDE DEF U
  <2> QED
    BY <2>1, <2>2
<1>8. \A h, j : <<h, j>> \in All <=>
         h \in T /\ j \in Idx /\ Slot(ram, lvl, h, j) /\ ram.word[h][j] = Entry(g)
  <2>1. Present(Entry(g))
    BY <1>4, EntryIs
  <2>2. \A h \in T : (lvl[h] = 0 <=> h = r) /\ (lvl[h] < 4 <=> h = r \/ lvl[h] \in 1 .. 3)
    BY <1>2
  <2>3. \A h, j : <<h, j>> \in All <=> <<h, j>> \in from({r}, 1) \/ <<h, j>> \in from(U, 0)
    <3> HIDE DEF from
    <3> QED
      OBVIOUS
  <2> HIDE DEF from, All, U
  <2>4. \A h, j : Slot(ram, lvl, h, j) <=>
                    lvl[h] < 4 /\ (lvl[h] = 0 => j # 0) /\ Present(ram.word[h][j])
    BY DEF Slot
  <2> SUFFICES ASSUME NEW h, NEW j
               PROVE  <<h, j>> \in All <=>
                        /\ h \in T /\ j \in Idx /\ Slot(ram, lvl, h, j)
                        /\ ram.word[h][j] = Entry(g)
    OBVIOUS
  <2>5. CASE h \notin T
    <3>1. h # r
      BY <1>2, <2>5
    <3>2. ~(<<h, j>> \in from({r}, 1))
      BY <1>7, <3>1
    <3>3. ~(<<h, j>> \in from(U, 0))
      BY <1>7, <2>5
    <3> QED
      BY <2>3, <2>5, <3>2, <3>3
  <2>6. CASE h = r
    <3>1. h \in T /\ lvl[h] = 0 /\ ~(lvl[h] \in 1 .. 3)
      BY <1>2, <2>6
    <3>2. <<r, j>> \in from({r}, 1) <=> j \in Idx /\ j # 0 /\ ram.word[r][j] = Entry(g)
      BY <1>7
    <3>3. ~(<<r, j>> \in from(U, 0))
      BY <1>7, <2>6, <3>1
    <3>4. Slot(ram, lvl, r, j) <=> j # 0 /\ Present(ram.word[r][j])
      BY <2>4, <2>6, <3>1
    <3> QED
      BY <2>1, <2>3, <2>6, <3>1, <3>2, <3>3, <3>4
  <2>7. CASE h \in T /\ h # r
    <3>1. lvl[h] # 0 /\ (lvl[h] < 4 <=> lvl[h] \in 1 .. 3)
      BY <2>2, <2>7
    <3> QED
      BY <1>7, <2>1, <2>3, <2>4, <2>7, <3>1
  <2> QED
    BY <1>2, <2>5, <2>6, <2>7
<1>9. All = {<<f, i>>}
  <2>1. \A e \in All : e = <<e[1], e[2]>>
    OBVIOUS
  <2> HIDE DEF All
  <2> QED
    BY <1>3, <1>6, <1>8, <2>1
<1> HIDE DEF All
<1> QED
  BY <1>1, <1>9, FS_Singleton

LEMMA FreeAllIs ==
  ASSUME NEW n \in Nat, NEW m \in Mem(n), NEW F
  PROVE  /\ FreeAll(m, F) \in Mem(n) /\ FreeAll(m, F).used = m.used \ F
         /\ FreeAll(m, F).word = m.word /\ FreeAll(m, F).short = m.short
<1> DEFINE U  == m.used \ F
           c  == m.count - Cardinality(F \cap m.used)
           m2 == [m EXCEPT !.used = U, !.count = c]
<1>1. FreeAll(m, F) = m2
  BY DEF FreeAll
<1>2. m.used \subseteq Phys(n) /\ m.count = Cardinality(m.used)
  BY MemIs
<1>3. c = Cardinality(U) /\ U \subseteq Phys(n) /\ c \in Nat
  <2>1. IsFiniteSet(m.used)
    BY <1>2, FrameSets
  <2>2. Cardinality(U) = Cardinality(m.used) - Cardinality(m.used \cap F)
    BY <2>1, FS_Difference
  <2>3. F \cap m.used = m.used \cap F
    OBVIOUS
  <2>4. U \subseteq Phys(n) /\ Cardinality(U) \in Nat
    BY <1>2, FrameSets
  <2> QED
    BY <1>2, <2>2, <2>3, <2>4
<1> HIDE DEF U, c
<1>4. m2 \in Mem(n) /\ m2.used = U /\ m2.word = m.word /\ m2.short = m.short
  BY <1>3 DEF Mem
<1> QED
  BY <1>1, <1>4 DEF U

LEMMA DestroyType ==
  ASSUME NEW n \in Nat, NEW m \in Mem(n), NEW s
  PROVE  DestroySpace(m, s) \in Mem(n) /\ DestroySpace(m, s).short = m.short
BY FreeAllIs DEF DestroySpace

LEMMA PokeType ==
  ASSUME NEW n \in Nat, NEW m \in Mem(n), NEW r, NEW va, NEW d \in Data
  PROVE  Poke(m, r, va, d) \in Mem(n) /\ Poke(m, r, va, d).short = m.short
<1>1. d \in Word(n)
  BY FramesAssumption, WordIs
<1> QED
  BY <1>1, SetWordType DEF Poke

-----------------------------------------------------------------------------
(* All spaces together.                                                     *)

\* Every frame in use is of base or of one of the spaces S, which are trees.
Forest(n, m, base, S) ==
  /\ m.used = base \cup UNION {Owned(m, s) : s \in S}
  /\ \A s \in S : Owned(m, s) \cap base = {}
  /\ \A s, t \in S : s # t => Owned(m, s) \cap Owned(m, t) = {}
  /\ \A s \in S : \E lvl : Tree(n, m, s, Owned(m, s), lvl)

\* Space s is in m2 what it was in m.
Kept(m, m2, s) ==
  /\ Mapped(m2, s) = Mapped(m, s)
  /\ \A va \in Mapped(m, s) : Row(m2, s, va) = Row(m, s, va)

LEMMA SpaceSame ==
  ASSUME NEW n \in Nat, NEW m, NEW m2, NEW s, NEW lvl, Tree(n, m, s, Owned(m, s), lvl),
         \A h \in Owned(m, s) : m2.word[h] = m.word[h]
  PROVE  Owned(m2, s) = Owned(m, s) /\ Tree(n, m2, s, Owned(m2, s), lvl) /\ Kept(m, m2, s)
<1> DEFINE T == Owned(m, s)
<1>1. Tree(n, m, s, T, lvl) /\ SameTables(T, lvl, m, m2) /\ \A h \in T : m2.word[h] = m.word[h]
  BY DEF SameTables
<1> HIDE DEF T
<1>2. Tree(n, m2, s, T, lvl)
  BY <1>1, SameTree
<1>3. Owned(m2, s) = T
  BY <1>2, TreeIsOwned
<1>4. /\ Mapped(m2, s) = Mapped(m, s)
      /\ \A va \in Mapped(m, s) : Page(m2, s, va) = Page(m, s, va)
  BY <1>1, SameWalks
<1>5. \A va \in Mapped(m, s) : Page(m, s, va) \in T
  BY <1>1, WalkIs DEF Mapped
<1>6. Kept(m, m2, s)
  BY <1>1, <1>4, <1>5 DEF Kept, Row
<1> QED
  BY <1>2, <1>3, <1>6 DEF T

\* A space is added.
LEMMA ForestGrows ==
  ASSUME NEW n \in Nat, NEW m, NEW m2, NEW base, NEW S, Forest(n, m, base, S),
         NEW r, Built(n, m, r, m2)
  PROVE  /\ Forest(n, m2, base, S \cup {r}) /\ r \notin S
         /\ \A s \in S : Kept(m, m2, s)
<1>1. PICK T, lvl : Tree(n, m2, r, T, lvl) /\ m2.used = m.used \cup T /\ T \cap m.used = {}
  BY DEF Built
<1>2. \A h \in m.used : m2.word[h] = m.word[h]
  BY DEF Built
<1>3. r \in T /\ Owned(m2, r) = T
  BY <1>1, TreeIsOwned DEF Tree, Top
<1>4. /\ m.used = base \cup UNION {Owned(m, s) : s \in S}
      /\ \A s \in S : Owned(m, s) \cap base = {}
      /\ \A s, t \in S : s # t => Owned(m, s) \cap Owned(m, t) = {}
      /\ \A s \in S : \E l : Tree(n, m, s, Owned(m, s), l)
  BY DEF Forest
<1>5. base \subseteq m.used /\ \A s \in S : Owned(m, s) \subseteq m.used
  BY <1>4
<1>6. ASSUME NEW s \in S
      PROVE  /\ Owned(m2, s) = Owned(m, s) /\ \E l : Tree(n, m2, s, Owned(m2, s), l)
             /\ Kept(m, m2, s) /\ s \in Owned(m, s)
  <2>1. PICK l : Tree(n, m, s, Owned(m, s), l)
    BY <1>4
  <2>2. \A h \in Owned(m, s) : m2.word[h] = m.word[h]
    BY <1>2, <1>5
  <2>3. s \in Owned(m, s)
    BY <2>1 DEF Tree, Top
  <2> QED
    BY <2>1, <2>2, <2>3, SpaceSame
<1>7. r \notin S
  BY <1>1, <1>3, <1>5, <1>6
<1> DEFINE S2 == S \cup {r}
<1>8. \A s \in S2 : s \in S \/ s = r
  OBVIOUS
<1>9. m2.used = base \cup UNION {Owned(m2, s) : s \in S2}
  <2>1. UNION {Owned(m2, s) : s \in S2} = (UNION {Owned(m, s) : s \in S}) \cup T
    BY <1>3, <1>6, <1>7
  <2> QED
    BY <1>1, <1>4, <2>1
<1> HIDE DEF S2
<1>10. \A s \in S2 : Owned(m2, s) \cap base = {}
  BY <1>1, <1>3, <1>4, <1>5, <1>6, <1>8
<1>11. \A s, t \in S2 : s # t => Owned(m2, s) \cap Owned(m2, t) = {}
  <2>1. \A s \in S : Owned(m2, s) \cap T = {}
    BY <1>1, <1>5, <1>6
  <2>2. \A s, t \in S : s # t => Owned(m2, s) \cap Owned(m2, t) = {}
    BY <1>4, <1>6
  <2> QED
    BY <1>3, <1>8, <2>1, <2>2
<1>12. \A s \in S2 : \E l : Tree(n, m2, s, Owned(m2, s), l)
  BY <1>1, <1>3, <1>6, <1>8
<1>13. Forest(n, m2, base, S2)
  BY <1>9, <1>10, <1>11, <1>12 DEF Forest
<1> QED
  BY <1>6, <1>7, <1>13 DEF S2

\* A space is freed.
LEMMA ForestCut ==
  ASSUME NEW n \in Nat, NEW m, NEW m2, NEW base, NEW S, Forest(n, m, base, S), NEW s \in S,
         m2.used = m.used \ Owned(m, s), m2.word = m.word
  PROVE  /\ Forest(n, m2, base, S \ {s})
         /\ \A t \in S \ {s} : Kept(m, m2, t)
<1>1. /\ m.used = base \cup UNION {Owned(m, t) : t \in S}
      /\ \A t \in S : Owned(m, t) \cap base = {}
      /\ \A t, u \in S : t # u => Owned(m, t) \cap Owned(m, u) = {}
      /\ \A t \in S : \E l : Tree(n, m, t, Owned(m, t), l)
  BY DEF Forest
<1>2. ASSUME NEW t \in S
      PROVE  /\ Owned(m2, t) = Owned(m, t) /\ \E l : Tree(n, m2, t, Owned(m2, t), l)
             /\ Kept(m, m2, t)
  <2>1. PICK l : Tree(n, m, t, Owned(m, t), l)
    BY <1>1
  <2>2. \A h \in Owned(m, t) : m2.word[h] = m.word[h]
    OBVIOUS
  <2> QED
    BY <2>1, <2>2, SpaceSame
<1>3. m2.used = base \cup UNION {Owned(m2, t) : t \in S \ {s}}
  <2>1. UNION {Owned(m2, t) : t \in S \ {s}} = UNION {Owned(m, t) : t \in S \ {s}}
    BY <1>2
  <2>2. UNION {Owned(m, t) : t \in S} = (UNION {Owned(m, t) : t \in S \ {s}}) \cup Owned(m, s)
    OBVIOUS
  <2>3. Owned(m, s) \cap UNION {Owned(m, t) : t \in S \ {s}} = {}
    BY <1>1
  <2>4. Owned(m, s) \cap base = {}
    BY <1>1
  <2> DEFINE A == UNION {Owned(m, t) : t \in S}
             B == UNION {Owned(m, t) : t \in S \ {s}}
             C == UNION {Owned(m2, t) : t \in S \ {s}}
             D == Owned(m, s)
  <2>5. C = B /\ A = B \cup D /\ D \cap B = {} /\ D \cap base = {} /\ m.used = base \cup A
        /\ m2.used = m.used \ D
    BY <1>1, <2>1, <2>2, <2>3, <2>4
  <2> HIDE DEF A, B, C, D
  <2>6. m2.used = base \cup C
    BY <2>5
  <2> QED
    BY <2>6 DEF C
<1> QED
  BY <1>1, <1>2, <1>3 DEF Forest

\* A page of a space is stored to.
LEMMA ForestStored ==
  ASSUME NEW n \in Nat, NEW m \in Mem(n), NEW base, NEW S, Forest(n, m, base, S), NEW s \in S,
         NEW va \in Mapped(m, s), NEW d \in Data
  PROVE  LET m2 == Poke(m, s, va, d)
         IN  /\ Forest(n, m2, base, S)
             /\ \A t \in S \ {s} : Kept(m, m2, t)
             /\ Mapped(m2, s) = Mapped(m, s)
             /\ \A x \in Mapped(m, s) \ {va} : Row(m2, s, x) = Row(m, s, x)
             /\ Row(m2, s, va) = [Row(m, s, va) EXCEPT ![0] = d] /\ Row(m2, s, va)[0] = d
<1> DEFINE p  == Page(m, s, va)
           m2 == SetWord(m, p, 0, d)
<1>1. /\ m.used = base \cup UNION {Owned(m, t) : t \in S}
      /\ \A t \in S : Owned(m, t) \cap base = {}
      /\ \A t, u \in S : t # u => Owned(m, t) \cap Owned(m, u) = {}
      /\ \A t \in S : \E l : Tree(n, m, t, Owned(m, t), l)
  BY DEF Forest
<1>2. PICK lvl : Tree(n, m, s, Owned(m, s), lvl)
  BY <1>1
<1>3. va \in UserPaths /\ IsMapped(m, s, va)
  BY DEF Mapped
<1>4. p \in Owned(m, s) /\ lvl[p] = 4 /\ p \in Phys(n)
  BY <1>2, <1>3, WalkIs DEF Tree
<1>5. d \in Word(n) /\ 0 \in Idx
  BY FramesAssumption, WordIs, Indices
<1>6. Poke(m, s, va, d) = m2
  BY DEF Poke
<1> HIDE DEF p
<1>7. /\ m2.used = m.used /\ \A h \in Phys(n) \ {p} : m2.word[h] = m.word[h]
      /\ m2.word[p] = [m.word[p] EXCEPT ![0] = d] /\ m2.word[p][0] = d
  BY <1>4, <1>5, SetWordIs, SetWordRow
<1> HIDE DEF m2
<1>8. \A t \in S : \A h \in Owned(m, t) : h \in Phys(n)
  BY <1>1 DEF Tree
<1>9. ASSUME NEW t \in S \ {s}
      PROVE  /\ Owned(m2, t) = Owned(m, t) /\ \E l : Tree(n, m2, t, Owned(m2, t), l)
             /\ Kept(m, m2, t)
  <2>1. PICK l : Tree(n, m, t, Owned(m, t), l)
    BY <1>1
  <2>2. \A h \in Owned(m, t) : m2.word[h] = m.word[h]
    BY <1>1, <1>4, <1>7, <1>8
  <2> QED
    BY <2>1, <2>2, SpaceSame
<1> DEFINE T == Owned(m, s)
<1>10. Tree(n, m, s, T, lvl) /\ SameTables(T, lvl, m, m2)
  BY <1>2, <1>4, <1>7, <1>8 DEF SameTables
<1> HIDE DEF T
<1>11. Tree(n, m2, s, T, lvl)
  BY <1>10, SameTree
<1>12. Owned(m2, s) = T
  BY <1>11, TreeIsOwned
<1>13. /\ Mapped(m2, s) = Mapped(m, s)
       /\ \A x \in Mapped(m, s) : Page(m2, s, x) = Page(m, s, x)
  BY <1>10, SameWalks
<1>14. ASSUME NEW x \in Mapped(m, s) \ {va}
       PROVE  Row(m2, s, x) = Row(m, s, x)
  <2>1. x \in UserPaths /\ IsMapped(m, s, x)
    BY DEF Mapped
  <2>2. Page(m, s, x) # p
    BY <1>3, <1>10, <2>1, WalkOnce DEF p
  <2>3. Page(m, s, x) \in T
    BY <1>10, <2>1, WalkIs
  <2>4. m2.word[Page(m, s, x)] = m.word[Page(m, s, x)]
    BY <1>7, <1>8, <2>2, <2>3 DEF T
  <2> QED
    BY <1>13, <2>4 DEF Row
<1>15. \A t \in S : Owned(m2, t) = Owned(m, t) /\ \E l : Tree(n, m2, t, Owned(m2, t), l)
  BY <1>9, <1>11, <1>12 DEF T
<1>16. Forest(n, m2, base, S)
  <2>1. {Owned(m2, t) : t \in S} = {Owned(m, t) : t \in S}
    BY <1>15
  <2>2. m2.used = base \cup UNION {Owned(m2, t) : t \in S}
    BY <1>1, <1>7, <2>1
  <2> QED
    BY <1>1, <1>15, <2>2 DEF Forest
<1>17. Row(m2, s, va) = [Row(m, s, va) EXCEPT ![0] = d] /\ Row(m2, s, va)[0] = d
  BY <1>7, <1>13 DEF Row, p
<1> QED
  BY <1>6, <1>9, <1>13, <1>14, <1>16, <1>17

-----------------------------------------------------------------------------
(* The memory as pmm_init leaves it.                                        *)

\* Frames against addresses: the products stay products for the provers.
At(f) == f * FrameSize

LEMMA AtIs ==
  /\ \A f \in Nat : At(f) \in Nat /\ At(f + 1) = At(f) + FrameSize
  /\ \A f, g \in Nat : f <= g => At(f) <= At(g)
<1>0. FrameSize \in Nat
  BY FramesAssumption
<1>1. \A f \in Nat : At(f) \in Nat /\ At(f + 1) = At(f) + FrameSize
  BY <1>0 DEF At
<1>2. ASSUME NEW f \in Nat, NEW g \in Nat, f <= g
      PROVE  At(f) <= At(g)
  BY <1>0, <1>2 DEF At
<1> QED
  BY <1>1, <1>2

FrameAt(n) == n \div FrameSize

LEMMA FrameOfAddress ==
  ASSUME NEW a \in Nat
  PROVE  FrameAt(a) \in Nat /\ At(FrameAt(a)) <= a /\ a < At(FrameAt(a)) + FrameSize
<1>1. FrameSize \in Nat \ {0}
  BY FramesAssumption
<1> DEFINE q == a \div FrameSize
           r == a % FrameSize
<1>2. q \in Nat /\ r \in 0 .. FrameSize - 1 /\ a = q * FrameSize + r
  BY <1>1, Quotient
<1> HIDE DEF q, r
<1>3. At(q) \in Nat /\ At(q) = q * FrameSize
  BY <1>2, AtIs DEF At
<1>4. At(q) <= a /\ a < At(q) + FrameSize
  <2> DEFINE z == At(q)
  <2>1. z \in Nat /\ a = z + r
    BY <1>2, <1>3
  <2> HIDE DEF z
  <2>2. z <= a /\ a < z + FrameSize
    BY <1>1, <1>2, <2>1
  <2> QED
    BY <2>2 DEF z
<1> QED
  BY <1>2, <1>4 DEF FrameAt, q

\* A frame from RoundUp(a) on begins at a or after it, and one before it does not;
\* one before a \div FrameSize ends by a.
LEMMA Rounded ==
  ASSUME NEW a \in Nat
  PROVE  /\ RoundUp(a) \in Nat
         /\ \A f \in Nat : RoundUp(a) <= f => a <= At(f)
         /\ \A f \in Nat : f < RoundUp(a) => At(f) < a
         /\ \A f \in Nat : f < FrameAt(a) => At(f + 1) <= a
<1>1. FrameSize \in Nat /\ FrameSize > 0
  BY FramesAssumption
<1> DEFINE b == a + FrameSize - 1
           q == FrameAt(b)
           p == FrameAt(a)
<1>2. b \in Nat
  BY <1>1
<1>3. RoundUp(a) = q
  BY DEF RoundUp, FrameAt
<1>4. q \in Nat /\ At(q) <= b /\ b < At(q) + FrameSize /\ At(q) \in Nat
  <2> HIDE DEF b
  <2> QED
    BY <1>2, FrameOfAddress, AtIs
<1>5. p \in Nat /\ At(p) <= a
  BY FrameOfAddress
<1> HIDE DEF q, p
<1>6. ASSUME NEW f \in Nat, q <= f
      PROVE  a <= At(f)
  <2>1. At(q) <= At(f) /\ At(f) \in Nat
    BY <1>4, <1>6, AtIs
  <2> QED
    BY <1>1, <1>4, <2>1
<1>7. ASSUME NEW f \in Nat, f < q
      PROVE  At(f) < a
  <2>1. f + 1 \in Nat /\ f + 1 <= q
    BY <1>4, <1>7
  <2>2. At(f + 1) <= At(q) /\ At(f + 1) = At(f) + FrameSize /\ At(f) \in Nat
    BY <1>4, <2>1, AtIs
  <2> QED
    BY <1>1, <1>4, <2>2
<1>8. ASSUME NEW f \in Nat, f < p
      PROVE  At(f + 1) <= a
  <2>1. f + 1 \in Nat /\ f + 1 <= p
    BY <1>5, <1>8
  <2>2. At(f + 1) <= At(p) /\ At(f + 1) \in Nat /\ At(p) \in Nat
    BY <1>5, <2>1, AtIs
  <2> QED
    BY <1>5, <2>2
<1> QED
  BY <1>3, <1>4, <1>6, <1>7, <1>8 DEF p

\* A map.
LEMMA MapIs ==
  ASSUME NEW map \in Maps
  PROVE  /\ Len(map) \in Nat /\ TotalFrames(map) \in Nat \ {0}
         /\ \A k \in 1 .. Len(map) :
              map[k] \in Range(map) /\ map[k].base \in Nat /\ map[k].len \in Nat
<1>1. map \in Seq([base : Nat, len : Nat]) /\ TotalFrames(map) \in Nat \ {0}
  BY FramesAssumption
<1>2. Len(map) \in Nat /\ DOMAIN map = 1 .. Len(map)
  BY <1>1
<1>3. ASSUME NEW k \in 1 .. Len(map)
      PROVE  map[k] \in Range(map) /\ map[k].base \in Nat /\ map[k].len \in Nat
  <2> DEFINE R == [base : Nat, len : Nat]
             x == map[k]
  <2>1. x \in R
    <3>1. map \in Seq(R)
      BY <1>1
    <3> HIDE DEF R
    <3> QED
      BY <3>1
  <2> HIDE DEF x
  <2>2. x.base \in Nat /\ x.len \in Nat
    BY <2>1
  <2>3. x \in Range(map)
    BY <1>2 DEF Range, x
  <2> QED
    BY <2>2, <2>3 DEF x
<1> QED
  BY <1>1, <1>2, <1>3

\* Frame f lies in available RAM altogether.
Available(map, f) == \E r \in Range(map) : r.base <= At(f) /\ At(f + 1) <= r.base + r.len

\* The memories whose free frames do.
Freed(n, map) ==
  {m \in Mem(n) : ~m.short /\ \A f \in Phys(n) \ m.used : Available(map, f)}

LEMMA FreedMore ==
  ASSUME NEW n \in Nat \ {0}, NEW map \in Maps, NEW m \in Freed(n, map), NEW k \in 1 .. Len(map)
  PROVE  MarkFree(m, map[k]) \in Freed(n, map)
<1> DEFINE r == map[k]
           e == r.base + r.len
           F == {f \in RoundUp(r.base) .. e \div FrameSize - 1 : f < m.total /\ f \in m.used}
           m2 == FreeAll(m, F)
<1>1. /\ n \in Nat /\ m \in Mem(n) /\ m.used \subseteq Phys(n)
      /\ ~m.short /\ \A f \in Phys(n) \ m.used : Available(map, f)
  BY MemIs DEF Freed
<1>2. r \in Range(map) /\ r.base \in Nat /\ e \in Nat
  BY MapIs
<1>3. MarkFree(m, r) = m2
  <2> DEFINE c == Cardinality(F)
  <2>1. MarkFree(m, r) = [m EXCEPT !.used = @ \ F, !.count = @ - c]
    BY DEF MarkFree
  <2>2. F \cap m.used = F
    OBVIOUS
  <2> HIDE DEF F
  <2>3. m2 = [m EXCEPT !.used = @ \ F, !.count = @ - c]
    BY <2>2 DEF FreeAll
  <2> HIDE DEF m2, c
  <2> QED
    BY <2>1, <2>3
<1>4. ASSUME NEW f \in F, f \in Nat
      PROVE  Available(map, f)
  <2>1. RoundUp(r.base) \in Nat /\ FrameAt(e) \in Nat
    BY <1>2, Rounded, FrameOfAddress
  <2>2. RoundUp(r.base) <= f /\ f < FrameAt(e)
    <3>1. f \in RoundUp(r.base) .. FrameAt(e) - 1
      BY DEF FrameAt
    <3> HIDE DEF F, e
    <3> QED
      BY <1>4, <2>1, <3>1
  <2> HIDE DEF F
  <2>3. r.base <= At(f) /\ At(f + 1) <= e
    <3> HIDE DEF e
    <3> QED
      BY <1>2, <1>4, <2>2, Rounded
  <2> HIDE DEF r
  <2> QED
    BY <1>2, <2>3 DEF Available, e
<1> HIDE DEF F
<1>5. m2 \in Mem(n) /\ m2.used = m.used \ F /\ m2.short = m.short
  BY <1>1, FreeAllIs
<1>6. \A f \in Phys(n) \ m2.used : Available(map, f)
  <2>1. \A f \in Phys(n) : f \in Nat
    BY DEF Phys
  <2> HIDE DEF m2
  <2> QED
    BY <1>1, <1>4, <1>5, <2>1
<1> HIDE DEF m2, r
<1>7. m2 \in Freed(n, map)
  BY <1>1, <1>5, <1>6 DEF Freed
<1> QED
  BY <1>3, <1>7 DEF r

\* Pass 2.
LEMMA RegionsIs ==
  ASSUME NEW n \in Nat \ {0}, NEW map \in Maps, NEW m \in Freed(n, map)
  PROVE  \E f \in [0 .. Len(map) -> Freed(n, map)] :
           /\ f[0] = m /\ \A k \in 1 .. Len(map) : f[k] = MarkFree(f[k - 1], map[k])
           /\ FreeRegions(m, map) = f[Len(map)]
<1> DEFINE N == Len(map)
           S == Freed(n, map)
           b == m
           next(x, k) == MarkFree(x, map[k])
           step == [u \in S \X (1 .. N) |-> next(u[1], u[2])]
           Runs(g) == g = [k \in 0 .. N |-> IF k = 0 THEN b ELSE next(g[k - 1], k)]
           f == CHOOSE g : Runs(g)
<1>1. N \in Nat
  BY MapIs
<1>2. b \in S
  BY DEF S
<1>3. \A x \in S, k \in 1 .. N : next(x, k) \in S
  BY FreedMore DEF next
<1>4. FreeRegions(m, map) = f[Len(map)]
  BY DEF FreeRegions
<1> HIDE DEF N, S, b, next
<1>5. step \in [S \X (1 .. N) -> S]
  BY <1>3
<1>6. PICK h \in [0 .. N -> S] : h[0] = b /\ \A i \in 1 .. N : h[i] = step[<<h[i - 1], i>>]
  <2> HIDE DEF step
  <2>1. \E h \in [0 .. N -> S] : Iterates(h, N, b, step)
    BY <1>1, <1>2, <1>5, Iteration
  <2> QED
    BY <2>1 DEF Iterates
<1>7. ASSUME NEW i \in 1 .. N
      PROVE  h[i] = next(h[i - 1], i)
  <2>1. h[i - 1] \in S
    BY <1>1
  <2> DEFINE u == <<h[i - 1], i>>
  <2>2. u \in S \X (1 .. N) /\ u[1] = h[i - 1] /\ u[2] = i
    BY <2>1
  <2>3. h[i] = step[u]
    BY <1>6
  <2>4. step[u] = next(u[1], u[2])
    <3> HIDE DEF u
    <3> QED
      BY <2>2
  <2> QED
    BY <2>2, <2>3, <2>4
<1>8. Runs(h)
  <2> HIDE DEF step
  <2> QED
    BY <1>6, <1>7
<1>9. Runs(f)
  <2> HIDE DEF Runs
  <2> QED
    BY <1>8
<1> HIDE DEF f
<1>10. f[0] = b /\ \A k \in 1 .. N : f[k] = next(f[k - 1], k)
  <2> DEFINE e(k) == IF k = 0 THEN b ELSE next(f[k - 1], k)
  <2>1. e(0) = b /\ \A k \in 1 .. N : e(k) = next(f[k - 1], k)
    OBVIOUS
  <2>2. f = [k \in 0 .. N |-> e(k)]
    BY <1>9
  <2> HIDE DEF e
  <2>3. \A k \in 0 .. N : f[k] = e(k)
    BY <2>2
  <2> QED
    BY <1>1, <2>1, <2>3
<1>11. \A k \in 0 .. N : f[k] \in S
  <2> DEFINE P == {k \in Nat : f[k] \in S}
  <2>1. 0 \in P
    BY <1>2, <1>10
  <2>2. ASSUME NEW i \in 0 .. N - 1, i \in P
        PROVE  i + 1 \in P
    <3>1. i + 1 \in 1 .. N /\ i + 1 - 1 = i /\ i + 1 \in Nat /\ f[i] \in S
      BY <1>1, <2>2
    <3> QED
      BY <1>3, <1>10, <3>1
  <2> HIDE DEF P
  <2>3. 0 .. N \subseteq P
    BY <1>1, <2>1, <2>2, UpTo
  <2> QED
    BY <2>3 DEF P
<1>12. f \in [0 .. N -> S]
  BY <1>9, <1>11
<1> QED
  BY <1>4, <1>10, <1>12 DEF N, S, b, next

\* Marking a region used.
LEMMA TouchedIs ==
  ASSUME NEW n \in Nat, NEW m \in Mem(n), NEW a \in Nat, NEW len \in Nat
  PROVE  /\ Touched(m, a, len) \subseteq Phys(n)
         /\ \A f \in Phys(n) \ Touched(m, a, len) : At(f + 1) <= a \/ a + len <= At(f)
<1> DEFINE e == a + len
           d == FrameAt(a)
           u == RoundUp(e)
           F == Touched(m, a, len)
<1>1. F = {f \in d .. u - 1 : f < n}
  BY MemIs DEF Touched, FrameAt
<1>2. d \in Nat /\ u \in Nat
  <2>1. e \in Nat
    OBVIOUS
  <2> HIDE DEF e
  <2> QED
    BY <2>1, FrameOfAddress, Rounded
<1>3. ASSUME NEW f \in Phys(n), f \notin F
      PROVE  At(f + 1) <= a \/ e <= At(f)
  <2>1. e \in Nat
    OBVIOUS
  <2> HIDE DEF F, d, u, e
  <2>2. f \in Nat /\ (f < d \/ u <= f)
    BY <1>1, <1>2, <1>3 DEF Phys
  <2> QED
    BY <2>1, <2>2, Rounded DEF d, u
<1>4. F \subseteq Phys(n)
  <2> HIDE DEF F, d, u
  <2> QED
    BY <1>1, <1>2 DEF Phys
<1> QED
  BY <1>3, <1>4

LEMMA MarkUsedIs ==
  ASSUME NEW n \in Nat, NEW m \in Mem(n), NEW a \in Nat, NEW len \in Nat
  PROVE  /\ MarkUsed(m, a, len) \in Mem(n) /\ Grown(m, MarkUsed(m, a, len))
         /\ MarkUsed(m, a, len).short = m.short
         /\ \A f \in Phys(n) \ MarkUsed(m, a, len).used : At(f + 1) <= a \/ a + len <= At(f)
<1> DEFINE T == Touched(m, a, len)
           F == T \ m.used
           U == m.used \cup F
           c == m.count + Cardinality(F)
           m2 == [m EXCEPT !.used = U, !.count = c]
<1>1. T \subseteq Phys(n) /\ \A f \in Phys(n) \ T : At(f + 1) <= a \/ a + len <= At(f)
  BY TouchedIs
<1>2. m.used \subseteq Phys(n) /\ m.count = Cardinality(m.used)
  BY MemIs
<1>3. MarkUsed(m, a, len) = m2
  BY DEF MarkUsed
<1> HIDE DEF T
<1>4. U \subseteq Phys(n) /\ T \subseteq U /\ m.used \subseteq U
  BY <1>1, <1>2
<1>5. c = Cardinality(U) /\ c \in Nat
  <2>1. IsFiniteSet(m.used) /\ IsFiniteSet(F) /\ m.used \cap F = {}
    BY <1>1, <1>2, FrameSets
  <2> HIDE DEF F
  <2>2. Cardinality(U) = Cardinality(m.used) + Cardinality(F)
    <3>1. Cardinality(U) = Cardinality(m.used) + Cardinality(F) - Cardinality(m.used \cap F)
      BY <2>1, FS_Union
    <3>2. /\ Cardinality(m.used \cap F) = 0
          /\ Cardinality(m.used) \in Nat /\ Cardinality(F) \in Nat
      BY <2>1, FS_EmptySet, FS_CardinalityType
    <3> QED
      BY <3>1, <3>2
  <2>3. Cardinality(U) \in Nat
    BY <1>4, FrameSets
  <2> QED
    BY <1>2, <2>2, <2>3
<1> HIDE DEF U, c
<1>6. m2 \in Mem(n) /\ m2.used = U /\ m2.short = m.short
  BY <1>4, <1>5 DEF Mem
<1> HIDE DEF m2
<1> QED
  BY <1>1, <1>3, <1>4, <1>6 DEF Grown

\* A frame that may be handed out, as the memory map says and the kernel needs.
Usable(map, n, f) ==
  /\ Available(map, f)
  /\ At(f) >= LowEnd
  /\ At(f) >= KernelEnd \/ At(f + 1) <= KernelStart
  /\ At(f) >= BitmapBase + BitmapBytes(n) \/ At(f + 1) <= BitmapBase

LEMMA PmmIs ==
  ASSUME NEW map \in Maps
  PROVE  LET n == TotalFrames(map)
             m == PmmInit(map)
         IN  /\ m \in Mem(n) /\ 0 \in m.used
             /\ \A f \in Phys(n) \ m.used : Usable(map, n, f)
<1> DEFINE n     == TotalFrames(map)
           full  == [total |-> n, used |-> 0 .. n - 1, count |-> n,
                     word |-> [f \in 0 .. n - 1 |-> Blank], short |-> FALSE]
           free  == FreeRegions(full, map)
           low   == MarkUsed(free, 0, LowEnd)
           size  == KernelEnd - KernelStart
           image == MarkUsed(low, KernelStart, size)
           bytes == BitmapBytes(n)
           m     == MarkUsed(image, BitmapBase, bytes)
<1>1. n \in Nat \ {0}
  BY MapIs
<1>2. PmmInit(map) = m
  BY DEF PmmInit
<1> HIDE DEF n
<1>3. full \in Freed(n, map)
  <2> DEFINE ws == [f \in Phys(n) |-> Blank]
  <2>1. full = [total |-> n, used |-> Phys(n), count |-> n, word |-> ws, short |-> FALSE]
    BY DEF Phys
  <2>2. ws \in [Phys(n) -> [Idx -> Word(n)]]
    BY <1>1, WordIs
  <2>3. Cardinality(Phys(n)) = n
    <3>1. 0 \in Int /\ n - 1 \in Int /\ (IF 0 > n - 1 THEN 0 ELSE n - 1 - 0 + 1) = n
      BY <1>1
    <3> QED
      BY <3>1, FS_Interval DEF Phys
  <2> HIDE DEF ws, full
  <2>4. full \in Mem(n) /\ full.used = Phys(n) /\ full.short = FALSE
    BY <1>1, <2>1, <2>2, <2>3 DEF Mem
  <2> QED
    BY <2>4 DEF Freed
<1> HIDE DEF full
<1>4. free \in Freed(n, map)
  <2>1. PICK f \in [0 .. Len(map) -> Freed(n, map)] : FreeRegions(full, map) = f[Len(map)]
    BY <1>1, <1>3, RegionsIs
  <2>2. Len(map) \in 0 .. Len(map)
    BY MapIs
  <2> QED
    BY <2>1, <2>2
<1> HIDE DEF free
<1>5. free \in Mem(n) /\ \A f \in Phys(n) \ free.used : Available(map, f)
  BY <1>4 DEF Freed
<1>6. KernelStart \in Nat /\ size \in Nat /\ KernelStart + size = KernelEnd /\ LowEnd \in Nat \ {0}
  BY FramesAssumption
<1>7. /\ low \in Mem(n) /\ Grown(free, low)
      /\ \A f \in Phys(n) \ low.used : At(f + 1) <= 0 \/ 0 + LowEnd <= At(f)
  BY <1>1, <1>5, <1>6, MarkUsedIs
<1> HIDE DEF low, size
<1>8. /\ image \in Mem(n) /\ Grown(low, image)
      /\ \A f \in Phys(n) \ image.used : At(f + 1) <= KernelStart \/ KernelStart + size <= At(f)
  BY <1>1, <1>6, <1>7, MarkUsedIs
<1> HIDE DEF image
<1>9. BitmapBase \in Nat /\ bytes \in Nat
  <2>1. KernelEnd \in Nat /\ 8 \in Nat \ {0}
    BY FramesAssumption
  <2>2. BitmapBase = At(RoundUp(KernelEnd))
    BY DEF BitmapBase, At
  <2>3. BitmapBase \in Nat
    BY <2>1, <2>2, Rounded, AtIs
  <2>4. n + 7 \in Nat
    BY <1>1
  <2>5. (n + 7) \div 8 \in Nat
    BY <2>1, <2>4, Quotient
  <2> QED
    BY <2>3, <2>5 DEF BitmapBytes
<1>10. /\ m \in Mem(n) /\ Grown(image, m)
       /\ \A f \in Phys(n) \ m.used : At(f + 1) <= BitmapBase \/ BitmapBase + bytes <= At(f)
  <2> HIDE DEF bytes
  <2> QED
    BY <1>1, <1>8, <1>9, MarkUsedIs
<1> HIDE DEF m
<1>11. Grown(free, m) /\ Grown(low, m)
  BY <1>7, <1>8, <1>10, GrownOn
<1>12. \A f \in Phys(n) : f \in Nat /\ At(f) \in Nat /\ At(f + 1) = At(f) + FrameSize /\ FrameSize > 0
                           /\ FrameSize \in Nat
  BY AtIs, FramesAssumption DEF Phys
<1>13. \A f \in Phys(n) \ low.used : LowEnd <= At(f)
  BY <1>6, <1>7, <1>12
<1>14. 0 \in m.used
  <2>1. 0 \in Phys(n) /\ At(0) = 0 /\ ~(LowEnd <= 0)
    BY <1>1, <1>6, FramesAssumption DEF Phys, At
  <2> QED
    BY <1>11, <1>13, <2>1 DEF Grown
<1>15. ASSUME NEW f \in Phys(n) \ m.used
       PROVE  Usable(map, n, f)
  <2>1. f \notin free.used /\ f \notin low.used /\ f \notin image.used
    BY <1>10, <1>11 DEF Grown
  <2>2. Available(map, f)
    BY <1>5, <2>1
  <2>3. At(f) >= LowEnd
    BY <1>13, <2>1
  <2>4. At(f) >= KernelEnd \/ At(f + 1) <= KernelStart
    BY <1>6, <1>8, <2>1
  <2>5. At(f) >= BitmapBase + BitmapBytes(n) \/ At(f + 1) <= BitmapBase
    BY <1>10
  <2> QED
    BY <2>2, <2>3, <2>4, <2>5 DEF Usable
<1> QED
  BY <1>2, <1>10, <1>14, <1>15 DEF n

\* vmm_init.
LEMMA KernelSpaceIs ==
  ASSUME NEW n \in Nat \ {0}, NEW m \in Mem(n)
  PROVE  LET up == KernelSpace(m)
         IN  up.m \in Mem(n) /\ up.f \in up.m.used /\ Grown(m, up.m)
<1> DEFINE root == AllocTable(m)
           pdpt == AllocTable(root.m)
           pd   == AllocTable(pdpt.m)
           m1   == SetWord(pd.m, root.f, 0, Entry(pdpt.f))
           m2   == SetWord(m1, pdpt.f, 0, Entry(pd.f))
<1>1. KernelSpace(m) = [m |-> m2, f |-> root.f]
  BY DEF KernelSpace
<1>2. root.m \in Mem(n) /\ root.f \in root.m.used /\ Grown(m, root.m)
  BY AllocTableIs
<1> HIDE DEF root
<1>3. pdpt.m \in Mem(n) /\ pdpt.f \in Phys(n) /\ Grown(root.m, pdpt.m)
  BY <1>2, AllocTableIs
<1> HIDE DEF pdpt
<1>4. pd.m \in Mem(n) /\ pd.f \in Phys(n) /\ Grown(pdpt.m, pd.m)
  BY <1>3, AllocTableIs
<1> HIDE DEF pd
<1>5. m1 \in Mem(n) /\ m1.used = pd.m.used /\ m1.short = pd.m.short
  BY <1>3, <1>4, SetWordType, WordIs
<1> HIDE DEF m1
<1>6. m2 \in Mem(n) /\ m2.used = m1.used /\ m2.short = m1.short
  BY <1>4, <1>5, SetWordType, WordIs
<1> HIDE DEF m2
<1> QED
  BY <1>1, <1>2, <1>3, <1>4, <1>5, <1>6 DEF Grown

-----------------------------------------------------------------------------
(* What the paths that build and drop spaces do.                            *)

\* A memory, its kernel's frames base, and the roots S of its spaces.
Ready(n, m, base, S) ==
  /\ m \in Mem(n) /\ kpml4 \in base /\ 0 \in base /\ base \subseteq Phys(n)
  /\ S \subseteq Phys(n) \ {0}
  /\ ~m.short => Forest(n, m, base, S)

\* From such a memory to another, in which the spaces K are what they were.
Moves(n, m, base, m2, S2, K) ==
  /\ Ready(n, m2, base, S2) /\ (m.short => m2.short)
  /\ ~m2.short => \A s \in K : Kept(m, m2, s)

LEMMA KeptOn ==
  ASSUME NEW m1, NEW m2, NEW m3, NEW s, Kept(m1, m2, s), Kept(m2, m3, s)
  PROVE  Kept(m1, m3, s)
BY DEF Kept

\* Space r of m holds prog as it starts.
Loads(m, r, prog) ==
  /\ Mapped(m, r) = DOMAIN Image(prog) \cup Range(Stack)
  /\ \A va \in DOMAIN Image(prog) : Row(m, r, va) = Image(prog)[va]

LEMMA Spawned ==
  ASSUME NEW n \in Nat \ {0}, NEW m, NEW base, NEW S, Ready(n, m, base, S), NEW prog \in Programs
  PROVE  LET got  == ElfLoad(m, prog)
             full == AddStack(got.m, got.f)
         IN  /\ got.m \in Mem(n) /\ got.f \in Phys(n) /\ full \in Mem(n)
             /\ (m.short => got.m.short) /\ (m.short => full.short)
             /\ got.f = 0 => got.m.short
             /\ ~full.short => /\ Forest(n, full, base, S \cup {got.f}) /\ got.f \notin S
                               /\ \A s \in S : Kept(m, full, s)
                               /\ Loads(full, got.f, prog)
<1> DEFINE got  == ElfLoad(m, prog)
           full == AddStack(got.m, got.f)
<1> SUFFICES /\ got.m \in Mem(n) /\ got.f \in Phys(n) /\ full \in Mem(n)
             /\ (m.short => got.m.short) /\ (m.short => full.short)
             /\ got.f = 0 => got.m.short
             /\ ~full.short => /\ Forest(n, full, base, S \cup {got.f}) /\ got.f \notin S
                               /\ \A s \in S : Kept(m, full, s)
                               /\ Loads(full, got.f, prog)
  OBVIOUS
<1>1. /\ n \in Nat /\ m \in Mem(n) /\ kpml4 \in Phys(n) /\ 0 \in base
      /\ ~m.short => Forest(n, m, base, S)
  BY DEF Ready
<1>2. /\ got.m \in Mem(n) /\ got.f \in Phys(n) /\ Grown(m, got.m)
      /\ ~got.m.short =>
           /\ Built(n, m, got.f, got.m) /\ got.f \notin m.used
           /\ Mapped(got.m, got.f) = DOMAIN Image(prog)
           /\ \A va \in DOMAIN Image(prog) : Row(got.m, got.f, va) = Image(prog)[va]
           /\ \A k \in 1 .. Len(Stack) : Stack[k] \notin Mapped(got.m, got.f)
  BY <1>1, ElfLoaded
<1> HIDE DEF got
<1>3. full \in Mem(n) /\ Grown(got.m, full)
  BY <1>2, StackType
<1>4. ~full.short => Built(n, m, got.f, full) /\ Loads(full, got.f, prog)
  <2> SUFFICES ASSUME ~full.short
               PROVE  Built(n, m, got.f, full) /\ Loads(full, got.f, prog)
    OBVIOUS
  <2>1. ~got.m.short
    BY <1>3 DEF Grown
  <2>2. /\ Built(n, m, got.f, full)
        /\ Mapped(full, got.f) = Mapped(got.m, got.f) \cup Range(Stack)
        /\ \A x \in Mapped(got.m, got.f) : Row(full, got.f, x) = Row(got.m, got.f, x)
    BY <1>2, <2>1, StackAdded
  <2> HIDE DEF full
  <2> QED
    BY <1>2, <2>1, <2>2 DEF Loads
<1> HIDE DEF full
<1>5. (m.short => got.m.short) /\ (got.m.short => full.short)
  BY <1>2, <1>3 DEF Grown
<1>6. ASSUME got.f = 0, ~got.m.short
      PROVE  FALSE
  <2>1. 0 \in m.used
    BY <1>1, <1>5, <1>6 DEF Forest
  <2> QED
    BY <1>2, <1>6, <2>1
<1>7. ASSUME ~full.short
      PROVE  /\ Forest(n, full, base, S \cup {got.f}) /\ got.f \notin S
             /\ \A s \in S : Kept(m, full, s)
             /\ Loads(full, got.f, prog)
  <2>1. Forest(n, m, base, S)
    BY <1>1, <1>5, <1>7
  <2>2. Built(n, m, got.f, full)
    BY <1>4, <1>7
  <2>3. /\ Forest(n, full, base, S \cup {got.f}) /\ got.f \notin S
        /\ \A s \in S : Kept(m, full, s)
    BY <1>1, <2>1, <2>2, ForestGrows
  <2> QED
    BY <1>4, <1>7, <2>3
<1> QED
  BY <1>2, <1>3, <1>5, <1>6, <1>7

\* A space that is destroyed.
LEMMA Destroyed ==
  ASSUME NEW n \in Nat, NEW m, NEW base, NEW S, Ready(n, m, base, S), NEW s \in S
  PROVE  /\ DestroySpace(m, s) \in Mem(n) /\ DestroySpace(m, s).short = m.short
         /\ ~m.short => /\ Forest(n, DestroySpace(m, s), base, S \ {s})
                        /\ \A t \in S \ {s} : Kept(m, DestroySpace(m, s), t)
<1> DEFINE m2 == DestroySpace(m, s)
<1>1. m \in Mem(n) /\ kpml4 \in base /\ s # 0 /\ (~m.short => Forest(n, m, base, S))
  BY DEF Ready
<1>2. m2 \in Mem(n) /\ m2.short = m.short
  BY <1>1, DestroyType
<1>3. ASSUME ~m.short
      PROVE  Forest(n, m2, base, S \ {s}) /\ \A t \in S \ {s} : Kept(m, m2, t)
  <2>1. Forest(n, m, base, S)
    BY <1>1, <1>3
  <2>2. s \in Owned(m, s) /\ Owned(m, s) \cap base = {}
    BY <2>1 DEF Forest, Tree, Top
  <2>3. s \notin {0, kpml4}
    BY <1>1, <2>2
  <2>4. m2 = FreeAll(m, Owned(m, s))
    BY <2>3 DEF DestroySpace
  <2>5. m2.used = m.used \ Owned(m, s) /\ m2.word = m.word
    BY <1>1, <2>4, FreeAllIs
  <2> HIDE DEF m2
  <2> QED
    BY <2>1, <2>5, ForestCut
<1> QED
  BY <1>2, <1>3

-----------------------------------------------------------------------------
(* The steps.                                                               *)

LEMMA SpawnMoves ==
  ASSUME NEW n \in Nat \ {0}, Ready(n, ram, kept, spaces), NEW prog \in Programs, Spawn(prog)
  PROVE  /\ Moves(n, ram, kept, ram', spaces', spaces)
         /\ ~ram'.short => \E f : /\ f \notin spaces /\ spaces' = spaces \cup {f}
                                  /\ Loads(ram', f, prog)
<1> DEFINE got  == ElfLoad(ram, prog)
           full == AddStack(got.m, got.f)
<1>1. /\ got.m \in Mem(n) /\ got.f \in Phys(n) /\ full \in Mem(n)
      /\ (ram.short => got.m.short) /\ (ram.short => full.short)
      /\ got.f = 0 => got.m.short
      /\ ~full.short => /\ Forest(n, full, kept, spaces \cup {got.f}) /\ got.f \notin spaces
                        /\ \A s \in spaces : Kept(ram, full, s)
                        /\ Loads(full, got.f, prog)
  BY Spawned
<1>2. /\ IF got.f = 0 THEN ram' = got.m /\ spaces' = spaces
         ELSE ram' = full /\ spaces' = spaces \cup {got.f}
  BY DEF Spawn
<1>3. kpml4 \in kept /\ 0 \in kept /\ kept \subseteq Phys(n) /\ spaces \subseteq Phys(n) \ {0}
  BY DEF Ready
<1> HIDE DEF got, full
<1>4. CASE got.f = 0
  <2>1. Ready(n, ram', kept, spaces')
    BY <1>1, <1>2, <1>3, <1>4 DEF Ready
  <2> QED
    BY <1>1, <1>2, <1>4, <2>1 DEF Moves
<1>5. CASE got.f # 0
  <2>1. Ready(n, ram', kept, spaces')
    BY <1>1, <1>2, <1>3, <1>5 DEF Ready
  <2> QED
    BY <1>1, <1>2, <1>5, <2>1 DEF Moves
<1> QED
  BY <1>4, <1>5

\* Space d of m2 holds what s of m does, page by page.
SameContent(m, s, m2, d) ==
  /\ Mapped(m2, d) = Mapped(m, s)
  /\ \A va \in Mapped(m, s) : Row(m2, d, va) = Row(m, s, va)

LEMMA ForkMoves ==
  ASSUME NEW n \in Nat \ {0}, Ready(n, ram, kept, spaces), NEW s \in spaces, Fork(s)
  PROVE  /\ Moves(n, ram, kept, ram', spaces', spaces)
         /\ ~ram'.short => \E d : /\ d \notin spaces /\ spaces' = spaces \cup {d}
                                  /\ SameContent(ram, s, ram', d)
<1> DEFINE got == CloneSpace(ram, s)
<1>1. /\ n \in Nat /\ ram \in Mem(n) /\ kpml4 \in Phys(n) /\ s \in Phys(n) /\ s # 0
      /\ kpml4 \in kept /\ 0 \in kept /\ kept \subseteq Phys(n) /\ spaces \subseteq Phys(n) \ {0}
      /\ ~ram.short => Forest(n, ram, kept, spaces)
  BY DEF Ready
<1>2. got.m \in Mem(n) /\ got.f \in Phys(n) /\ Grown(ram, got.m)
  BY <1>1, CloneType
<1>3. ram' = got.m /\ spaces' = IF got.f = 0 THEN spaces ELSE spaces \cup {got.f}
  BY DEF Fork
<1>4. ASSUME ~got.m.short
      PROVE  /\ Forest(n, got.m, kept, spaces \cup {got.f}) /\ got.f \notin spaces /\ got.f # 0
             /\ \A t \in spaces : Kept(ram, got.m, t)
             /\ SameContent(ram, s, got.m, got.f)
  <2>1. Forest(n, ram, kept, spaces)
    BY <1>1, <1>2, <1>4 DEF Grown
  <2>2. Owned(ram, s) \subseteq ram.used /\ 0 \in ram.used
    BY <1>1, <2>1 DEF Forest
  <2>3. PICK lvl : Tree(n, ram, s, Owned(ram, s), lvl)
    BY <2>1 DEF Forest
  <2>4. /\ Built(n, ram, got.f, got.m) /\ got.f \notin ram.used
        /\ Mapped(got.m, got.f) = Mapped(ram, s)
        /\ \A va \in Mapped(ram, s) : Row(got.m, got.f, va) = Row(ram, s, va)
    BY <1>1, <1>4, <2>2, <2>3, Cloned
  <2> HIDE DEF got
  <2>5. /\ Forest(n, got.m, kept, spaces \cup {got.f}) /\ got.f \notin spaces
        /\ \A t \in spaces : Kept(ram, got.m, t)
    BY <1>1, <2>1, <2>4, ForestGrows
  <2> QED
    BY <2>2, <2>4, <2>5 DEF SameContent
<1> HIDE DEF got
<1>5. spaces' \subseteq Phys(n) \ {0}
  BY <1>1, <1>2, <1>3
<1>6. ~ram'.short => spaces' = spaces \cup {got.f}
  BY <1>3, <1>4
<1>7. Ready(n, ram', kept, spaces')
  BY <1>1, <1>2, <1>3, <1>4, <1>5, <1>6 DEF Ready
<1>8. Moves(n, ram, kept, ram', spaces', spaces)
  BY <1>2, <1>3, <1>4, <1>7 DEF Moves, Grown
<1> QED
  BY <1>3, <1>4, <1>6, <1>8

LEMMA ExecMoves ==
  ASSUME NEW n \in Nat \ {0}, Ready(n, ram, kept, spaces), NEW s \in spaces,
         NEW prog \in Programs, NEW d \in Data, Exec(s, prog, d)
  PROVE  /\ Moves(n, ram, kept, ram', spaces', spaces \ {s})
         /\ ~ram'.short => \E f : /\ f \notin spaces /\ spaces' = (spaces \ {s}) \cup {f}
                                  /\ Loads(ram', f, prog) /\ Row(ram', f, Last(Stack))[0] = d
<1> DEFINE got  == ElfLoad(ram, prog)
           full == AddStack(got.m, got.f)
           argv == Poke(full, got.f, Last(Stack), d)
           S    == spaces \cup {got.f}
           m2   == DestroySpace(argv, s)
<1>1. /\ got.m \in Mem(n) /\ got.f \in Phys(n) /\ full \in Mem(n)
      /\ (ram.short => got.m.short) /\ (ram.short => full.short)
      /\ got.f = 0 => got.m.short
      /\ ~full.short => /\ Forest(n, full, kept, spaces \cup {got.f}) /\ got.f \notin spaces
                        /\ \A t \in spaces : Kept(ram, full, t)
                        /\ Loads(full, got.f, prog)
  BY Spawned
<1>2. /\ IF got.f = 0 THEN ram' = got.m /\ spaces' = spaces
         ELSE ram' = m2 /\ spaces' = (spaces \ {s}) \cup {got.f}
  BY DEF Exec
<1>3. /\ n \in Nat /\ kpml4 \in kept /\ 0 \in kept /\ kept \subseteq Phys(n)
      /\ spaces \subseteq Phys(n) \ {0}
  BY DEF Ready
<1> HIDE DEF got, full
<1>4. argv \in Mem(n) /\ argv.short = full.short
  BY <1>1, <1>3, PokeType
<1>5. ~full.short => /\ Forest(n, argv, kept, S) /\ \A t \in spaces : Kept(ram, argv, t)
                     /\ Loads(argv, got.f, prog) /\ Row(argv, got.f, Last(Stack))[0] = d
  <2> SUFFICES ASSUME ~full.short
               PROVE  /\ Forest(n, argv, kept, S) /\ \A t \in spaces : Kept(ram, argv, t)
                      /\ Loads(argv, got.f, prog) /\ Row(argv, got.f, Last(Stack))[0] = d
    OBVIOUS
  <2>1. /\ Forest(n, full, kept, S) /\ got.f \in S /\ Loads(full, got.f, prog)
        /\ \A t \in spaces : Kept(ram, full, t)
        /\ got.f \notin spaces
    BY <1>1
  <2>2. spaces = S \ {got.f}
    BY <2>1
  <2>3. Last(Stack) \in Range(Stack) /\ Last(Stack) \notin DOMAIN Image(prog)
    <3>1. Len(Stack) \in 1 .. Len(Stack) /\ Last(Stack) = Stack[Len(Stack)]
      BY StackIs
    <3>2. Last(Stack) \in Range(Stack)
      BY <3>1, StackIs
    <3>3. \A k \in 1 .. Len(prog) : prog[k].va # Last(Stack)
      BY <3>1, ImageIs
    <3> QED
      BY <3>2, <3>3, ImagePages
  <2>4. Last(Stack) \in Mapped(full, got.f)
    BY <2>1, <2>3 DEF Loads
  <2> HIDE DEF S
  <2>5. /\ Forest(n, argv, kept, S) /\ \A t \in S \ {got.f} : Kept(full, argv, t)
        /\ Mapped(argv, got.f) = Mapped(full, got.f)
        /\ \A x \in Mapped(full, got.f) \ {Last(Stack)} :
             Row(argv, got.f, x) = Row(full, got.f, x)
        /\ Row(argv, got.f, Last(Stack))[0] = d
    BY <1>1, <1>3, <2>1, <2>4, ForestStored
  <2> HIDE DEF argv
  <2>6. \A t \in spaces : Kept(ram, argv, t)
    BY <2>1, <2>2, <2>5, KeptOn
  <2>7. Loads(argv, got.f, prog)
    BY <2>1, <2>3, <2>5 DEF Loads
  <2> QED
    BY <2>5, <2>6, <2>7
<1> HIDE DEF argv
<1>6. CASE got.f = 0
  <2>1. Ready(n, ram', kept, spaces')
    BY <1>1, <1>2, <1>3, <1>6 DEF Ready
  <2> QED
    BY <1>1, <1>2, <1>6, <2>1 DEF Moves
<1>7. CASE got.f # 0
  <2>1. S \subseteq Phys(n) \ {0}
    BY <1>1, <1>3, <1>7
  <2>2. Ready(n, argv, kept, S)
    BY <1>3, <1>4, <1>5, <2>1 DEF Ready
  <2>3. s \in S
    OBVIOUS
  <2>4. /\ m2 \in Mem(n) /\ m2.short = argv.short
        /\ ~argv.short => Forest(n, m2, kept, S \ {s}) /\ \A t \in S \ {s} : Kept(argv, m2, t)
    <3> HIDE DEF S
    <3> QED
      BY <1>3, <2>2, <2>3, Destroyed
  <2> HIDE DEF m2
  <2>5. ram' = m2 /\ spaces' = (spaces \ {s}) \cup {got.f}
    BY <1>2, <1>7
  <2>6. ~full.short => got.f \notin spaces /\ spaces' = S \ {s}
    BY <1>1, <2>5
  <2>7. spaces' \subseteq Phys(n) \ {0}
    BY <2>1, <2>5
  <2>8. Ready(n, ram', kept, spaces')
    BY <1>3, <1>4, <2>4, <2>5, <2>6, <2>7 DEF Ready
  <2>9. ~m2.short => \A t \in spaces \ {s} : Kept(ram, m2, t)
    BY <1>4, <1>5, <2>4, KeptOn
  <2>10. Moves(n, ram, kept, ram', spaces', spaces \ {s})
    BY <1>1, <1>4, <2>4, <2>5, <2>8, <2>9 DEF Moves
  <2>11. ~m2.short => Loads(m2, got.f, prog) /\ Row(m2, got.f, Last(Stack))[0] = d
    <3> SUFFICES ASSUME ~m2.short
                 PROVE  Loads(m2, got.f, prog) /\ Row(m2, got.f, Last(Stack))[0] = d
      OBVIOUS
    <3>1. /\ got.f \in S \ {s} /\ Kept(argv, m2, got.f)
          /\ Loads(argv, got.f, prog) /\ Row(argv, got.f, Last(Stack))[0] = d
      BY <1>1, <1>4, <1>5, <2>4
    <3>2. Last(Stack) \in Mapped(argv, got.f)
      BY <3>1, StackIs DEF Loads
    <3> QED
      BY <3>1, <3>2 DEF Kept, Loads
  <2> QED
    BY <1>4, <2>4, <2>5, <2>6, <2>10, <2>11
<1> QED
  BY <1>6, <1>7

LEMMA ReapMoves ==
  ASSUME NEW n \in Nat \ {0}, Ready(n, ram, kept, spaces), NEW s \in spaces, Reap(s)
  PROVE  Moves(n, ram, kept, ram', spaces', spaces \ {s}) /\ spaces' = spaces \ {s}
<1> DEFINE m2 == DestroySpace(ram, s)
<1>1. /\ n \in Nat /\ kpml4 \in kept /\ 0 \in kept /\ kept \subseteq Phys(n)
      /\ spaces \subseteq Phys(n) \ {0}
  BY DEF Ready
<1>2. /\ m2 \in Mem(n) /\ m2.short = ram.short
      /\ ~ram.short => /\ Forest(n, m2, kept, spaces \ {s})
                       /\ \A t \in spaces \ {s} : Kept(ram, m2, t)
  BY <1>1, Destroyed
<1>3. ram' = m2 /\ spaces' = spaces \ {s}
  BY DEF Reap
<1> HIDE DEF m2
<1>4. Ready(n, ram', kept, spaces')
  BY <1>1, <1>2, <1>3 DEF Ready
<1> QED
  BY <1>2, <1>3, <1>4 DEF Moves

LEMMA StoreMoves ==
  ASSUME NEW n \in Nat \ {0}, Ready(n, ram, kept, spaces), NEW s \in spaces,
         NEW va \in Mapped(ram, s), NEW d \in Data, Store(s, va, d)
  PROVE  /\ Moves(n, ram, kept, ram', spaces', spaces \ {s}) /\ spaces' = spaces
         /\ ~ram'.short => /\ Mapped(ram', s) = Mapped(ram, s)
                           /\ \A x \in Mapped(ram, s) \ {va} : Row(ram', s, x) = Row(ram, s, x)
                           /\ Row(ram', s, va) = [Row(ram, s, va) EXCEPT ![0] = d]
<1> DEFINE m2 == Poke(ram, s, va, d)
<1>1. /\ n \in Nat /\ kpml4 \in kept /\ 0 \in kept /\ kept \subseteq Phys(n)
      /\ spaces \subseteq Phys(n) \ {0} /\ ram \in Mem(n)
      /\ ~ram.short => Forest(n, ram, kept, spaces)
  BY DEF Ready
<1>2. m2 \in Mem(n) /\ m2.short = ram.short
  BY <1>1, PokeType
<1>3. ASSUME ~ram.short
      PROVE  /\ Forest(n, m2, kept, spaces)
             /\ \A t \in spaces \ {s} : Kept(ram, m2, t)
             /\ Mapped(m2, s) = Mapped(ram, s)
             /\ \A x \in Mapped(ram, s) \ {va} : Row(m2, s, x) = Row(ram, s, x)
             /\ Row(m2, s, va) = [Row(ram, s, va) EXCEPT ![0] = d]
  <2>1. Forest(n, ram, kept, spaces)
    BY <1>1, <1>3
  <2> QED
    BY <1>1, <2>1, ForestStored
<1>4. ram' = m2 /\ spaces' = spaces
  BY DEF Store
<1> HIDE DEF m2
<1>5. Ready(n, ram', kept, spaces')
  BY <1>1, <1>2, <1>3, <1>4 DEF Ready
<1> QED
  BY <1>2, <1>3, <1>4, <1>5 DEF Moves

-----------------------------------------------------------------------------
(* The inductive invariant.                                                 *)

IInv ==
  /\ avail \in Maps
  /\ Ready(TotalFrames(avail), ram, kept, spaces)
  /\ \A f \in Phys(TotalFrames(avail)) \ kept : Usable(avail, TotalFrames(avail), f)
  /\ made \in 0 .. MaxMade
  /\ call.op \in {"none", "spawn", "fork", "exec", "reap", "store"}

LEMMA InitInvariant == Init => IInv
<1> SUFFICES ASSUME Init PROVE IInv
  OBVIOUS
<1>1. PICK map \in Maps :
        LET up == KernelSpace(PmmInit(map))
        IN  /\ avail = map
            /\ ram = BackHeap(up.m, up.f)
            /\ kpml4 = up.f
            /\ kept = ram.used
            /\ spaces = {}
            /\ made = 0
            /\ call = [op |-> "none"]
  BY DEF Init
<1> DEFINE n  == TotalFrames(map)
           m  == PmmInit(map)
           up == KernelSpace(m)
           m2 == BackHeap(up.m, up.f)
<1>2. /\ avail = map /\ ram = m2 /\ kpml4 = up.f /\ kept = m2.used /\ spaces = {} /\ made = 0
      /\ call.op = "none"
  BY <1>1
<1>3. n \in Nat \ {0} /\ n \in Nat
  BY MapIs
<1>4. m \in Mem(n) /\ 0 \in m.used /\ \A f \in Phys(n) \ m.used : Usable(map, n, f)
  BY PmmIs
<1> HIDE DEF m
<1>5. up.m \in Mem(n) /\ up.f \in up.m.used /\ Grown(m, up.m)
  <2> HIDE DEF n
  <2> QED
    BY <1>3, <1>4, KernelSpaceIs
<1> HIDE DEF up
<1>6. up.f \in Phys(n)
  <2> HIDE DEF n
  <2> QED
    BY <1>3, <1>5, MemIs
<1>7. m2 \in Mem(n) /\ Grown(up.m, m2)
  <2> HIDE DEF n
  <2> QED
    BY <1>3, <1>5, <1>6, HeapBacked
<1> HIDE DEF m2
<1>8. 0 \in m2.used /\ up.f \in m2.used /\ m.used \subseteq m2.used
  BY <1>4, <1>5, <1>7 DEF Grown
<1>9. m2.used \subseteq Phys(n)
  <2> HIDE DEF n
  <2> QED
    BY <1>3, <1>7, MemIs
<1>10. Forest(n, ram, kept, spaces)
  BY <1>2 DEF Forest
<1>11. Ready(n, ram, kept, spaces)
  <2> HIDE DEF n
  <2> QED
    BY <1>2, <1>7, <1>8, <1>9, <1>10 DEF Ready
<1>12. \A f \in Phys(n) \ kept : Usable(map, n, f)
  <2> HIDE DEF n
  <2> QED
    BY <1>2, <1>4, <1>8
<1>13. made \in 0 .. MaxMade
  BY <1>2, FramesAssumption
<1> QED
  BY <1>2, <1>11, <1>12, <1>13 DEF IInv

LEMMA NextMoves ==
  ASSUME NEW n \in Nat \ {0}, Ready(n, ram, kept, spaces), Next
  PROVE  Ready(n, ram', kept, spaces') /\ (ram.short => ram'.short)
<1>1. ASSUME NEW prog \in Programs, Spawn(prog)
      PROVE  Ready(n, ram', kept, spaces') /\ (ram.short => ram'.short)
  BY <1>1, SpawnMoves DEF Moves
<1>2. ASSUME NEW s \in spaces, Fork(s)
      PROVE  Ready(n, ram', kept, spaces') /\ (ram.short => ram'.short)
  BY <1>2, ForkMoves DEF Moves
<1>3. ASSUME NEW s \in spaces, Reap(s)
      PROVE  Ready(n, ram', kept, spaces') /\ (ram.short => ram'.short)
  BY <1>3, ReapMoves DEF Moves
<1>4. ASSUME NEW s \in spaces, NEW prog \in Programs, NEW d \in Data, Exec(s, prog, d)
      PROVE  Ready(n, ram', kept, spaces') /\ (ram.short => ram'.short)
  BY <1>4, ExecMoves DEF Moves
<1>5. ASSUME NEW s \in spaces, NEW va \in Mapped(ram, s), NEW d \in Data, Store(s, va, d)
      PROVE  Ready(n, ram', kept, spaces') /\ (ram.short => ram'.short)
  BY <1>5, StoreMoves DEF Moves
<1> QED
  BY <1>1, <1>2, <1>3, <1>4, <1>5 DEF Next

LEMMA NextInvariant == IInv /\ [Next]_vars => IInv'
<1> SUFFICES ASSUME IInv, [Next]_vars PROVE IInv'
  OBVIOUS
<1> DEFINE n == TotalFrames(avail)
<1>1. n \in Nat \ {0} /\ avail \in Maps /\ Ready(n, ram, kept, spaces)
  BY MapIs DEF IInv
<1>2. CASE Next
  <2>1. avail' = avail /\ kpml4' = kpml4 /\ kept' = kept
    BY <1>2 DEF Next, Spawn, Fork, Reap, Exec, Store
  <2>2. made' \in 0 .. MaxMade
    <3>1. made' = made \/ (made < MaxMade /\ made' = made + 1)
      BY <1>2 DEF Next, Spawn, Fork, Reap, Exec, Store, Made
    <3> QED
      BY <3>1, FramesAssumption DEF IInv
  <2>5. call'.op \in {"spawn", "fork", "exec", "reap", "store"}
    BY <1>2 DEF Next, Spawn, Fork, Reap, Exec, Store
  <2>3. Ready(n, ram', kept, spaces')
    <3> HIDE DEF n
    <3> QED
      BY <1>1, <1>2, NextMoves
  <2>4. Ready(n, ram, kept, spaces)' <=> Ready(n, ram', kept, spaces')
    BY <2>1 DEF Ready
  <2> QED
    BY <1>1, <2>1, <2>2, <2>3, <2>4, <2>5 DEF IInv
<1>3. CASE UNCHANGED vars
  BY <1>3 DEF vars, IInv, Ready
<1> QED
  BY <1>2, <1>3

-----------------------------------------------------------------------------
(* The theorems.                                                            *)

THEOREM Invariant == Spec => []IInv
<1>1. Init => IInv
  BY InitInvariant
<1>2. IInv /\ [Next]_vars => IInv'
  BY NextInvariant
<1> QED
  BY <1>1, <1>2, PTL DEF Spec

\* Types, whether memory lasts or not: used_frames stays within the bitmap
\* (pmm.cpp), kernel_pml4 is one of the kernel's frames, and the root of a space
\* that a task holds is a frame and not nullptr (vmm.cpp, kernel.cpp).
THEOREM TypesHold == Spec => []TypeOK
<1>1. IInv => TypeOK
  <2> SUFFICES ASSUME IInv PROVE TypeOK
    OBVIOUS
  <2> DEFINE n == TotalFrames(avail)
  <2>1. /\ n \in Nat /\ avail \in Maps /\ made \in 0 .. MaxMade
        /\ ram \in Mem(n) /\ kpml4 \in kept /\ spaces \subseteq Phys(n) \ {0}
    BY MapIs DEF IInv, Ready
  <2> HIDE DEF n
  <2>2. /\ ram.total = n /\ ram.used \subseteq Phys(n) /\ ram.count = Cardinality(ram.used)
        /\ ram.word \in [Phys(n) -> [Idx -> Word(n)]] /\ ram.short \in BOOLEAN
    BY <2>1, MemIs
  <2>3. ram.count \in 0 .. n
    BY <2>1, <2>2, FrameSets
  <2>4. ram.word \in [Phys(n) -> [Idx -> Nat]]
    <3>1. Word(n) \subseteq Nat
      BY DEF Word
    <3>2. \A f \in Phys(n) : ram.word[f] \in [Idx -> Nat]
      BY <2>2, <3>1
    <3> QED
      BY <2>2, <3>2
  <2>5. spaces \subseteq 1 .. n - 1
    BY <2>1 DEF Phys
  <2>6. call.op \in {"none", "spawn", "fork", "exec", "reap", "store"}
    BY DEF IInv
  <2> QED
    BY <2>1, <2>2, <2>3, <2>4, <2>5, <2>6 DEF TypeOK, Phys
<1> QED
  BY <1>1, Invariant, PTL

\* used_frames is the number of bits set (pmm.cpp), for good: also once memory
\* has run out and frames are freed that nobody may free.
THEOREM CountIsKept == Spec => []CountInStep
<1>1. IInv => CountInStep
  BY MapIs, MemIs DEF IInv, Ready, CountInStep
<1> QED
  BY <1>1, Invariant, PTL

\* As long as memory lasts, the frames in use are the kernel's and the spaces'.
LEMMA KeptInUse ==
  ASSUME IInv, ~ram.short
  PROVE  kept \subseteq ram.used
BY DEF IInv, Ready, Forest

\* As long as pmm has not run out, what it hands out lies in available RAM, and not
\* in the first 1 MiB, the kernel's image or the bitmap (pmm_init, pmm.cpp); and
\* its counter is right.
THEOREM BitmapIsSound == Spec => [](~ram.short => BitmapSound)
<1>1. IInv => (~ram.short => BitmapSound)
  <2> SUFFICES ASSUME IInv, ~ram.short PROVE BitmapSound
    OBVIOUS
  <2> DEFINE n == TotalFrames(avail)
  <2>1. /\ n \in Nat /\ ram \in Mem(n) /\ kept \subseteq ram.used
        /\ \A f \in Phys(n) \ kept : Usable(avail, n, f)
    BY MapIs, KeptInUse DEF IInv, Ready
  <2> HIDE DEF n
  <2>2. ram.total = n /\ ram.count = Cardinality(ram.used)
    BY <2>1, MemIs
  <2>3. ASSUME NEW f \in FreeFrames(ram)
        PROVE  Usable(avail, n, f)
    BY <2>1, <2>2 DEF FreeFrames, Phys
  <2>4. FreeIsUsable
    BY <2>2, <2>3 DEF FreeIsUsable, Usable, Available, At
  <2> QED
    BY <2>2, <2>4 DEF BitmapSound, CountInStep
<1> QED
  BY <1>1, Invariant, PTL

\* As long as pmm has not run out, every frame in use has one owner, the kernel or
\* one address space, whose tables name it once: spawn, fork, exec and the reaper
\* (kernel.cpp, sched.cpp, elf.cpp, vmm.cpp) leak nothing and free nothing in use.
THEOREM FramesAreOwned == Spec => [](~ram.short => FramesOwned)
<1>1. IInv => (~ram.short => FramesOwned)
  <2> SUFFICES ASSUME IInv, ~ram.short PROVE FramesOwned
    OBVIOUS
  <2> DEFINE n == TotalFrames(avail)
  <2>1. n \in Nat /\ ram \in Mem(n) /\ Forest(n, ram, kept, spaces)
    BY MapIs DEF IInv, Ready
  <2> HIDE DEF n
  <2>2. ASSUME NEW s \in spaces, NEW f \in Owned(ram, s) \ {s}
        PROVE  Names(s, f) = 1
    <3>1. PICK lvl : Tree(n, ram, s, Owned(ram, s), lvl)
      BY <2>1 DEF Forest
    <3> QED
      BY <2>1, <3>1, TreeNames
  <2> QED
    BY <2>1, <2>2 DEF Forest, FramesOwned
<1> QED
  BY <1>1, Invariant, PTL

-----------------------------------------------------------------------------
(* What user programs see.                                                  *)

ViewOf(m, s) == [va \in Mapped(m, s) |-> Row(m, s, va)]

LEMMA ViewKept ==
  ASSUME NEW m, NEW m2, NEW s, NEW t, SameContent(m, s, m2, t)
  PROVE  ViewOf(m2, t) = ViewOf(m, s)
BY DEF SameContent, ViewOf

LEMMA ViewsAre ==
  /\ DOMAIN views = spaces /\ \A s \in spaces : views[s] = ViewOf(ram, s)
  /\ DOMAIN views' = spaces' /\ \A s \in spaces' : views'[s] = ViewOf(ram', s)
<1>1. \A s : View(s) = ViewOf(ram, s)
  BY DEF View, ViewOf, Row
<1>2. views' = [s \in spaces' |-> ViewOf(ram', s)]
  BY DEF views, View, ViewOf, Row
<1> QED
  BY <1>1, <1>2 DEF views

\* What a step leaves alone.
LEMMA OthersSame ==
  ASSUME NEW n, NEW K, Moves(n, ram, kept, ram', spaces', K), ~ram'.short, K \subseteq spaces,
         K \subseteq spaces'
  PROVE  User!Same(K)
<1> SUFFICES ASSUME NEW s \in K
             PROVE  views'[s] = views[s]
  BY DEF User!Same
<1>1. SameContent(ram, s, ram', s)
  BY DEF Moves, Kept, SameContent
<1>2. ViewOf(ram', s) = ViewOf(ram, s)
  BY <1>1, ViewKept
<1> QED
  BY <1>2, ViewsAre

\* A space that has been loaded, as its program sees it.
LEMMA LoadedView ==
  ASSUME NEW m, NEW f, NEW prog, Loads(m, f, prog)
  PROVE  User!Loaded(ViewOf(m, f), Image(prog))
BY DEF Loads, ViewOf, User!Loaded

LEMMA SpawnRefines ==
  ASSUME NEW n \in Nat \ {0}, Ready(n, ram, kept, spaces), ~ram'.short,
         NEW prog \in Programs, Spawn(prog)
  PROVE  User!Spawn
<1>1. PICK f : f \notin spaces /\ spaces' = spaces \cup {f} /\ Loads(ram', f, prog)
  BY SpawnMoves
<1>2. User!Same(spaces)
  BY <1>1, SpawnMoves, OthersSame
<1>3. User!Loaded(views'[f], Image(prog))
  BY <1>1, LoadedView, ViewsAre
<1>4. call'.op = "spawn" /\ call'.image = Image(prog)
  BY DEF Spawn
<1>5. DOMAIN views = spaces /\ DOMAIN views' = spaces'
  BY ViewsAre
<1> QED
  BY <1>1, <1>2, <1>3, <1>4, <1>5 DEF User!Spawn

LEMMA ForkRefines ==
  ASSUME NEW n \in Nat \ {0}, Ready(n, ram, kept, spaces), ~ram'.short,
         NEW s \in spaces, Fork(s)
  PROVE  User!Fork
<1>1. PICK d : d \notin spaces /\ spaces' = spaces \cup {d} /\ SameContent(ram, s, ram', d)
  BY ForkMoves
<1>2. User!Same(spaces)
  BY <1>1, ForkMoves, OthersSame
<1>3. views'[d] = views[s]
  BY <1>1, ViewKept, ViewsAre
<1>4. call'.op = "fork" /\ call'.by = s
  BY DEF Fork
<1>5. DOMAIN views = spaces /\ DOMAIN views' = spaces'
  BY ViewsAre
<1> QED
  BY <1>1, <1>2, <1>3, <1>4, <1>5 DEF User!Fork

LEMMA ExecRefines ==
  ASSUME NEW n \in Nat \ {0}, Ready(n, ram, kept, spaces), ~ram'.short,
         NEW s \in spaces, NEW prog \in Programs, NEW d \in Data, Exec(s, prog, d)
  PROVE  User!Exec
<1>1. PICK f : /\ f \notin spaces /\ spaces' = (spaces \ {s}) \cup {f}
               /\ Loads(ram', f, prog) /\ Row(ram', f, Last(Stack))[0] = d
  BY ExecMoves
<1>2. User!Same(spaces \ {s})
  BY <1>1, ExecMoves, OthersSame
<1>3. views'[f] = ViewOf(ram', f)
  BY <1>1, ViewsAre
<1>4. User!Loaded(views'[f], Image(prog))
  BY <1>1, <1>3, LoadedView
<1>5. views'[f][Last(Stack)][0] = d
  <2>1. Last(Stack) \in Mapped(ram', f)
    BY <1>1, StackIs DEF Loads
  <2> QED
    BY <1>1, <1>3, <2>1 DEF ViewOf
<1>6. call'.op = "exec" /\ call'.by = s /\ call'.image = Image(prog) /\ call'.argv = d
  BY DEF Exec
<1>7. DOMAIN views = spaces /\ DOMAIN views' = spaces'
  BY ViewsAre
<1> QED
  BY <1>1, <1>2, <1>4, <1>5, <1>6, <1>7 DEF User!Exec

LEMMA ReapRefines ==
  ASSUME NEW n \in Nat \ {0}, Ready(n, ram, kept, spaces), ~ram'.short,
         NEW s \in spaces, Reap(s)
  PROVE  User!Reap
<1>1. Moves(n, ram, kept, ram', spaces', spaces \ {s}) /\ spaces' = spaces \ {s}
  BY ReapMoves
<1>2. User!Same(spaces')
  BY <1>1, OthersSame
<1>3. call'.op = "reap" /\ call'.of = s
  BY DEF Reap
<1>4. DOMAIN views = spaces /\ DOMAIN views' = spaces'
  BY ViewsAre
<1> QED
  BY <1>1, <1>2, <1>3, <1>4 DEF User!Reap

LEMMA StoreRefines ==
  ASSUME NEW n \in Nat \ {0}, Ready(n, ram, kept, spaces), ~ram'.short,
         NEW s \in spaces, NEW va \in Mapped(ram, s), NEW d \in Data, Store(s, va, d)
  PROVE  User!Store
<1>1. /\ Moves(n, ram, kept, ram', spaces', spaces \ {s}) /\ spaces' = spaces
      /\ Mapped(ram', s) = Mapped(ram, s)
      /\ \A x \in Mapped(ram, s) \ {va} : Row(ram', s, x) = Row(ram, s, x)
      /\ Row(ram', s, va) = [Row(ram, s, va) EXCEPT ![0] = d]
  BY StoreMoves
<1>2. \A t \in spaces \ {s} : views'[t] = views[t]
  BY <1>1, OthersSame DEF User!Same
<1>3. views[s] = ViewOf(ram, s) /\ views'[s] = ViewOf(ram', s)
  BY <1>1, ViewsAre
<1>4. views'[s] = [views[s] EXCEPT ![va] = [views[s][va] EXCEPT ![0] = d]]
  <2> DEFINE v == ViewOf(ram, s)
             w == ViewOf(ram', s)
             page == [Row(ram, s, va) EXCEPT ![0] = d]
  <2>1. v = [x \in Mapped(ram, s) |-> v[x]] /\ w = [x \in Mapped(ram, s) |-> w[x]]
    BY <1>1 DEF ViewOf
  <2>2. v[va] = Row(ram, s, va) /\ w[va] = page
    BY <1>1 DEF ViewOf
  <2>3. \A x \in Mapped(ram, s) \ {va} : w[x] = v[x]
    BY <1>1 DEF ViewOf
  <2> HIDE DEF v, w, page
  <2>4. w = [v EXCEPT ![va] = page]
    BY <2>1, <2>2, <2>3
  <2> QED
    BY <1>3, <2>2, <2>4 DEF v, w, page
<1>5. views' = [views EXCEPT ![s] = [views[s] EXCEPT ![va] = [views[s][va] EXCEPT ![0] = d]]]
  <2> DEFINE memory == [views[s] EXCEPT ![va] = [views[s][va] EXCEPT ![0] = d]]
  <2>1. /\ views = [t \in spaces |-> views[t]]
        /\ views' = [t \in spaces |-> views'[t]]
    <3>1. views = [t \in spaces |-> View(t)] /\ views' = [t \in spaces' |-> View(t)']
      BY DEF views
    <3>2. spaces' = spaces
      BY <1>1
    <3> QED
      BY <3>1, <3>2
  <2>2. views'[s] = memory
    BY <1>4
  <2> HIDE DEF memory
  <2>3. views' = [views EXCEPT ![s] = memory]
    BY <1>2, <2>1, <2>2
  <2> QED
    BY <2>3 DEF memory
<1>6. s \in DOMAIN views /\ va \in DOMAIN views[s]
  BY <1>3, ViewsAre DEF ViewOf
<1>7. call'.op = "store" /\ call'.by = s /\ call'.at = va /\ call'.word = d
  BY DEF Store
<1> QED
  BY <1>5, <1>6, <1>7 DEF User!Store

LEMMA NextRefines ==
  ASSUME IInv, [Next]_vars, ~ram'.short
  PROVE  [User!Step]_<<views, call>>
<1> DEFINE n == TotalFrames(avail)
<1>1. n \in Nat \ {0} /\ Ready(n, ram, kept, spaces)
  BY MapIs DEF IInv
<1> HIDE DEF n
<1>2. CASE Next
  <2>1. ASSUME NEW prog \in Programs, Spawn(prog)
        PROVE  User!Spawn
    BY <1>1, <2>1, SpawnRefines
  <2>2. ASSUME NEW s \in spaces, Fork(s)
        PROVE  User!Fork
    BY <1>1, <2>2, ForkRefines
  <2>3. ASSUME NEW s \in spaces, Reap(s)
        PROVE  User!Reap
    BY <1>1, <2>3, ReapRefines
  <2>4. ASSUME NEW s \in spaces, NEW prog \in Programs, NEW d \in Data, Exec(s, prog, d)
        PROVE  User!Exec
    BY <1>1, <2>4, ExecRefines
  <2>5. ASSUME NEW s \in spaces, NEW va \in Mapped(ram, s), NEW d \in Data, Store(s, va, d)
        PROVE  User!Store
    BY <1>1, <2>5, StoreRefines
  <2> QED
    BY <1>2, <2>1, <2>2, <2>3, <2>4, <2>5 DEF Next, User!Step
<1>3. CASE UNCHANGED vars
  BY <1>3 DEF vars, views, View, Mapped, Page, Pt, Pd, Pdpt, IsMapped
<1> QED
  BY <1>2, <1>3

\* As long as pmm does not run out, what the spaces of user programs hold changes as
\* UserMemory says: a program starts with its image and a stack and nothing else,
\* and after exec with its argv; a fork's child starts with what its parent holds,
\* no page more or less; a store changes a word of one space; and every call
\* (elf.cpp, kernel.cpp, vmm.cpp) leaves the spaces it is not about as they were.
THEOREM SpacesAreApart == Spec /\ [](~ram.short) => ImplementsUserMemory
<1>1. Init => DOMAIN views = {}
  BY DEF Init, views
<1>2. IInv /\ [Next]_vars /\ (~ram.short)' => [User!Step]_<<views, call>>
  BY NextRefines
<1> QED
  BY <1>1, <1>2, Invariant, PTL DEF Spec, ImplementsUserMemory, User!MemorySpec
=============================================================================
