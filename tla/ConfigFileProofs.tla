--------------------------- MODULE ConfigFileProofs ---------------------------
(***************************************************************************)
(* What the daemon writes back is read back, for any text that has one     *)
(* name for its display section; and so memory follows the file, and the   *)
(* file keeps what ConfigStore promises, whatever fails or dies.           *)
(***************************************************************************)
EXTENDS ConfigFile, SequenceTheorems, WellFoundedInduction, TLAPS

\* A set of natural numbers has a least member,
LEMMA LeastExists ==
  ASSUME NEW S \in SUBSET Nat, S # {}
  PROVE  \E p \in S : \A q \in S : p <= q
<1>. DEFINE R == OpToRel(<, Nat)
<1>1. PICK p \in S : \A q \in S : ~(<<q, p>> \in R)
  <2>1. IsWellFoundedOn(R, Nat)
    BY NatLessThanWellFounded
  <2>. HIDE DEF R
  <2>. QED  BY <2>1, WFMin
<1>2. \A q \in S : ~(q < p)
  BY <1>1 DEF OpToRel
<1>. QED  BY <1>2

\* and, where it is bounded, a greatest.
LEMMA GreatestExists ==
  ASSUME NEW N \in Nat, NEW S \in SUBSET (1 .. N), S # {}
  PROVE  \E p \in S : \A q \in S : q <= p
<1>. DEFINE T == {d \in 0 .. N : N - d \in S}
<1>1. PICK p \in T : \A q \in T : p <= q
  <2>1. T \in SUBSET Nat
    OBVIOUS
  <2>2. PICK n \in S : TRUE
    OBVIOUS
  <2>3. N - n \in T
    BY SMT
  <2>4. T # {}
    BY <2>3
  <2>. HIDE DEF T
  <2>. QED  BY <2>1, <2>4, LeastExists
<1>2. N - p \in S
  OBVIOUS
<1>3. ASSUME NEW q \in S PROVE q <= N - p
  <2>1. N - q \in T /\ N - q \in 0 .. N /\ p \in 0 .. N
    OBVIOUS
  <2>2. p <= N - q
    BY <2>1, <1>1
  <2>. QED  BY <2>1, <2>2
<1>. QED  BY <1>2, <1>3

-----------------------------------------------------------------------------
(* Texts                                                                   *)

\* The texts this is about.
Sound(t) == IsText(t) /\ OneName(t)

\* The blocks of a text, by their positions.
LEMMA TextFacts ==
  ASSUME NEW t, IsText(t)
  PROVE  /\ Len(t) \in Nat /\ DOMAIN t = 1 .. Len(t)
         /\ \A n \in DOMAIN t : t[n] = Block(t[n].sec, t[n].keys)
<1> DEFINE S == {Block(t[n].sec, t[n].keys) : n \in DOMAIN t}
<1>1. t \in Seq(S)
  BY DEF IsText
<1>2. Len(t) \in Nat /\ DOMAIN t = 1 .. Len(t) /\ \A n \in DOMAIN t : t[n] \in S
  <2>. HIDE DEF S
  <2>. QED  BY <1>1
<1>3. \A x \in S : x = Block(x.sec, x.keys)
  BY DEF Block
<1>. QED  BY <1>2, <1>3

\* A text can be made block by block.
LEMMA MakeText ==
  ASSUME NEW N \in Nat, NEW t, t = [n \in 1 .. N |-> t[n]],
         \A n \in 1 .. N : t[n] = Block(t[n].sec, t[n].keys)
  PROVE  IsText(t)
<1> DEFINE S == {Block(t[n].sec, t[n].keys) : n \in DOMAIN t}
<1>1. t \in [1 .. N -> S]
  OBVIOUS
<1>2. t \in Seq(S)
  <2>. HIDE DEF S
  <2>. QED  BY <1>1, SeqDef
<1>. QED  BY <1>2 DEF IsText

\* Two texts in which a section consists of the same blocks.
SameSection(t, u, s) == Blocks(t, s) = Blocks(u, s) /\ \A n \in Blocks(t, s) : t[n] = u[n]

\* The blocks of a section that have a key, and the last of them.
With(t, s, key) == {n \in Blocks(t, s) : key \in DOMAIN t[n].keys}
LastOf(S) == CHOOSE n \in S : \A m \in S : m <= n

\* Get reads that block.
LEMMA GetLast == \A t, s, key : Get(t, s, key) = t[LastOf(With(t, s, key))].keys[key]
BY DEF Get, LastOf, With

\* A key that is there has a last block.
LEMMA LastWith ==
  ASSUME NEW t, IsText(t), NEW s, NEW key \in Keys(t, s)
  PROVE  /\ LastOf(With(t, s, key)) \in With(t, s, key)
         /\ \A n \in With(t, s, key) : n <= LastOf(With(t, s, key))
<1>1. With(t, s, key) \in SUBSET (1 .. Len(t)) /\ Len(t) \in Nat
  BY TextFacts DEF With, Blocks
<1>2. With(t, s, key) # {}
  BY DEF With, Keys
<1>3. \E p \in With(t, s, key) : \A q \in With(t, s, key) : q <= p
  BY <1>1, <1>2, GreatestExists
<1>. QED  BY <1>3 DEF LastOf

\* Such a section has the same values.
LEMMA SameValues ==
  ASSUME NEW t, NEW u, NEW s, IsText(t), SameSection(t, u, s)
  PROVE  /\ HasSection(t, s) = HasSection(u, s)
         /\ Keys(t, s) = Keys(u, s)
         /\ \A key \in Keys(t, s) : Get(t, s, key) = Get(u, s, key)
<1>1. HasSection(t, s) = HasSection(u, s)
  BY DEF SameSection, HasSection
<1>2. Keys(t, s) = Keys(u, s)
  BY DEF SameSection, Keys
<1>3. ASSUME NEW key \in Keys(t, s) PROVE Get(t, s, key) = Get(u, s, key)
  <2>1. With(t, s, key) = With(u, s, key)
    BY DEF SameSection, With
  <2>2. LastOf(With(t, s, key)) \in Blocks(t, s)
    BY LastWith DEF With
  <2>. QED  BY <2>1, <2>2, GetLast DEF SameSection
<1>. QED  BY <1>1, <1>2, <1>3

\* And so it is read the same.
LEMMA SameRead ==
  ASSUME NEW t, NEW u, NEW s, IsText(t), SameSection(t, u, s), NEW rules
  PROVE  Read(t, s, rules) = Read(u, s, rules)
<1>1. \A k : Setting(t, s, rules[k]) = Setting(u, s, rules[k])
  BY SameValues DEF Setting
<1>2. HasSection(t, s) = HasSection(u, s)
  BY SameValues
<1>. QED  BY <1>1, <1>2 DEF Read

-----------------------------------------------------------------------------
(* What write_osd_levels makes of a text                                   *)

Ours(t) == {n \in DOMAIN t : t[n].sec \in DisplayNames}
FirstOurs(t) == CHOOSE n \in Ours(t) : \A m \in Ours(t) : n <= m

Rest(keys) == Without(keys, LevelKeys)
Leveled(keys, b, s) == Over(Levels2(b, s), Rest(keys))
NewKeys(t, b, s, n) == IF n = FirstOurs(t) THEN Leveled(t[n].keys, b, s) ELSE Rest(t[n].keys)

Rewritten(t, b, s) ==
  [n \in DOMAIN t |-> IF n \notin Ours(t) THEN t[n] ELSE Block("display", NewKeys(t, b, s, n))]

\* A sequence with one more element.
LEMMA AddedBlock ==
  ASSUME NEW N \in Nat, NEW r, NEW x
  PROVE  [n \in 1 .. N |-> r[n]] \o <<x>> = [n \in 1 .. N + 1 |-> IF n \in 1 .. N THEN r[n] ELSE x]
<1> DEFINE S == {r[n] : n \in 1 .. N} \union {x}
           R == [n \in 1 .. N |-> r[n]]
           RX == R \o <<x>>
<1>1. R \in Seq(S) /\ <<x>> \in Seq(S) /\ Len(R) = N /\ Len(<<x>>) = 1
  <2>1. R \in [1 .. N -> S]
    OBVIOUS
  <2>2. R \in Seq(S) /\ Len(R) = N
    <3>. HIDE DEF S
    <3>. QED  BY <2>1
  <2>3. x \in S
    OBVIOUS
  <2>. QED  BY <2>2, <2>3
<1>2. RX \in Seq(S) /\ Len(RX) = N + 1
  <2>. HIDE DEF S, R
  <2>. QED  BY <1>1
<1>3. \A i \in 1 .. N + 1 : RX[i] = IF i <= Len(R) THEN R[i] ELSE <<x>>[i - Len(R)]
  <2>. HIDE DEF S, R
  <2>. QED  BY <1>1
<1>4. RX = [i \in 1 .. N + 1 |-> RX[i]]
  <2>. HIDE DEF S, RX
  <2>. QED  BY <1>2
<1>5. \A i \in 1 .. N + 1 : RX[i] = IF i \in 1 .. N THEN r[i] ELSE x
  <2>. HIDE DEF S, RX
  <2>. QED  BY <1>1, <1>3
<1>. HIDE DEF RX, R, S
<1>6. RX = [n \in 1 .. N + 1 |-> IF n \in 1 .. N THEN r[n] ELSE x]
  BY <1>4, <1>5
<1>. QED  BY <1>6 DEF RX, R

\* A text with a display section keeps its blocks, another gets one more.
LEMMA Written ==
  ASSUME NEW t, IsText(t), NEW b, NEW s
  PROVE  /\ Ours(t) # {} => WriteLevels(t, b, s) = Rewritten(t, b, s)
         /\ Ours(t) = {} =>
              WriteLevels(t, b, s) =
                [n \in 1 .. Len(t) + 1 |-> IF n \in 1 .. Len(t) THEN t[n]
                                           ELSE Block("display", Levels2(b, s))]
<1> DEFINE R == Rewritten(t, b, s)
           x == Block("display", Levels2(b, s))
<1>1. Len(t) \in Nat /\ DOMAIN t = 1 .. Len(t)
  BY TextFacts
<1>2. WriteLevels(t, b, s) = R \o (IF Ours(t) = {} THEN <<x>> ELSE <<>>)
  BY DEF WriteLevels, Rewritten, Ours, FirstOurs, NewKeys, Leveled, Rest
<1>3. R = [n \in 1 .. Len(t) |-> R[n]]
  BY <1>1 DEF Rewritten
<1>4. CASE Ours(t) # {}
  <2>1. R \in Seq({R[n] : n \in 1 .. Len(t)})
    BY <1>1, <1>3, SeqDef
  <2>2. R \o <<>> = R
    BY <2>1, ConcatEmptySeq
  <2>. QED  BY <1>2, <1>4, <2>2
<1>5. CASE Ours(t) = {}
  <2>1. \A n \in 1 .. Len(t) : R[n] = t[n]
    BY <1>1, <1>5 DEF Rewritten
  <2>2. WriteLevels(t, b, s) = R \o <<x>>
    BY <1>2, <1>5
  <2>. HIDE DEF R, x
  <2>3. R \o <<x>> = [n \in 1 .. Len(t) + 1 |-> IF n \in 1 .. Len(t) THEN R[n] ELSE x]
    BY <1>1, <1>3, AddedBlock
  <2>4. R \o <<x>> = [n \in 1 .. Len(t) + 1 |-> IF n \in 1 .. Len(t) THEN t[n] ELSE x]
    BY <2>1, <2>3
  <2>. QED  BY <1>5, <2>2, <2>4 DEF x
<1>. QED  BY <1>4, <1>5

\* The keys that stay, and the new ones.
LEMMA RestFacts ==
  ASSUME NEW keys
  PROVE  /\ DOMAIN Rest(keys) = DOMAIN keys \ LevelKeys
         /\ \A k \in DOMAIN keys \ LevelKeys : Rest(keys)[k] = keys[k]
BY DEF Rest, Without

\* The new keys have the names and the values of levels.
LEMMA Levels2Facts ==
  ASSUME NEW b, NEW s
  PROVE  /\ DOMAIN Levels2(b, s) = {"brightness", "sleep_timeout"}
         /\ Levels2(b, s)["brightness"] = LevelText(b, "auto")
         /\ Levels2(b, s)["sleep_timeout"] = LevelText(s, "never")
BY DEF Levels2

\* The first block's keys are the new ones and those that stay.
LEMMA LeveledKeys ==
  \A keys, b, s :
    DOMAIN Leveled(keys, b, s) = {"brightness", "sleep_timeout"} \union (DOMAIN keys \ LevelKeys)
<1> TAKE keys, b, s
<1>1. DOMAIN Leveled(keys, b, s) = DOMAIN Levels2(b, s) \union DOMAIN Rest(keys)
  BY DEF Leveled, Over
<1>. QED  BY <1>1, RestFacts, Levels2Facts

\* The new ones have the new values,
LEMMA LeveledNew ==
  \A keys, b, s : /\ Leveled(keys, b, s)["brightness"] = LevelText(b, "auto")
                  /\ Leveled(keys, b, s)["sleep_timeout"] = LevelText(s, "never")
<1> TAKE keys, b, s
<1>1. \A k \in {"brightness", "sleep_timeout"} : Leveled(keys, b, s)[k] = Levels2(b, s)[k]
  BY Levels2Facts DEF Leveled, Over
<1>. QED  BY <1>1, Levels2Facts

\* and those that stay have theirs.
LEMMA LeveledOld ==
  \A keys, b, s : \A k \in DOMAIN keys \ LevelKeys : Leveled(keys, b, s)[k] = keys[k]
<1> TAKE keys, b, s
<1> TAKE k \in DOMAIN keys \ LevelKeys
<1>1. k \in DOMAIN Rest(keys) /\ Rest(keys)[k] = keys[k]
  BY RestFacts
<1>2. k \notin DOMAIN Levels2(b, s)
  BY Levels2Facts DEF LevelKeys
<1>. QED  BY <1>1, <1>2 DEF Leveled, Over

\* Of the texts with one name for the display section, its blocks are Ours.
LEMMA OursFacts ==
  ASSUME NEW t, Sound(t)
  PROVE  /\ Ours(t) # {} => /\ HasSection(t, DisplaySection(t))
                            /\ Ours(t) = Blocks(t, DisplaySection(t))
         /\ Ours(t) = {} => ~HasSection(t, DisplaySection(t))
         /\ FirstOurs(t) \in Ours(t) \/ Ours(t) = {}
<1>1. Ours(t) = Blocks(t, "display") \union Blocks(t, "osd")
  BY DEF Ours, Blocks, DisplayNames
<1>2. Ours(t) # {} => \E p \in Ours(t) : \A q \in Ours(t) : p <= q
  <2>1. Ours(t) \in SUBSET Nat
    BY TextFacts DEF Ours, Sound
  <2>. QED  BY <2>1, LeastExists
<1>3. FirstOurs(t) \in Ours(t) \/ Ours(t) = {}
  BY <1>2 DEF FirstOurs
<1>. QED  BY <1>1, <1>3 DEF Sound, OneName, HasSection, DisplaySection

\* What is written is a text, whose display section has the newer name.
LEMMA WrittenSound ==
  ASSUME NEW t, Sound(t), NEW b, NEW s
  PROVE  LET w == WriteLevels(t, b, s) IN
           /\ Sound(w)
           /\ Blocks(w, "osd") = {} /\ HasSection(w, "display") /\ DisplaySection(w) = "display"
<1> DEFINE w == WriteLevels(t, b, s)
<1>1. /\ Len(t) \in Nat /\ DOMAIN t = 1 .. Len(t)
      /\ \A n \in DOMAIN t : t[n] = Block(t[n].sec, t[n].keys)
  BY TextFacts DEF Sound
<1>2. \A x, y : Block(x, y) = Block(Block(x, y).sec, Block(x, y).keys) /\ Block(x, y).sec = x
  BY DEF Block
<1>3. CASE Ours(t) # {}
  <2>1. w = Rewritten(t, b, s)
    BY <1>3, Written DEF Sound
  <2>2. w = [n \in 1 .. Len(t) |-> w[n]] /\ \A n \in 1 .. Len(t) : w[n] = Block(w[n].sec, w[n].keys)
    BY <1>1, <1>2, <2>1 DEF Rewritten
  <2>3. Blocks(w, "display") = Ours(t) /\ Blocks(w, "osd") = {}
    BY <1>1, <1>2, <2>1 DEF Rewritten, Blocks, Ours, DisplayNames
  <2>4. IsText(w)
    BY <1>1, <2>2, MakeText
  <2>. QED  BY <1>3, <2>3, <2>4 DEF Sound, OneName, HasSection, DisplaySection
<1>4. CASE Ours(t) = {}
  <2> DEFINE x == Block("display", Levels2(b, s))
  <2>1. w = [n \in 1 .. Len(t) + 1 |-> IF n \in 1 .. Len(t) THEN t[n] ELSE x]
    BY <1>4, Written DEF Sound
  <2>2. /\ w = [n \in 1 .. Len(t) + 1 |-> w[n]]
        /\ \A n \in 1 .. Len(t) + 1 : w[n] = Block(w[n].sec, w[n].keys)
    <3>1. x = Block(x.sec, x.keys)
      BY <1>2
    <3>. HIDE DEF x
    <3>. QED  BY <1>1, <2>1, <3>1
  <2>3. Blocks(w, "display") = {Len(t) + 1} /\ Blocks(w, "osd") = {}
    <3>1. x.sec = "display"
      BY <1>2
    <3>2. \A n \in 1 .. Len(t) : t[n].sec # "display" /\ t[n].sec # "osd"
      BY <1>1, <1>4 DEF Ours, DisplayNames
    <3>. HIDE DEF x
    <3>. QED  BY <1>1, <2>1, <3>1, <3>2 DEF Blocks
  <2>4. IsText(w)
    BY <1>1, <2>2, MakeText
  <2>. QED  BY <2>3, <2>4 DEF Sound, OneName, HasSection, DisplaySection
<1>. QED  BY <1>3, <1>4

\* The other sections are left alone.
LEMMA OthersStay ==
  ASSUME NEW t, Sound(t), NEW b, NEW s, NEW sec, sec \notin DisplayNames
  PROVE  SameSection(t, WriteLevels(t, b, s), sec)
<1> DEFINE w == WriteLevels(t, b, s)
<1>1. Len(t) \in Nat /\ DOMAIN t = 1 .. Len(t)
  BY TextFacts DEF Sound
<1>2. \A x, y : Block(x, y).sec = x
  BY DEF Block
<1>3. CASE Ours(t) # {}
  <2>1. w = Rewritten(t, b, s)
    BY <1>3, Written DEF Sound
  <2>. QED  BY <1>1, <1>2, <2>1 DEF Rewritten, SameSection, Blocks, Ours, DisplayNames
<1>4. CASE Ours(t) = {}
  <2>1. w = [n \in 1 .. Len(t) + 1 |-> IF n \in 1 .. Len(t) THEN t[n]
                                       ELSE Block("display", Levels2(b, s))]
    BY <1>4, Written DEF Sound
  <2>. QED  BY <1>1, <1>2, <2>1 DEF SameSection, Blocks, DisplayNames
<1>. QED  BY <1>3, <1>4

\* The levels are there, and the other keys as they were.
LEMMA DisplayKeys ==
  ASSUME NEW t, Sound(t), NEW b, NEW s
  PROVE  LET w == WriteLevels(t, b, s)
             d == DisplaySection(t)
         IN /\ Keys(w, "display") = {"brightness", "sleep_timeout"} \union (Keys(t, d) \ LevelKeys)
            /\ Get(w, "display", "brightness") = LevelText(b, "auto")
            /\ Get(w, "display", "sleep_timeout") = LevelText(s, "never")
            /\ \A k \in Keys(t, d) \ LevelKeys : Get(w, "display", k) = Get(t, d, k)
<1> DEFINE w == WriteLevels(t, b, s)
           d == DisplaySection(t)
           first == {"brightness", "sleep_timeout"}
<1>1. Len(t) \in Nat /\ DOMAIN t = 1 .. Len(t)
  BY TextFacts DEF Sound
<1>2. \A x, y : Block(x, y).keys = y /\ Block(x, y).sec = x
  BY DEF Block
<1>3. first \subseteq LevelKeys
  BY DEF LevelKeys
<1>4. IsText(w)
  BY WrittenSound DEF Sound
<1>5. CASE Ours(t) # {}
  <2> DEFINE f == FirstOurs(t)
  <2>1. w = Rewritten(t, b, s)
    BY <1>5, Written DEF Sound
  <2>2. Blocks(w, "display") = Ours(t) /\ Blocks(t, d) = Ours(t) /\ f \in Ours(t)
    <3>1. Blocks(w, "display") = Ours(t)
      BY <1>1, <1>2, <2>1 DEF Rewritten, Blocks, Ours, DisplayNames
    <3>. QED  BY <3>1, <1>5, OursFacts
  <2>3. \A n \in Ours(t) : w[n].keys = NewKeys(t, b, s, n)
    BY <1>1, <1>2, <2>1 DEF Rewritten, Ours
  <2>4. \A n \in Ours(t) : n # f => DOMAIN w[n].keys = DOMAIN t[n].keys \ LevelKeys
    BY <2>3, RestFacts DEF NewKeys
  <2>5. w[f].keys = Leveled(t[f].keys, b, s)
    BY <2>2, <2>3 DEF NewKeys
  <2>. HIDE DEF f, w, d
  <2>6. DOMAIN w[f].keys = first \union (DOMAIN t[f].keys \ LevelKeys)
    <3>1. DOMAIN Leveled(t[f].keys, b, s) = first \union (DOMAIN t[f].keys \ LevelKeys)
      BY LeveledKeys
    <3>. QED  BY <2>5, <3>1
  <2>7. \A n \in Ours(t) : n # f => w[n].keys = Rest(t[n].keys)
    BY <2>3 DEF NewKeys, f
  <2>8. \A n \in Ours(t) : \A k \in DOMAIN t[n].keys \ LevelKeys : w[n].keys[k] = t[n].keys[k]
    <3> TAKE n \in Ours(t)
    <3> TAKE k \in DOMAIN t[n].keys \ LevelKeys
    <3>1. CASE n = f
      <4>1. k \in DOMAIN t[f].keys \ LevelKeys
        BY <3>1
      <4>2. w[f].keys[k] = t[f].keys[k]
        BY <2>5, <4>1, LeveledOld
      <4>. QED  BY <3>1, <4>2
    <3>2. CASE n # f
      BY <3>2, <2>7, RestFacts
    <3>. QED  BY <3>1, <3>2
  <2>9. w[f].keys["brightness"] = LevelText(b, "auto") /\ w[f].keys["sleep_timeout"] = LevelText(s, "never")
    BY <2>5, LeveledNew
  <2>. HIDE DEF first
  <2>10. Keys(w, "display") = first \union (Keys(t, d) \ LevelKeys)
    BY <2>2, <2>4, <2>6 DEF Keys
  <2>11. ASSUME NEW k \in first PROVE Get(w, "display", k) = w[f].keys[k]
    <3>1. With(w, "display", k) = {f}
      BY <1>3, <2>2, <2>4, <2>6 DEF With
    <3>2. k \in Keys(w, "display")
      BY <2>10
    <3>3. LastOf(With(w, "display", k)) = f
      BY <1>4, <3>1, <3>2, LastWith
    <3>. QED  BY <3>3, GetLast
  <2>12. ASSUME NEW k \in Keys(t, d) \ LevelKeys PROVE Get(w, "display", k) = Get(t, d, k)
    <3>1. With(w, "display", k) = With(t, d, k)
      BY <1>3, <2>2, <2>4, <2>6 DEF With
    <3>2. LastOf(With(t, d, k)) \in With(t, d, k)
      BY LastWith DEF Sound
    <3>3. w[LastOf(With(t, d, k))].keys[k] = t[LastOf(With(t, d, k))].keys[k]
      BY <2>2, <2>8, <3>2 DEF With
    <3>. QED  BY <3>1, <3>3, GetLast
  <2>. QED  BY <2>9, <2>10, <2>11, <2>12 DEF first, w, d
<1>6. CASE Ours(t) = {}
  <2> DEFINE x == Block("display", Levels2(b, s))
             last == Len(t) + 1
  <2>1. w = [n \in 1 .. last |-> IF n \in 1 .. Len(t) THEN t[n] ELSE x]
    BY <1>6, Written DEF Sound
  <2>2. x.sec = "display" /\ x.keys = Levels2(b, s)
    BY <1>2
  <2>3. \A n \in 1 .. Len(t) : t[n].sec # "display"
    BY <1>1, <1>6 DEF Ours, DisplayNames
  <2>. HIDE DEF x
  <2>4. Blocks(w, "display") = {last} /\ w[last] = x
    BY <1>1, <2>1, <2>2, <2>3 DEF Blocks
  <2>. HIDE DEF w, last
  <2>5. Keys(w, "display") = first
    BY <2>2, <2>4, Levels2Facts DEF Keys
  <2>6. Keys(t, d) = {}
    BY <1>6, OursFacts DEF Keys, HasSection
  <2>7. ASSUME NEW k \in first PROVE Get(w, "display", k) = Levels2(b, s)[k]
    <3>1. With(w, "display", k) \subseteq {last}
      BY <2>4 DEF With
    <3>2. LastOf(With(w, "display", k)) = last
      BY <1>4, <2>5, <3>1, LastWith
    <3>. QED  BY <2>2, <2>4, <3>2, GetLast
  <2>. QED  BY <2>5, <2>6, <2>7, Levels2Facts DEF w
<1>. QED  BY <1>5, <1>6

-----------------------------------------------------------------------------
(* Round trip                                                              *)

\* A level written is read back: 0 stands for "auto" and for "never".
LEMMA LevelRead ==
  ASSUME NEW n \in 0 .. 6
  PROVE  /\ Convert(Display.bright, LevelText(n, "auto")) = n
         /\ Convert(Display.bright_auto, LevelText(n, "auto")) = (n = 0)
         /\ Convert(Display.sleep, LevelText(n, "never")) = n
<1> DEFINE Never == {"", "never"}
<1>1. Display.bright = Num("brightness", "default_brightness", 4, U8, {"auto"}, 0, 100)
  BY DEF Display
<1>2. Display.sleep = Num("sleep_timeout", "sleep_timeout_sec", 4, U16, Never, 0, U16)
  BY DEF Display
<1>3. "never" \in Never
  OBVIOUS
<1>. HIDE DEF Never
<1>4. /\ Display.bright_auto.kind = "test" /\ Display.bright_auto.zero = FALSE
      /\ Display.bright_auto.of = {"auto"}
  BY DEF Display, Among
<1>5. \A v, key, alias, d, type, zero, low, high :
        /\ v.num = -1 /\ v.word \in zero => Convert(Num(key, alias, d, type, zero, low, high), v) = 0
        /\ v.num # -1 /\ v.num \in 0 .. type =>
             Convert(Num(key, alias, d, type, zero, low, high), v) = Clamp(v.num, low, high)
  BY DEF Convert, Num
<1>6. U8 \in Nat /\ U16 \in Nat /\ U8 >= 6 /\ U16 >= 6
  BY DEF U8, U16
<1>7. \A rule, v : rule.kind = "test" =>
        Convert(rule, v) = ((v.num = 0 /\ rule.zero) \/ v.word \in rule.of)
  BY DEF Convert
<1>8. /\ LevelText(n, "auto").num = IF n = 0 THEN -1 ELSE n
      /\ LevelText(n, "auto").word = IF n = 0 THEN "auto" ELSE ""
      /\ LevelText(n, "never").num = IF n = 0 THEN -1 ELSE n
      /\ LevelText(n, "never").word = IF n = 0 THEN "never" ELSE ""
  BY DEF LevelText, Word, Number
<1>9. Convert(Display.bright, LevelText(n, "auto")) = n
  <2>1. CASE n = 0
    BY <1>1, <1>5, <1>8, <2>1
  <2>2. CASE n # 0
    <3>1. LevelText(n, "auto").num = n
      BY <2>2 DEF LevelText, Number
    <3>2. Convert(Display.bright, LevelText(n, "auto")) = Clamp(n, 0, 100)
      BY <1>1, <1>5, <3>1 DEF U8
    <3>. QED  BY <3>2 DEF Clamp
  <2>. QED  BY <2>1, <2>2
<1>10. Convert(Display.bright_auto, LevelText(n, "auto")) = (n = 0)
  BY <1>4, <1>7, <1>8
<1>11. Convert(Display.sleep, LevelText(n, "never")) = n
  <2>1. CASE n = 0
    BY <1>2, <1>3, <1>5, <1>8, <2>1
  <2>2. CASE n # 0
    <3>1. LevelText(n, "never").num = n
      BY <2>2 DEF LevelText, Number
    <3>2. LevelText(n, "never").num # -1 /\ LevelText(n, "never").num \in 0 .. U16
      BY <1>6, <3>1
    <3>3. Convert(Display.sleep, LevelText(n, "never")) = Clamp(n, 0, U16)
      BY <1>2, <1>5, <3>1, <3>2
    <3>. QED  BY <1>6, <3>3 DEF Clamp
  <2>. QED  BY <2>1, <2>2
<1>. QED  BY <1>9, <1>10, <1>11

Others == {"dismiss_on_tap", "wake_on_alert", "auto_day", "auto_night", "auto_day_hour",
           "auto_night_hour"}

\* What the keys of the levels are called, and that the others are not called so.
LEMMA Spellings ==
  /\ Display["bright"].key = "brightness" /\ Display["bright_auto"].key = "brightness"
  /\ Display["sleep"].key = "sleep_timeout"
  /\ Display["auto_bright"].key = "auto_brightness" /\ Display["auto_bright"].alias = "auto_brightness"
  /\ Display["auto_bright"].absent = FALSE
  /\ \A k \in Others : /\ Display[k].key \notin LevelKeys /\ Display[k].alias \notin LevelKeys
                       /\ Display[k].default = Display[k].absent
  /\ {"bright", "bright_auto", "auto_bright", "sleep"} \union Others = DOMAIN Display
<1>1. Display["bright"].key = "brightness" /\ Display["bright_auto"].key = "brightness"
  BY DEF Display, Num, Among
<1>2. Display["sleep"] = Num("sleep_timeout", "sleep_timeout_sec", 4, U16, {"", "never"}, 0, U16)
  BY DEF Display
<1>3. Display["sleep"].key = "sleep_timeout"
  <2> DEFINE zero == {"", "never"}
  <2>1. Display["sleep"] = Num("sleep_timeout", "sleep_timeout_sec", 4, U16, zero, 0, U16)
    BY <1>2
  <2>. HIDE DEF zero
  <2>. QED  BY <2>1 DEF Num
<1>4. /\ Display["auto_bright"].key = "auto_brightness" /\ Display["auto_bright"].alias = "auto_brightness"
      /\ Display["auto_bright"].absent = FALSE
  BY DEF Display, Flag
<1>5. /\ Display["dismiss_on_tap"] = Flag("dismiss_alert_on_tap", TRUE, TRUE)
      /\ Display["wake_on_alert"] = Flag("wake_on_alert", TRUE, TRUE)
  BY DEF Display
<1>6. /\ Display["auto_day"] = Num("auto_day_level", "auto_day_pct", 5, U8, {}, 0, 100)
      /\ Display["auto_night"] = Num("auto_night_level", "auto_night_pct", 2, U8, {}, 0, 100)
      /\ Display["auto_day_hour"] = Num("auto_day_hour", "auto_day_hour", 7, U8, {}, 0, 23)
      /\ Display["auto_night_hour"] = Num("auto_night_hour", "auto_night_hour", 21, U8, {}, 0, 23)
  BY DEF Display
<1>7. \A key, alias, d, type, zero, low, high :
         LET n == Num(key, alias, d, type, zero, low, high) IN
           n.key = key /\ n.alias = alias /\ n.default = n.absent
  BY DEF Num
<1>8. \A k \in Others : /\ Display[k].key \notin LevelKeys /\ Display[k].alias \notin LevelKeys
                        /\ Display[k].default = Display[k].absent
  <2>1. \A k \in {"dismiss_on_tap", "wake_on_alert"} :
          /\ Display[k].key \notin LevelKeys /\ Display[k].alias \notin LevelKeys
          /\ Display[k].default = Display[k].absent
    <3>1. /\ Display["dismiss_on_tap"].key = "dismiss_alert_on_tap"
          /\ Display["dismiss_on_tap"].alias = "dismiss_alert_on_tap"
          /\ Display["wake_on_alert"].key = "wake_on_alert"
          /\ Display["wake_on_alert"].alias = "wake_on_alert"
      BY <1>5 DEF Flag
    <3>2. /\ Display["dismiss_on_tap"].default = Display["dismiss_on_tap"].absent
          /\ Display["wake_on_alert"].default = Display["wake_on_alert"].absent
      BY DEF Display, Flag
    <3>. QED  BY <3>1, <3>2 DEF LevelKeys
  <2>2. \A k \in {"auto_day", "auto_night"} :
          /\ Display[k].key \notin LevelKeys /\ Display[k].alias \notin LevelKeys
          /\ Display[k].default = Display[k].absent
    BY <1>6, <1>7 DEF LevelKeys
  <2>3. \A k \in {"auto_day_hour", "auto_night_hour"} :
          /\ Display[k].key \notin LevelKeys /\ Display[k].alias \notin LevelKeys
          /\ Display[k].default = Display[k].absent
    BY <1>6, <1>7 DEF LevelKeys
  <2>. QED  BY <2>1, <2>2, <2>3 DEF Others
<1>9. {"bright", "bright_auto", "auto_bright", "sleep"} \union Others = DOMAIN Display
  BY DEF Display, Others
<1>. QED  BY <1>1, <1>3, <1>4, <1>8, <1>9

\* The display section of what was written.
LEMMA DisplayRead ==
  ASSUME NEW t, Sound(t), NEW b \in 0 .. 6, NEW s \in 0 .. 6
  PROVE  LET d == Read(t, DisplaySection(t), Display)
             e == Read(WriteLevels(t, b, s), "display", Display)
         IN /\ e["bright"] = b /\ e["sleep"] = s
            /\ (e["bright_auto"] \/ e["auto_bright"]) = (b = 0)
            /\ \A k \in Others : e[k] = d[k]
<1> DEFINE w == WriteLevels(t, b, s)
           ds == DisplaySection(t)
           d == Read(t, ds, Display)
           e == Read(w, "display", Display)
<1>1. \A k \in DOMAIN Display : e[k] = Setting(w, "display", Display[k])
  <2>1. HasSection(w, "display")
    BY WrittenSound
  <2>. QED  BY <2>1 DEF Read
<1>2. \A k \in DOMAIN Display :
        d[k] = IF HasSection(t, ds) THEN Setting(t, ds, Display[k]) ELSE Display[k].default
  BY DEF Read
<1>3. /\ Keys(w, "display") = {"brightness", "sleep_timeout"} \union (Keys(t, ds) \ LevelKeys)
      /\ \A k \in Keys(t, ds) \ LevelKeys : Get(w, "display", k) = Get(t, ds, k)
  BY DisplayKeys
<1>4. Get(w, "display", "brightness") = LevelText(b, "auto")
  BY DisplayKeys
<1>5. Get(w, "display", "sleep_timeout") = LevelText(s, "never")
  BY DisplayKeys
<1>. HIDE DEF w, ds, d, e
<1>6. e["bright"] = b
  <2>1. Setting(w, "display", Display["bright"]) = Convert(Display["bright"], LevelText(b, "auto"))
    BY <1>3, <1>4, Spellings DEF Setting
  <2>. QED  BY <1>1, <2>1, LevelRead, Spellings
<1>7. e["sleep"] = s
  <2>1. Setting(w, "display", Display["sleep"]) = Convert(Display["sleep"], LevelText(s, "never"))
    BY <1>3, <1>5, Spellings DEF Setting
  <2>. QED  BY <1>1, <2>1, LevelRead, Spellings
<1>8. e["bright_auto"] = (b = 0)
  <2>1. Setting(w, "display", Display["bright_auto"]) = Convert(Display["bright_auto"], LevelText(b, "auto"))
    BY <1>3, <1>4, Spellings DEF Setting
  <2>. QED  BY <1>1, <2>1, LevelRead, Spellings
<1>9. e["auto_bright"] = FALSE
  <2>1. "auto_brightness" \notin Keys(w, "display")
    BY <1>3 DEF LevelKeys
  <2>2. Setting(w, "display", Display["auto_bright"]) = FALSE
    BY <2>1, Spellings DEF Setting
  <2>. QED  BY <1>1, <2>2, Spellings
<1>10. ASSUME NEW k \in Others PROVE e[k] = d[k]
  <2> DEFINE rule == Display[k]
  <2>1. k \in DOMAIN Display /\ rule.key \notin LevelKeys /\ rule.alias \notin LevelKeys
        /\ rule.default = rule.absent
    BY Spellings
  <2>2. "brightness" \in LevelKeys /\ "sleep_timeout" \in LevelKeys
    BY DEF LevelKeys
  <2>3. \A x \in {rule.key, rule.alias} :
          /\ x \in Keys(w, "display") <=> x \in Keys(t, ds)
          /\ x \in Keys(t, ds) => Get(w, "display", x) = Get(t, ds, x)
    BY <1>3, <2>1, <2>2
  <2>. HIDE DEF rule
  <2>4. Setting(w, "display", rule) = Setting(t, ds, rule)
    BY <2>3 DEF Setting
  <2>5. ~HasSection(t, ds) => Setting(t, ds, rule) = rule.absent
    BY DEF Setting, HasSection, Keys
  <2>6. e[k] = Setting(w, "display", rule) /\
        d[k] = IF HasSection(t, ds) THEN Setting(t, ds, rule) ELSE rule.default
    BY <1>1, <1>2, <2>1 DEF rule
  <2>. QED  BY <2>1, <2>4, <2>5, <2>6
<1>. QED  BY <1>6, <1>7, <1>8, <1>9, <1>10 DEF d, e, w, ds

\* The display section is read back with the new levels.
LEMMA DisplayRoundTrip ==
  ASSUME NEW t, Sound(t), NEW b \in 0 .. 6, NEW s \in 0 .. 6
  PROVE  ReadDisplay(WriteLevels(t, b, s)) =
           [bright |-> b, sleep |-> s, auto |-> (b = 0), others |-> ReadDisplay(t).others]
<1> DEFINE w == WriteLevels(t, b, s)
           d == Read(t, DisplaySection(t), Display)
           e == Read(w, "display", Display)
<1>1. DisplaySection(w) = "display"
  BY WrittenSound
<1>2. ReadDisplay(w) = [bright |-> e["bright"], sleep |-> e["sleep"],
                        auto |-> e["bright_auto"] \/ e["auto_bright"],
                        others |-> [k \in Others |-> e[k]]]
  BY <1>1 DEF ReadDisplay, Others
<1>3. ReadDisplay(t).others = [k \in Others |-> d[k]]
  BY DEF ReadDisplay, Others
<1>4. /\ e["bright"] = b /\ e["sleep"] = s
      /\ (e["bright_auto"] \/ e["auto_bright"]) = (b = 0)
      /\ \A k \in Others : e[k] = d[k]
  BY DisplayRead
<1>. HIDE DEF w, d, e
<1>5. [k \in Others |-> e[k]] = [k \in Others |-> d[k]]
  BY <1>4
<1>6. ReadDisplay(w) = [bright |-> b, sleep |-> s, auto |-> (b = 0),
                        others |-> ReadDisplay(t).others]
  BY <1>2, <1>3, <1>4, <1>5
<1>. QED  BY <1>6 DEF w

\* Three fields of a display change.
SetLevels(D, b, s, a) == [D EXCEPT !.bright = b, !.sleep = s, !.auto = a]

LEMMA LevelsSet ==
  ASSUME NEW D, D = [bright |-> D.bright, sleep |-> D.sleep, auto |-> D.auto, others |-> D.others],
         NEW b, NEW s, NEW a
  PROVE  SetLevels(D, b, s, a) =
           [bright |-> b, sleep |-> s, auto |-> a, others |-> D.others]
<1> DEFINE X == [D EXCEPT !.bright = b]
           Y == [X EXCEPT !.sleep = s]
           Z == [Y EXCEPT !.auto = a]
<1>1. X = [bright |-> b, sleep |-> D.sleep, auto |-> D.auto, others |-> D.others]
  OBVIOUS
<1>2. /\ X = [bright |-> X.bright, sleep |-> X.sleep, auto |-> X.auto, others |-> X.others]
      /\ X.bright = b /\ X.others = D.others
  <2>. HIDE DEF X
  <2>. QED  BY <1>1
<1>3. Y = [bright |-> X.bright, sleep |-> s, auto |-> X.auto, others |-> X.others]
  <2>. HIDE DEF X
  <2>. QED  BY <1>2
<1>4. /\ Y = [bright |-> Y.bright, sleep |-> Y.sleep, auto |-> Y.auto, others |-> Y.others]
      /\ Y.bright = b /\ Y.sleep = s /\ Y.others = D.others
  <2>. HIDE DEF Y, X
  <2>. QED  BY <1>2, <1>3
<1>5. Z = [bright |-> Y.bright, sleep |-> Y.sleep, auto |-> a, others |-> Y.others]
  <2>. HIDE DEF Y
  <2>. QED  BY <1>4
<1>6. Z = [bright |-> b, sleep |-> s, auto |-> a, others |-> D.others]
  <2>. HIDE DEF Z, Y
  <2>. QED  BY <1>4, <1>5
<1>7. Z = SetLevels(D, b, s, a)
  BY DEF SetLevels
<1>. HIDE DEF Z
<1>. QED  BY <1>6, <1>7

\* What the daemon writes back is read back, and nothing else in the file reads
\* differently: the configuration of the rewritten text is the configuration of
\* the text with the levels applied to it in memory.
THEOREM RoundTrip ==
  ASSUME NEW t, Sound(t), NEW b \in 0 .. 6, NEW s \in 0 .. 6, NEW host
  PROVE  Load(WriteLevels(t, b, s), host) = ApplyLevels(Load(t, host), b, s)
<1> DEFINE w == WriteLevels(t, b, s)
<1>1. \A sec : sec \notin DisplayNames => /\ SameSection(t, w, sec)
                                           /\ HasSection(t, sec) = HasSection(w, sec)
                                           /\ Keys(t, sec) = Keys(w, sec)
                                           /\ \A k \in Keys(t, sec) : Get(t, sec, k) = Get(w, sec, k)
  BY OthersStay, SameValues DEF Sound
<1>2. \A sec, rules : sec \notin DisplayNames => Read(t, sec, rules) = Read(w, sec, rules)
  BY <1>1, SameRead DEF Sound
<1>3. /\ "behavior" \notin DisplayNames /\ "globals" \notin DisplayNames
      /\ "header" \notin DisplayNames /\ "hero" \notin DisplayNames
      /\ "secondary" \notin DisplayNames /\ "interfaces" \notin DisplayNames
      /\ "services" \notin DisplayNames /\ "alerts" \notin DisplayNames
  BY DEF DisplayNames
<1>4. ReadDisplay(w) = [bright |-> b, sleep |-> s, auto |-> (b = 0), others |-> ReadDisplay(t).others]
  BY DisplayRoundTrip
<1>. HIDE DEF w
<1>5. ReadInterfaces(w) = ReadInterfaces(t)
  BY <1>1, <1>3 DEF ReadInterfaces
<1>6. ReadHero(w) = ReadHero(t)
  BY <1>2, <1>3 DEF ReadHero
<1>7. ReadAlerts(w) = ReadAlerts(t)
  BY <1>2, <1>3 DEF ReadAlerts
<1>8. Load(t, host).display = ReadDisplay(t)
  BY DEF Load
<1>9. Load(w, host) = [Load(t, host) EXCEPT !.display = ReadDisplay(w)]
  BY <1>1, <1>2, <1>3, <1>5, <1>6, <1>7 DEF Load
<1>10. ApplyLevels(Load(t, host), b, s) = [Load(t, host) EXCEPT !.display = ReadDisplay(w)]
  <2> DEFINE L == Load(t, host)
             D == ReadDisplay(t)
             auto == (b = 0)
             E == [bright |-> b, sleep |-> s, auto |-> auto, others |-> D.others]
  <2>1. "display" \in DOMAIN L /\ L = [k \in DOMAIN L |-> L[k]]
    BY DEF Load
  <2>2. D = [bright |-> D.bright, sleep |-> D.sleep, auto |-> D.auto, others |-> D.others]
    BY DEF ReadDisplay
  <2>3. L["display"] = D
    BY <1>8
  <2>4. ReadDisplay(w) = E
    BY <1>4
  <2>. HIDE DEF L, D, auto
  <2>5. SetLevels(D, b, s, auto) = E
    BY <2>2, LevelsSet
  <2>. HIDE DEF E
  <2>6. [L EXCEPT !.display = SetLevels(D, b, s, auto)] =
          [L EXCEPT !.display = E]
    BY <2>5
  <2>7. ApplyLevels(L, b, s) =
          [L EXCEPT !.display = SetLevels(D, b, s, auto)]
    BY <2>1, <2>3 DEF ApplyLevels, SetLevels, auto
  <2>. QED  BY <2>4, <2>6, <2>7 DEF L
<1>. QED  BY <1>9, <1>10 DEF w

-----------------------------------------------------------------------------
(* The file and the configuration in memory                                *)

Writing == {"temp", "rename", "truncate", "fill"}

\* A configuration in memory is that of some text: its levels are numbers.
Loaded(c) == \E t : Sound(t) /\ c = Load(t, Host)

\* The write in progress.
WriteOK ==
  IF step \in Writing
  THEN \E t : /\ Sound(t) /\ orig = <<t>>
              /\ \E b, s \in 0 .. 6 : new = <<WriteLevels(t, b, s)>>
              /\ ~behind => cfg = Load(new[1], Host)
  ELSE orig = <<>> /\ new = <<>>

CfgInv ==
  /\ file = NoFile \/ \E t : file = <<t>>
  /\ Sound(TextOf(file)) /\ Loaded(cfg)
  /\ step \in {"down", "idle", "stat"} \union Writing
  /\ WriteOK
  /\ step = "rename" => temp = new
  /\ step \in {"truncate", "fill"} => inPlace
  /\ (step = "idle" /\ seen) \/ step = "stat" => (~behind => cfg = LoadFile(file))

\* A file that is empty, or not there, is such a text.
LEMMA EmptySound == Sound(<<>>)
BY DEF Sound, IsText, OneName, HasSection, Blocks

\* A file is not there, or has a text.
LEMMA TextOfFile == TextOf(NoFile) = <<>> /\ \A t : <<t>> # NoFile /\ TextOf(<<t>>) = t
BY DEF TextOf, NoFile

\* A file that is not there loads like an empty one.
LEMMA LoadsText == \A f : LoadFile(f) = Load(TextOf(f), Host)
BY DEF LoadFile, TextOf, Defaults

\* The levels in memory are numbers.
LEMMA LoadedLevels ==
  ASSUME NEW c, Loaded(c)
  PROVE  c.display.bright \in Nat /\ c.display.sleep \in Nat
<1>1. PICK t : Sound(t) /\ c = Load(t, Host)
  BY DEF Loaded
<1> DEFINE ds == DisplaySection(t)
           Never == {"", "never"}
<1>2. /\ Display["bright"] = Num("brightness", "default_brightness", 4, U8, {"auto"}, 0, 100)
      /\ Display["sleep"] = Num("sleep_timeout", "sleep_timeout_sec", 4, U16, Never, 0, U16)
      /\ "bright" \in DOMAIN Display /\ "sleep" \in DOMAIN Display
  BY DEF Display
<1>3. U8 \in Nat /\ U16 \in Nat
  BY DEF U8, U16
<1>. HIDE DEF ds, Never
<1>4. \A key, alias, type, zero, v : \A high \in Nat :
        Convert(Num(key, alias, 4, type, zero, 0, high), v) \in Nat
  <2> TAKE key, alias, type, zero, v
  <2> TAKE high \in Nat
  <2>1. Convert(Num(key, alias, 4, type, zero, 0, high), v) =
          IF v.num = -1 /\ v.word \in zero THEN 0
          ELSE IF v.num \in 0 .. type THEN Clamp(v.num, 0, high) ELSE 4
    BY DEF Convert, Num
  <2>2. v.num \in 0 .. type => Clamp(v.num, 0, high) \in Nat
    BY DEF Clamp
  <2>. QED  BY <2>1, <2>2
<1>5. \A key, alias, type, zero : \A high \in Nat :
        LET rule == Num(key, alias, 4, type, zero, 0, high)
        IN  Setting(t, ds, rule) \in Nat /\ rule.default = 4
  <2>1. \A key, alias, type, zero, high :
          LET rule == Num(key, alias, 4, type, zero, 0, high) IN rule.default = 4 /\ rule.absent = 4
    BY DEF Num
  <2>. QED  BY <1>4, <2>1 DEF Setting
<1>6. Read(t, ds, Display)["bright"] \in Nat /\ Read(t, ds, Display)["sleep"] \in Nat
  <2>1. \A k \in DOMAIN Display : Read(t, ds, Display)[k] \in {Setting(t, ds, Display[k]), Display[k].default}
    BY DEF Read
  <2>2. Setting(t, ds, Display["bright"]) \in Nat /\ Display["bright"].default = 4
    BY <1>2, <1>5
  <2>3. Setting(t, ds, Display["sleep"]) \in Nat /\ Display["sleep"].default = 4
    BY <1>2, <1>3, <1>5
  <2>. QED  BY <1>2, <2>1, <2>2, <2>3
<1>7. c.display = ReadDisplay(t)
  BY <1>1 DEF Load
<1>. QED  BY <1>6, <1>7 DEF ReadDisplay, ds

\* Whatever comes in, the levels written are the levels of the panel.
LEMMA Capped == \A n \in Nat : AtMost6(n) \in 0 .. 6
BY DEF AtMost6

\* The user's texts have one name for the display section.
LEMMA EditsSound == \A t \in Files \union Edits \union {<<>>} : Sound(t)
BY ConfigFileAssumption, EmptySound DEF Sound

\* A level of the panel, written: memory and text keep meaning the same.
LEMMA LevelWritten ==
  ASSUME NEW t, Sound(t), NEW b \in 0 .. 6, NEW s \in 0 .. 6
  PROVE  /\ Sound(WriteLevels(t, b, s))
         /\ Load(WriteLevels(t, b, s), Host) = ApplyLevels(Load(t, Host), b, s)
BY WrittenSound, RoundTrip

\* At first nothing is loaded and nothing is written.
LEMMA CfgInvInit == CfgInit => CfgInv
<1> SUFFICES ASSUME CfgInit PROVE CfgInv
  OBVIOUS
<1>1. (file = NoFile \/ \E t : file = <<t>>) /\ Sound(TextOf(file))
  BY EditsSound, TextOfFile DEF CfgInit, File
<1>2. Loaded(cfg)
  BY EmptySound, TextOfFile DEF CfgInit, Loaded, Defaults, LoadFile
<1>. QED  BY <1>1, <1>2 DEF CfgInit, CfgInv, WriteOK, Writing

\* Every call keeps this: a level that is written was applied in memory.
LEMMA CfgInvNext == CfgInv /\ [CfgNext]_cfgVars => CfgInv'
<1> SUFFICES ASSUME CfgInv, [CfgNext]_cfgVars PROVE CfgInv'
  OBVIOUS
<1>1. Loaded(LoadFile(file)) /\ Loaded(Defaults)
  BY EmptySound, TextOfFile DEF CfgInv, Loaded, LoadFile, Defaults
<1>2. CASE Start \/ MaybeReload
  <2>1. step \in {"down", "idle"} /\ step' = "idle" /\ UNCHANGED <<file, temp, inPlace, orig, new>>
        /\ cfg' = LoadFile(file)
    BY <1>2 DEF Start, MaybeReload, TakeFile
  <2>2. LoadFile(file) = LoadFile(file')
    BY <2>1
  <2>. QED  BY <1>1, <2>1, <2>2 DEF CfgInv, WriteOK, Writing, Loaded, LoadFile, Defaults, TextOf
<1>3. ASSUME NEW b \in Nat, NEW s \in Nat, LevelEvent(b, s) PROVE CfgInv'
  <2> DEFINE t == TextOf(file)
             x == AtMost6(b)
             y == AtMost6(s)
  <2>1. x \in 0 .. 6 /\ y \in 0 .. 6
    BY Capped
  <2>2. /\ step = "idle" /\ step' \in {"truncate", "temp"} /\ (step' = "truncate" => inPlace)
        /\ cfg' = ApplyLevels(cfg, x, y) /\ orig' = <<t>> /\ new' = <<WriteLevels(t, x, y)>>
        /\ (~behind' => ~behind /\ seen) /\ UNCHANGED <<file, temp, inPlace, seen>>
    BY <1>3 DEF LevelEvent
  <2>3. PICK u : Sound(u) /\ cfg = Load(u, Host)
    BY DEF CfgInv, Loaded
  <2>4. cfg' = Load(WriteLevels(u, x, y), Host) /\ Sound(WriteLevels(u, x, y))
    BY <2>1, <2>2, <2>3, LevelWritten
  <2>5. Loaded(cfg')
    BY <2>4 DEF Loaded
  <2>6. Sound(t)
    BY DEF CfgInv
  <2>7. ~behind' => cfg' = Load(WriteLevels(t, x, y), Host)
    <3> SUFFICES ASSUME ~behind' PROVE cfg' = Load(WriteLevels(t, x, y), Host)
      OBVIOUS
    <3>1. cfg = Load(t, Host)
      BY <2>2, LoadsText DEF CfgInv
    <3>. QED  BY <2>1, <2>2, <2>6, <3>1, LevelWritten
  <2>. HIDE DEF t, x, y
  <2>8. new'[1] = WriteLevels(t, x, y)
    BY <2>2
  <2>9. WriteOK'
    BY <2>1, <2>2, <2>6, <2>7, <2>8 DEF WriteOK, Writing
  <2>10. (file = NoFile \/ \E v : file = <<v>>)' /\ Sound(TextOf(file))'
    BY <2>2 DEF CfgInv, TextOf
  <2>11. Loaded(cfg)'
    BY <2>5 DEF Loaded
  <2>. QED  BY <2>2, <2>9, <2>10, <2>11 DEF CfgInv, Writing
<1>4. CASE BrightEvent \/ SleepEvent
  <2>1. PICK b \in Nat, s \in Nat : LevelEvent(b, s)
    BY <1>4, LoadedLevels, ConfigFileAssumption DEF BrightEvent, SleepEvent, CfgInv
  <2>. QED  BY <1>3, <2>1
<1>5. CASE WriteTemp
  BY <1>5 DEF WriteTemp, CfgInv, WriteOK, Writing, TextOf, LoadFile, Defaults, Loaded
<1>6. CASE Truncate
  BY <1>6, TextOfFile, EmptySound DEF Truncate, File, CfgInv, WriteOK, Writing, LoadFile, Defaults, Loaded
<1>7. CASE Rename \/ Fill
  <2>1. step \in Writing /\ file' = new /\ step' = "stat" /\ orig' = <<>> /\ new' = <<>>
        /\ UNCHANGED <<cfg, behind, inPlace>>
    BY <1>7 DEF Rename, Fill, CfgInv, Writing
  <2>2. PICK t : /\ Sound(t) /\ orig = <<t>>
                 /\ \E b, s \in 0 .. 6 : new = <<WriteLevels(t, b, s)>>
                 /\ ~behind => cfg = Load(new[1], Host)
    BY <2>1 DEF CfgInv, WriteOK
  <2>3. PICK b \in 0 .. 6, s \in 0 .. 6 : new = <<WriteLevels(t, b, s)>>
    BY <2>2
  <2> DEFINE w == WriteLevels(t, b, s)
  <2>4. Sound(w)
    BY <2>2, LevelWritten
  <2>. HIDE DEF w
  <2>5. new = <<w>> /\ new[1] = w
    BY <2>3 DEF w
  <2>6. file' = <<w>> /\ TextOf(file') = w
    BY <2>1, <2>5, TextOfFile
  <2>7. ~behind' => cfg' = LoadFile(file')
    BY <2>1, <2>2, <2>5, <2>6, LoadsText
  <2>8. TextOf(file)' = TextOf(file') /\ LoadFile(file)' = LoadFile(file') /\ Loaded(cfg)' = Loaded(cfg)
    BY <2>1 DEF TextOf, LoadFile, Defaults, Loaded
  <2>. QED  BY <2>1, <2>4, <2>6, <2>7, <2>8 DEF CfgInv, WriteOK, Writing
<1>8. CASE Stat
  BY <1>8 DEF Stat, CfgInv, WriteOK, Writing, TextOf, LoadFile, Defaults, Loaded
<1>9. CASE WriteFails
  BY <1>9 DEF WriteFails, CfgInv, WriteOK, Writing, TextOf, LoadFile, Defaults, Loaded
<1>10. CASE Crash
  BY <1>1, <1>10 DEF Crash, CfgInv, WriteOK, Writing, TextOf, LoadFile, Defaults, Loaded
<1>11. CASE Edit
  <2>1. (file' = NoFile \/ \E t : file' = <<t>>) /\ Sound(TextOf(file'))
    BY <1>11, EditsSound, TextOfFile DEF Edit, File
  <2>. QED  BY <1>11, <2>1 DEF Edit, CfgInv, WriteOK, Writing, TextOf, LoadFile, Defaults, Loaded
<1>12. CASE UNCHANGED cfgVars
  BY <1>12 DEF cfgVars, CfgInv, WriteOK, Writing, TextOf, LoadFile, Defaults, Loaded
<1>. QED  BY <1>2, <1>4, <1>5, <1>6, <1>7, <1>8, <1>9, <1>10, <1>11, <1>12 DEF CfgNext

\* So it always holds.
LEMMA CfgInvTheorem == CfgSpec => []CfgInv
BY CfgInvInit, CfgInvNext, PTL DEF CfgSpec

\* As long as the mtime recorded is the file's, memory says what the file says,
\* for any files, edits and levels and any number of them, unless a write failed
\* or an edit slipped in since the last load.
THEOREM MemoryTheorem == CfgSpec => []MemoryFollowsFile
<1>1. CfgInv => MemoryFollowsFile
  BY DEF CfgInv, MemoryFollowsFile
<1>. QED  BY <1>1, CfgInvTheorem, PTL

-----------------------------------------------------------------------------
(* The types                                                               *)

\* What the invariant leaves to the types: the temporary file and the flags.
Kept ==
  /\ temp = NoFile \/ \E t : IsText(t) /\ temp = <<t>>
  /\ inPlace \in InPlace /\ seen \in BOOLEAN /\ behind \in BOOLEAN

\* A file that is being written has a text, like the one on disk.
LEMMA TypesFollow == CfgInv /\ Kept => CfgTypeOK
<1> SUFFICES ASSUME CfgInv, Kept PROVE CfgTypeOK
  OBVIOUS
<1>1. IsText(TextOf(file)) /\ IsText(TextOf(NoFile))
  BY EmptySound, TextOfFile DEF CfgInv, Sound
<1>2. \A f : (f = NoFile \/ \E t : IsText(t) /\ f = <<t>>) => IsText(TextOf(f))
  BY <1>1, TextOfFile
<1>3. IsText(TextOf(orig)) /\ IsText(TextOf(new))
  <2>1. CASE step \in Writing
    <3>1. PICK t : Sound(t) /\ orig = <<t>> /\ \E b, s \in 0 .. 6 : new = <<WriteLevels(t, b, s)>>
      BY <2>1 DEF CfgInv, WriteOK
    <3>2. PICK b \in 0 .. 6, s \in 0 .. 6 : new = <<WriteLevels(t, b, s)>>
      BY <3>1
    <3>3. IsText(t) /\ IsText(WriteLevels(t, b, s))
      BY <3>1, LevelWritten DEF Sound
    <3>. QED  BY <1>2, <3>1, <3>2, <3>3
  <2>2. CASE step \notin Writing
    BY <1>1, <2>2 DEF CfgInv, WriteOK, NoFile
  <2>. QED  BY <2>1, <2>2
<1>4. IsText(TextOf(temp))
  BY <1>2 DEF Kept
<1>5. \A held \in {orig, new} : held # <<>> <=> step \in Writing
  BY DEF CfgInv, WriteOK
<1>. QED  BY <1>1, <1>3, <1>4, <1>5 DEF CfgTypeOK, CfgInv, Kept, Writing

\* Only a new text becomes a temporary file.
LEMMA KeptNext == CfgInv /\ Kept /\ [CfgNext]_cfgVars => Kept'
<1> SUFFICES ASSUME CfgInv, Kept, [CfgNext]_cfgVars PROVE Kept'
  OBVIOUS
<1>1. inPlace' \in InPlace /\ seen' \in BOOLEAN /\ behind' \in BOOLEAN
  BY DEF Kept, CfgNext, Start, MaybeReload, TakeFile, BrightEvent, SleepEvent, LevelEvent,
         WriteTemp, Rename, Truncate, Fill, Stat, WriteFails, Crash, Edit, cfgVars
<1>2. CASE WriteTemp
  <2>1. temp' = new /\ step \in Writing
    BY <1>2 DEF WriteTemp, Writing
  <2>2. PICK t : Sound(t) /\ \E b, s \in 0 .. 6 : new = <<WriteLevels(t, b, s)>>
    BY <2>1 DEF CfgInv, WriteOK
  <2>3. PICK b \in 0 .. 6, s \in 0 .. 6 : new = <<WriteLevels(t, b, s)>>
    BY <2>2
  <2>4. IsText(WriteLevels(t, b, s))
    BY <2>2, LevelWritten DEF Sound
  <2>. QED  BY <1>1, <2>1, <2>3, <2>4 DEF Kept
<1>3. CASE temp' \in {temp, NoFile}
  BY <1>1, <1>3 DEF Kept
<1>4. WriteTemp \/ temp' \in {temp, NoFile}
  BY DEF CfgNext, Start, MaybeReload, TakeFile, BrightEvent, SleepEvent, LevelEvent,
         WriteTemp, Rename, Truncate, Fill, Stat, WriteFails, Crash, Edit, cfgVars
<1>. QED  BY <1>2, <1>3, <1>4

\* Files, texts under way and flags keep their types.
THEOREM CfgTypeTheorem == CfgSpec => []CfgTypeOK
<1>1. CfgInit => Kept
  BY DEF CfgInit, Kept
<1>. QED  BY <1>1, KeptNext, TypesFollow, CfgInvTheorem, PTL DEF CfgSpec

-----------------------------------------------------------------------------
(* The file implements the store                                           *)

\* No write is in progress at first.
LEMMA StoreInit == CfgInit => TextStore!Init /\ SettingsStore!Init
BY DEF CfgInit, TextStore!Init, SettingsStore!Init, TextStore!Idle, SettingsStore!Idle

\* Every call of the daemon, and every fault, is a step of the store or none.
LEMMA StoreStep ==
  CfgInv /\ [CfgNext]_cfgVars =>
    [TextStore!Next]_(TextStore!vars) /\ [SettingsStore!Next]_(SettingsStore!vars)
<1> SUFFICES ASSUME CfgInv, [CfgNext]_cfgVars
             PROVE  [TextStore!Next]_(TextStore!vars) /\ [SettingsStore!Next]_(SettingsStore!vars)
  OBVIOUS
<1>1. CASE UNCHANGED <<file, orig, inPlace>>
  BY <1>1 DEF TextStore!vars, SettingsStore!vars, TextOf, LoadFile, Defaults
<1>2. CASE BrightEvent \/ SleepEvent
  <2>1. orig = <<>> /\ orig' = <<TextOf(file)>> /\ UNCHANGED <<file, inPlace>>
    BY <1>2 DEF BrightEvent, SleepEvent, LevelEvent, CfgInv, WriteOK, Writing
  <2>2. TextStore!Begin
    BY <2>1 DEF TextStore!Begin, TextStore!Idle, TextOf
  <2>3. SettingsStore!Begin
    BY <2>1 DEF SettingsStore!Begin, SettingsStore!Idle, TextOf, LoadFile, Defaults
  <2>. QED  BY <2>2, <2>3 DEF TextStore!Next, SettingsStore!Next
<1>3. CASE Rename \/ Fill
  <2>1. step \in Writing /\ file' = new /\ orig' = <<>> /\ UNCHANGED inPlace
    BY <1>3 DEF Rename, Fill, CfgInv, Writing
  <2>2. PICK t : Sound(t) /\ orig = <<t>> /\ \E b, s \in 0 .. 6 : new = <<WriteLevels(t, b, s)>>
    BY <2>1 DEF CfgInv, WriteOK
  <2>3. PICK b \in 0 .. 6, s \in 0 .. 6 : new = <<WriteLevels(t, b, s)>>
    BY <2>2
  <2> DEFINE w == WriteLevels(t, b, s)
  <2>4. TextOf(file)' = w
    BY <2>1, <2>3, TextOfFile DEF TextOf
  <2>5. LoadFile(file)' = ApplyLevels(Load(t, Host), b, s)
    <3>1. LoadFile(file)' = Load(w, Host)
      BY <2>4 DEF LoadFile, Defaults, TextOf
    <3>. QED  BY <2>2, <3>1, LevelWritten
  <2>6. orig # <<>> /\ orig[1] = t
    BY <2>2
  <2>7. TextStore!Commit
    BY <2>1, <2>4, <2>6 DEF TextStore!Commit, TextStore!Idle
  <2>8. SettingsStore!Commit
    BY <2>1, <2>5, <2>6 DEF SettingsStore!Commit, SettingsStore!Idle
  <2>. QED  BY <2>7, <2>8 DEF TextStore!Next, SettingsStore!Next
<1>4. CASE Truncate
  <2>1. inPlace /\ orig # <<>> /\ TextOf(file)' = <<>> /\ LoadFile(file)' = Defaults
        /\ UNCHANGED <<orig, inPlace>>
    BY <1>4, TextOfFile DEF Truncate, File, CfgInv, WriteOK, Writing, TextOf, LoadFile, Defaults
  <2>2. TextStore!Lose
    BY <2>1 DEF TextStore!Lose, TextStore!Idle
  <2>3. SettingsStore!Lose
    BY <2>1 DEF SettingsStore!Lose, SettingsStore!Idle
  <2>. QED  BY <2>2, <2>3 DEF TextStore!Next, SettingsStore!Next
<1>5. CASE WriteFails \/ Crash
  <2>1. orig' = <<>> /\ UNCHANGED <<file, inPlace>>
    BY <1>5 DEF WriteFails, Crash
  <2>2. TextStore!Abandon /\ SettingsStore!Abandon
    BY <2>1 DEF TextStore!Abandon, TextStore!Idle, SettingsStore!Abandon, SettingsStore!Idle,
                TextOf, LoadFile, Defaults
  <2>. QED  BY <2>2 DEF TextStore!Next, SettingsStore!Next
<1>6. CASE Edit
  <2>1. PICK t \in Edits \union {<<>>} : TextOf(file)' = t /\ LoadFile(file)' = Load(t, Host)
    BY <1>6, TextOfFile DEF Edit, File, TextOf, LoadFile, Defaults
  <2>2. UNCHANGED <<orig, inPlace>>
    BY <1>6 DEF Edit
  <2>3. TextStore!Edit
    BY <2>1, <2>2 DEF TextStore!Edit
  <2>4. SettingsStore!Edit
    BY <2>1, <2>2 DEF SettingsStore!Edit, EditedSettings
  <2>. QED  BY <2>3, <2>4 DEF TextStore!Next, SettingsStore!Next
<1>7. Start \/ MaybeReload \/ WriteTemp \/ Stat \/ UNCHANGED cfgVars =>
        UNCHANGED <<file, orig, inPlace>>
  BY DEF Start, MaybeReload, TakeFile, WriteTemp, Stat, cfgVars
<1>. QED  BY <1>1, <1>2, <1>3, <1>4, <1>5, <1>6, <1>7 DEF CfgNext

\* A crash, or a call that fails, at any point of a write leaves the old text or
\* the new one, and a level written back changes the levels and no other setting;
\* only a file that has to be overwritten in place can be lost.
THEOREM StoreTheorem == CfgSpec => ImplementsStore
<1>1. CfgSpec => TextStore!Spec /\ SettingsStore!Spec
  BY StoreInit, StoreStep, CfgInvTheorem, PTL DEF CfgSpec, TextStore!Spec, SettingsStore!Spec
<1>. QED  BY <1>1 DEF ImplementsStore
=============================================================================
