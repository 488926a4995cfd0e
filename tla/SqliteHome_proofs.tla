------------------------- MODULE SqliteHome_proofs --------------------------
(***************************************************************************)
(* What holds of newHome for every machine, sign-in, cache and bundle: its  *)
(* gate on the cloud bundle is the one Codex applies, its readers answer    *)
(* only of whole property lists, its choice among the sources is that of a  *)
(* start of Codex, and so the home it opens is one Codex may use while      *)
(* Codex and its user change the files beside it.                           *)
(***************************************************************************)
EXTENDS SqliteHome, WellFoundedInduction, TLAPS

-----------------------------------------------------------------------------
(***************************************************************************)
(* The reader of binary property lists (ManagedPlist) stays inside its      *)
(* file, for every content of the file and every size of machine word and   *)
(* integer.                                                                 *)
(***************************************************************************)

(* Products of natural numbers grow with each factor.                       *)
LEMMA ProductMonotone ==
    ASSUME NEW a \in Nat, NEW b \in Nat, NEW c \in Nat, a <= b
    PROVE  a * c <= b * c /\ c * a <= c * b /\ a * c \in Nat
  <1>1. PICK d \in Nat : b = a + d
    BY b - a \in Nat, b = a + (b - a)
  <1>2. b * c = a * c + d * c /\ c * b = c * a + c * d
    BY <1>1
  <1>3. a * c \in Nat /\ d * c \in Nat /\ c * a \in Nat /\ c * d \in Nat
    BY <1>1
  <1> QED
    BY <1>2, <1>3

(* A count that passed the quotient test covers no more than there is.      *)
LEMMA QuotientBounds ==
    ASSUME NEW a \in Nat, NEW b \in Nat, NEW w \in Nat \ {0}, a <= b \div w
    PROVE  a * w <= b
  <1>1. (b \div w) \in Nat /\ (b \div w) * w <= b
    BY SMTT(30)
  <1>2. a * w <= (b \div w) * w
    BY <1>1, ProductMonotone
  <1>3. a * w \in Nat /\ (b \div w) * w \in Nat
    BY <1>1
  <1> QED
    BY <1>1, <1>2, <1>3

(* A number below the word is itself.                                       *)
LEMMA BelowWord ==
    ASSUME NEW n \in Nat, n < Word
    PROVE  n % Word = n
  BY PlistAssumption

(* A number up to the file's end is below the word.                         *)
LEMMA InsideBelowWord ==
    ASSUME NEW p, IsBinary(p), FitsTheWord(p), NEW n \in Nat, n <= p.objectsEnd
    PROVE  n < Word /\ n % Word = n
  <1> DEFINE E == p.objectsEnd
  <1>1. E \in Nat /\ MaxIntSize \in Nat \ {0} /\ Word \in Nat \ {0}
    BY PlistAssumption DEF IsBinary
  <1> HIDE DEF E
  <1>2. 1 * E <= MaxIntSize * E /\ 1 * E = E /\ MaxIntSize * E \in Nat
    BY <1>1, ProductMonotone
  <1>3. MaxIntSize * E < Word /\ n <= E
    BY DEF FitsTheWord, E
  <1>4. n < Word
    BY <1>1, <1>2, <1>3
  <1> QED
    BY <1>4, BelowWord

(* What passed the range test is a range of the object area, computed       *)
(* without wrapping (binaryPlist.slice).                                    *)
LEMMA SlicesStayInside ==
    ASSUME NEW p, IsBinary(p), FitsTheWord(p),
           NEW start \in Nat, NEW count \in Nat, NEW width \in Nat \ {0},
           SliceOk(p, start, count, width)
    PROVE  /\ SliceEnd(start, count, width) = start + count * width
           /\ start + count * width <= p.objectsEnd
  <1> DEFINE E == p.objectsEnd
             len == count * width
  <1>1. E \in Nat /\ start <= E /\ count <= (E - start) \div width
    BY DEF IsBinary, SliceOk
  <1>2. E - start \in Nat
    BY <1>1
  <1>3. len <= E - start
    BY <1>1, <1>2, QuotientBounds
  <1>4. len \in Nat
    BY ProductMonotone
  <1>5. len <= E /\ start + len \in Nat /\ start + len <= E
    BY <1>1, <1>3, <1>4
  <1>6. len % Word = len /\ (start + len) % Word = start + len
    BY <1>4, <1>5, InsideBelowWord
  <1> QED
    BY <1>5, <1>6 DEF SliceEnd, Plus, Times

(* Every entry of the offset table lies before the trailer.                 *)
LEMMA EntriesStayInside ==
    ASSUME NEW p, IsBinary(p), FitsTheWord(p), TrailerOk(p),
           NEW ref \in 0..(p.numObjects - 1)
    PROVE  /\ Plus(EntryAt(p, ref), p.offsetSize) = EntryAt(p, ref) + p.offsetSize
           /\ EntryAt(p, ref) + p.offsetSize <= p.objectsEnd
  <1> DEFINE E == p.objectsEnd
             T == p.offsetTable
             n == p.numObjects
             s == p.offsetSize
  <1>1. /\ E \in Nat /\ T \in Nat /\ n \in Nat /\ s \in Nat
        /\ s <= MaxIntSize /\ n <= E /\ T <= E /\ ref + 1 <= n /\ ref \in Nat
    BY PlistAssumption DEF IsBinary, TrailerOk
  <1>2. n * s <= E * s /\ E * s <= E * MaxIntSize /\ n * s \in Nat /\ E * s \in Nat
    BY <1>1, ProductMonotone, PlistAssumption
  <1>3. E * MaxIntSize = MaxIntSize * E /\ MaxIntSize * E \in Nat /\ E * MaxIntSize < Word
    BY <1>1, PlistAssumption DEF FitsTheWord
  <1>4. (n * s) % Word = n * s
    BY <1>1, <1>2, <1>3, BelowWord, PlistAssumption
  <1>5. n * s <= E - T
    BY <1>4 DEF TrailerOk, Times
  <1>6. (ref + 1) * s <= n * s /\ (ref + 1) * s = ref * s + s /\ ref * s \in Nat
    BY <1>1, ProductMonotone
  <1> DEFINE x == ref * s
             y == n * s
  <1>7. x \in Nat /\ y \in Nat /\ x + s <= y /\ y <= E - T
    BY <1>2, <1>5, <1>6
  <1> HIDE DEF x, y
  <1>8. x <= E /\ T + x <= E /\ T + x + s <= E
    BY <1>1, <1>7
  <1>9. x % Word = x /\ (T + x) % Word = T + x /\ (T + x + s) % Word = T + x + s
    BY <1>1, <1>7, <1>8, InsideBelowWord
  <1>10. EntryAt(p, ref) = T + x
    BY <1>9 DEF EntryAt, Plus, Times, x
  <1> QED
    BY <1>8, <1>9, <1>10 DEF Plus

(* The body of a sound object starts inside the object area.                *)
LEMMA BodiesStartInside ==
    ASSUME NEW p, IsBinary(p), FitsTheWord(p), NEW r \in 0..(p.numObjects - 1),
           ObjectOk(p, r)
    PROVE  BodyOf(p.objects[r]) \in Nat
  <1> DEFINE o == p.objects[r]
  <1>1. o.offset \in Nat /\ o.wide \in Nat /\ Word \in Nat \ {0}
    BY PlistAssumption DEF IsBinary
  <1> QED
    BY <1>1 DEF BodyOf, Plus

(* No read of the binary format leaves the file or is computed with a sum   *)
(* or product that wraps (requirements.go:1398, object and slice).          *)
THEOREM BinaryReadsStayInFile ==
    ASSUME NEW p, IsBinary(p), FitsTheWord(p), NEW range \in IndexedRanges(p)
    PROVE  range[1] + range[3] = range[2] /\ range[2] <= p.objectsEnd
  <1>1. TrailerOk(p) /\ range \in EntryRanges(p) \cup BodyRanges(p)
    BY DEF IndexedRanges
  <1>2. CASE range \in EntryRanges(p)
    <2>1. PICK ref \in 0..(p.numObjects - 1) :
             range = <<EntryAt(p, ref), Plus(EntryAt(p, ref), p.offsetSize), p.offsetSize>>
      BY <1>2 DEF EntryRanges, Range
    <2> QED
      BY <1>1, <2>1, EntriesStayInside
  <1>3. CASE range \in BodyRanges(p)
    <2>1. PICK r \in 0..(p.numObjects - 1) :
             /\ ObjectOk(p, r) /\ BodyOk(p, p.objects[r])
             /\ range = <<BodyOf(p.objects[r]),
                          SliceEnd(BodyOf(p.objects[r]), p.objects[r].count,
                                   ElementWidth(p, p.objects[r])),
                          p.objects[r].count * ElementWidth(p, p.objects[r])>>
      BY <1>3 DEF BodyRanges, Range
    <2> DEFINE o == p.objects[r]
               w == ElementWidth(p, o)
    <2>2. w \in Nat \ {0}
      BY <1>1, PlistAssumption DEF ElementWidth, TrailerOk
    <2>3. BodyOf(o) \in Nat /\ o.count \in Nat
      BY <2>1, BodiesStartInside DEF IsBinary
    <2>4. SliceOk(p, BodyOf(o), o.count, w)
      BY <2>1 DEF BodyOk
    <2>5. /\ SliceEnd(BodyOf(o), o.count, w) = BodyOf(o) + o.count * w
          /\ BodyOf(o) + o.count * w <= p.objectsEnd
      BY <2>2, <2>3, <2>4, SlicesStayInside
    <2> QED
      BY <2>1, <2>5
  <1> QED
    BY <1>1, <1>2, <1>3
-----------------------------------------------------------------------------
(* A set of natural numbers has a least one, which is all the induction that *)
(* walks over a document need.                                               *)
LEMMA LeastNatural ==
    ASSUME NEW T, T \subseteq Nat, T # {}
    PROVE  \E x \in T : \A y \in T : x <= y
  <1> DEFINE R == OpToRel(<, Nat)
  <1>1. \A i, j \in Nat : <<i, j>> \in R <=> i < j
    BY DEF OpToRel
  <1>2. IsWellFoundedOn(R, Nat)
    BY NatLessThanWellFounded
  <1> HIDE DEF R
  <1>3. PICK x \in T : \A y \in T : ~ (<<y, x>> \in R)
    BY <1>2, WFMin
  <1>4. \A y \in T : ~(y < x)
    BY <1>1, <1>3
  <1>5. \A y \in T : x \in Nat /\ y \in Nat
    OBVIOUS
  <1> QED
    BY <1>4, <1>5

(* So the least element of such a set is what Least picks.                  *)
LEMMA LeastIs ==
    ASSUME NEW T, T \subseteq Nat, T # {}
    PROVE  Least(T) \in T /\ \A y \in T : Least(T) <= y
  <1>1. \E x \in T : \A y \in T : x <= y
    BY LeastNatural
  <1> QED
    BY <1>1 DEF Least

(* A set that has 0 and every successor of a member has all numbers.        *)
LEMMA Induction ==
    ASSUME NEW S, 0 \in S, \A n \in Nat : n \in S => n + 1 \in S
    PROVE  Nat \subseteq S
  <1> SUFFICES ASSUME ~(Nat \subseteq S) PROVE FALSE
    OBVIOUS
  <1> DEFINE T == Nat \ S
  <1>1. T \subseteq Nat /\ T # {}
    OBVIOUS
  <1>2. PICK x \in T : \A y \in T : x <= y
    <2> HIDE DEF T
    <2> QED
      BY <1>1, LeastNatural
  <1>3. x - 1 \in Nat /\ x - 1 \notin T
    BY <1>2
  <1> QED
    BY <1>3

(* The next element is at or after the position, nothing before it counts,   *)
(* and it is no text and not broken.                                         *)
LEMMA NextElement ==
    ASSUME NEW doc, Len(doc) \in Nat, NEW from \in Nat \ {0},
           NEW at, at = NextElementOrEnd(doc, from), at # 0
    PROVE  /\ at \in from..Len(doc)
           /\ \A i \in from..(at - 1) : IsSkipped(doc[i])
           /\ ~IsSkipped(doc[at])
           /\ Tag(doc[at]) \notin {"text", "broken"}
  <1> DEFINE stops == {i \in from..Len(doc) : ~IsSkipped(doc[i])}
  <1>1. stops # {} /\ at = Least(stops) /\ Tag(doc[Least(stops)]) \notin {"text", "broken"}
    BY DEF NextElementOrEnd
  <1>2. stops \subseteq Nat
    OBVIOUS
  <1>3. Least(stops) \in stops /\ \A y \in stops : Least(stops) <= y
    <2> HIDE DEF stops
    <2> QED
      BY <1>1, <1>2, LeastIs
  <1>4. \A i \in from..(at - 1) : i \in from..Len(doc) /\ ~(at <= i)
    BY <1>1, <1>3
  <1>5. \A i \in from..(at - 1) : IsSkipped(doc[i])
    BY <1>1, <1>3, <1>4
  <1> QED
    BY <1>1, <1>3, <1>5

(* What an entry answers depends only on the answers of later positions.    *)
LEMMA EntryLooksAhead ==
    ASSUME NEW doc, Len(doc) \in Nat, NEW key, NEW i \in 1..(Len(doc) + 1), NEW g, NEW h,
           \A j \in (i + 1)..(Len(doc) + 1) : g[j] = h[j]
    PROVE  EntryFrom(doc, key, g, i) = EntryFrom(doc, key, h, i)
  <1> DEFINE k == NextElementOrEnd(doc, i)
             v == NextElementOrEnd(doc, k + 1)
  <1>1. CASE k = 0
    BY <1>1 DEF EntryFrom
  <1>2. CASE k # 0
    <2>1. k \in i..Len(doc)
      <3> HIDE DEF k
      <3>1. k = NextElementOrEnd(doc, i) /\ i \in Nat \ {0}
        BY DEF k
      <3> QED
        BY <1>2, <3>1, NextElement
    <2>2. CASE v = 0
      <3> HIDE DEF k, v
      <3> QED
       BY <1>2, <2>2 DEF EntryFrom, k, v
    <2>3. CASE v # 0
      <3>1. v \in (k + 1)..Len(doc)
        <4>1. k + 1 \in Nat \ {0}
          BY <2>1
        <4> HIDE DEF k
        <4>2. v = NextElementOrEnd(doc, k + 1)
          OBVIOUS
        <4> HIDE DEF v
        <4> QED
          BY <2>3, <4>1, <4>2, NextElement
      <3>2. g[v + 1] = h[v + 1]
        <4> HIDE DEF k, v
        <4> QED
          BY <2>1, <3>1
      <3> QED
        BY <1>2, <2>3, <3>2 DEF EntryFrom
    <2> QED
      BY <2>2, <2>3
  <1> QED
    BY <1>1, <1>2

(* The walk over a dictionary is the function its equation describes.       *)
LEMMA DictWalk ==
    ASSUME NEW doc, Len(doc) \in Nat, NEW key
    PROVE  \E walk :
             /\ walk = [i \in 1..(Len(doc) + 1) |-> EntryFrom(doc, key, walk, i)]
             /\ \A from : DictString(doc, from, key) = walk[from]
  <1> DEFINE last == Len(doc) + 1
             Solves(g, n) == g = [i \in (last + 1 - n)..last |-> EntryFrom(doc, key, g, i)]
             S == {n \in Nat : n <= last => \E g : Solves(g, n)}
  <1>1. 0 \in S
    <2>1. Solves(<<>>, 0)
      BY last + 1 - 0 = last + 1, (last + 1)..last = {}
    <2> QED
      BY <2>1
  <1>2. ASSUME NEW n \in Nat, n \in S PROVE n + 1 \in S
    <2> SUFFICES ASSUME n + 1 <= last PROVE \E g : Solves(g, n + 1)
      OBVIOUS
    <2>1. PICK g : Solves(g, n)
      BY <1>2
    <2> DEFINE first == last - n
               h == [i \in first..last |-> IF i = first THEN EntryFrom(doc, key, g, i) ELSE g[i]]
    <2>2. first \in 1..last /\ last + 1 - n = first + 1 /\ last + 1 - (n + 1) = first
      OBVIOUS
    <2>3. g = [i \in (first + 1)..last |-> EntryFrom(doc, key, g, i)]
      BY <2>1, <2>2
    <2>4. h[first] = EntryFrom(doc, key, g, first) /\ \A i \in (first + 1)..last : h[i] = g[i]
      BY <2>2
    <2>5. \A i \in (first + 1)..last : g[i] = EntryFrom(doc, key, g, i)
      <3> HIDE DEF h, first, last
      <3> QED
        BY <2>3
    <2>6. \A i \in (first + 1)..last : h[i] = g[i] /\ g[i] = EntryFrom(doc, key, g, i)
      BY <2>4, <2>5
    <2>7. \A i \in first..last : EntryFrom(doc, key, g, i) = EntryFrom(doc, key, h, i)
      <3> TAKE i \in first..last
      <3>1. i \in 1..(Len(doc) + 1)
        BY <2>2
      <3>2. \A j \in (i + 1)..(Len(doc) + 1) : g[j] = h[j]
        BY <2>2, <2>6
      <3> HIDE DEF h, first, last
      <3> QED
        BY <3>1, <3>2, EntryLooksAhead
    <2>8. \A i \in first..last : h[i] = EntryFrom(doc, key, h, i)
      <3> TAKE i \in first..last
      <3>1. h[i] = EntryFrom(doc, key, g, i)
        <4>1. i = first \/ i \in (first + 1)..last
          BY <2>2
        <4> HIDE DEF h, first, last
        <4> QED
          BY <2>4, <2>6, <4>1
      <3> HIDE DEF h, first, last
      <3> QED
        BY <2>7, <3>1
    <2>9. h = [i \in first..last |-> h[i]]
      OBVIOUS
    <2>10. Solves(h, n + 1)
      <3> HIDE DEF h, first
      <3> QED
        BY <2>2, <2>8, <2>9
    <2> QED
      BY <2>10
  <1>3. last \in S
    <2> HIDE DEF S
    <2>1. Nat \subseteq S
      BY <1>1, <1>2, Induction
    <2> QED
      BY <2>1
  <1>4. PICK f : f = [i \in 1..(Len(doc) + 1) |-> EntryFrom(doc, key, f, i)]
    BY <1>3, last + 1 - last = 1
  <1> DEFINE walk == CHOOSE w : w = [i \in 1..(Len(doc) + 1) |-> EntryFrom(doc, key, w, i)]
  <1>5. walk = [i \in 1..(Len(doc) + 1) |-> EntryFrom(doc, key, walk, i)]
    BY <1>4
  <1>6. \A from : DictString(doc, from, key) = walk[from]
    BY DEF DictString
  <1> HIDE DEF walk
  <1> QED
    BY <1>5, <1>6

-----------------------------------------------------------------------------
(***************************************************************************)
(* The gate, the readers, the choice among the sources and the home.        *)
(***************************************************************************)

(* Whatever auth.json holds, the gate is one of the three.                  *)
LEMMA GateIsOne ==
    ASSUME NEW a
    PROVE  readCloudAuth(a).gate \in {"never", "applies", "undecidable"}
  <1>1. \A t : chatgptCloudAuth(t).gate \in {"never", "applies", "undecidable"}
    BY DEF chatgptCloudAuth, NeverApplies, Applies
  <1>2. \A t : agentIdentityCloudAuth(t).gate \in {"never", "applies", "undecidable"}
    BY DEF agentIdentityCloudAuth, NeverApplies, Applies, Undecidable
  <1>3. \A b : materialOrCannotLoad(b, NeverApplies).gate \in {"never", "applies", "undecidable"}
    BY DEF materialOrCannotLoad, NeverApplies, Undecidable
  <1>4. Undecidable.gate = "undecidable" /\ NeverApplies.gate = "never"
    BY DEF Undecidable, NeverApplies
  <1>5. cloudAuthOf(a.doc).gate \in {"never", "applies", "undecidable"}
    BY <1>1, <1>2, <1>3, <1>4 DEF cloudAuthOf, cloudAuthOfMode
  <1> QED
    BY <1>4, <1>5 DEF readCloudAuth

(* A non-empty set of numbers up to five has a greatest one.                *)
LEMMA GreatestTier ==
    ASSUME NEW set, set \subseteq 1..5, set # {}
    PROVE  (CHOOSE i \in set : \A j \in set : j <= i) \in set
  <1>1. \E i \in set : \A j \in set : j <= i
    <2>1. CASE 5 \in set
      BY <2>1
    <2>2. CASE 5 \notin set /\ 4 \in set
      BY <2>2
    <2>3. CASE 5 \notin set /\ 4 \notin set /\ 3 \in set
      BY <2>3
    <2>4. CASE 5 \notin set /\ 4 \notin set /\ 3 \notin set /\ 2 \in set
      BY <2>4
    <2>5. CASE 5 \notin set /\ 4 \notin set /\ 3 \notin set /\ 2 \notin set
      <3>1. \A i \in set : i = 1
        BY <2>5
      <3>2. 1 \in set
        BY <3>1
      <3> QED
        BY <3>1, <3>2
    <2> QED
      BY <2>1, <2>2, <2>3, <2>4, <2>5
  <1> QED
    BY <1>1

(* The resolution always ends in a directory and in one of its tiers.       *)
LEMMA ResolutionIsSet ==
    ASSUME NEW b
    PROVE  /\ resolveSQLiteDir(b).tier \in 0..5
           /\ resolveSQLiteDir(b).dir # NoSetting
  <1> DEFINE candidates == <<environmentSetting, machineConfig(b), FileSetting("config"),
                             managedConfig, managedRequirement(b)>>
             set == {i \in DOMAIN candidates : candidates[i] # NoSetting}
             winner == CHOOSE i \in set : \A j \in set : j <= i
  <1>1. DOMAIN candidates = 1..5
    OBVIOUS
  <1> HIDE DEF candidates
  <1>2. CASE set = {}
    <2>1. resolveSQLiteDir(b) = [dir |-> CodexHome, tier |-> 0]
      BY <1>2 DEF resolveSQLiteDir, WinnerOf, candidates
    <2> QED
      BY <2>1 DEF CodexHome, NoSetting
  <1>3. CASE set # {}
    <2>1. set \subseteq 1..5
      BY <1>1
    <2>2. winner \in set
      <3> HIDE DEF set
      <3> QED
        BY <1>3, <2>1, GreatestTier
    <2>3. resolveSQLiteDir(b) = [dir |-> candidates[winner], tier |-> winner]
      BY <1>3 DEF resolveSQLiteDir, WinnerOf, candidates
    <2>4. winner \in 1..5 /\ candidates[winner] # NoSetting
      BY <2>1, <2>2
    <2> HIDE DEF winner
    <2> QED
      BY <2>3, <2>4
  <1> QED
    BY <1>2, <1>3

(* Type correctness: every step of newHome leaves one of its tiers, gates   *)
(* and outcomes, and a home that opened has a directory.                    *)
THEOREM Typing == Spec => []TypeOK
  <1>1. Init => TypeOK
    <2> SUFFICES ASSUME Init PROVE TypeOK
      OBVIOUS
    <2>1. /\ pc = "auth" /\ gate = NeverApplies /\ warned = FALSE
          /\ home = [dir |-> NoSetting, tier |-> 0] /\ outcome = "none"
      BY DEF Init
    <2>2. home.tier = 0
      BY <2>1
    <2>3. gate.gate = "never"
      BY <2>1 DEF NeverApplies
    <2>4. home.tier \in 0..5
      BY <2>2
    <2>5. warned \in BOOLEAN
      BY <2>1
    <2> QED
      BY <2>1, <2>3, <2>4, <2>5 DEF TypeOK
  <1>2. TypeOK /\ [Next]_vars => TypeOK'
    <2> SUFFICES ASSUME TypeOK, [Next]_vars PROVE TypeOK'
      OBVIOUS
    <2> USE DEF TypeOK
    <2>1. CASE ReadAuth
      BY <2>1, GateIsOne DEF ReadAuth, Fail, GoTo
    <2>2. CASE ReadBundle
      BY <2>2 DEF ReadBundle, Fail, GoTo
    <2>3. CASE Resolve
      BY <2>3, ResolutionIsSet DEF Resolve, Fail, GoTo
    <2>4. CASE FindProject
      BY <2>4 DEF FindProject
    <2>5. CASE MissProject
      BY <2>5 DEF MissProject
    <2>6. CASE Environment
      BY <2>6 DEF Environment
    <2>7. CASE UNCHANGED vars
      BY <2>7 DEF vars
    <2> QED
      BY <2>1, <2>2, <2>3, <2>4, <2>5, <2>6, <2>7 DEF Next
  <1> QED
    BY <1>1, <1>2, PTL DEF Spec

-----------------------------------------------------------------------------
(* cc-port and Codex read auth.json alike *)

Kinds == {"requiredString", "requiredBool", "optionalString", "optionalBool"}

(* A declared field is accepted by one exactly when it is by the other.     *)
LEMMA FieldsAgree ==
    ASSUME NEW kind \in Kinds, NEW raw \in Raw
    PROVE  (raw # "repeated" /\ validJSONField(kind, raw)) <=> raw \in Accepts[kind]
  <1>1. /\ Accepts["requiredString"] = {"string"} /\ Accepts["requiredBool"] = {"bool"}
        /\ Accepts["optionalString"] = {"absent", "null", "string"}
        /\ Accepts["optionalBool"] = {"absent", "bool"}
    BY DEF Accepts
  <1>2. CASE kind = "requiredString"
    BY <1>1, <1>2 DEF Raw, validJSONField, isJSONNull
  <1>3. CASE kind = "requiredBool"
    BY <1>1, <1>3 DEF Raw, validJSONField, isJSONNull
  <1>4. CASE kind = "optionalString"
    BY <1>1, <1>4 DEF Raw, validJSONField, isJSONNull
  <1>5. CASE kind = "optionalBool"
    BY <1>1, <1>5 DEF Raw, validJSONField, isJSONNull
  <1> QED
    BY <1>2, <1>3, <1>4, <1>5 DEF Kinds

(* And so is a struct of such fields.                                       *)
LEMMA StructsAgree ==
    ASSUME NEW kinds, NEW s \in StructOf(kinds), "kind" \notin DOMAIN kinds,
           \A f \in DOMAIN kinds : kinds[f] \in Kinds
    PROVE  /\ jsonStruct(s, kinds) <=> SerdeStruct(s, kinds)
           /\ optionalJSONStruct(s, kinds) <=> SerdeOption(s, kinds)
  <1>1. CASE s \in {NoStruct, OtherStruct, TextStruct}
    <2>1. DOMAIN s = {"kind"}
      BY <1>1 DEF NoStruct, OtherStruct, TextStruct
    <2> QED
      BY <1>1, <2>1 DEF jsonStruct, SerdeStruct, optionalJSONStruct, SerdeOption
  <1>2. CASE s \in [DOMAIN kinds -> Raw]
    <2>1. DOMAIN s = DOMAIN kinds
      BY <1>2
    <2>2. \A n \in {NoStruct, OtherStruct, TextStruct} : "kind" \in DOMAIN n
      <3>1. "kind" \in DOMAIN NoStruct /\ "kind" \in DOMAIN OtherStruct /\ "kind" \in DOMAIN TextStruct
        BY DEF NoStruct, OtherStruct, TextStruct
      <3> QED
        BY <3>1
    <2>3. s \notin {NoStruct, OtherStruct, TextStruct}
      BY <2>1, <2>2
    <2>4. \A f \in DOMAIN kinds :
             (s[f] # "repeated" /\ validJSONField(kinds[f], s[f])) <=> s[f] \in Accepts[kinds[f]]
      BY <1>2, FieldsAgree
    <2> QED
      BY <2>1, <2>3, <2>4 DEF jsonStruct, SerdeStruct, optionalJSONStruct, SerdeOption
  <1> QED
    BY <1>1, <1>2 DEF StructOf

(* The whole of auth.json.                                                  *)
LEMMA LoadsAgree ==
    ASSUME NEW doc, IsDocument(doc)
    PROVE  parseAuthDotJSON(doc) <=> CodexLoadsAuth(doc)
  <1>1. \A raw : validJSONField("optionalString", raw) <=> raw \in Accepts.optionalString
    BY DEF validJSONField, isJSONNull, Accepts
  <1>2. optionalJSONStruct(doc.bedrock_api_key, BedrockKeyKinds)
           <=> SerdeOption(doc.bedrock_api_key, BedrockKeyKinds)
    <2>1. "kind" \notin DOMAIN BedrockKeyKinds /\ \A f \in DOMAIN BedrockKeyKinds : BedrockKeyKinds[f] \in Kinds
      BY DEF BedrockKeyKinds, Kinds
    <2> QED
      BY <2>1, StructsAgree DEF IsDocument
  <1>3. optionalJSONStruct(doc.bedrock_access_keys, BedrockAccessKinds)
           <=> SerdeOption(doc.bedrock_access_keys, BedrockAccessKinds)
    <2>1. "kind" \notin DOMAIN BedrockAccessKinds
          /\ \A f \in DOMAIN BedrockAccessKinds : BedrockAccessKinds[f] \in Kinds
      BY DEF BedrockAccessKinds, Kinds
    <2> QED
      BY <2>1, StructsAgree DEF IsDocument
  <1>4. jsonStruct(doc.tokens.struct, TokenKinds) <=> SerdeStruct(doc.tokens.struct, TokenKinds)
    <2>1. "kind" \notin DOMAIN TokenKinds /\ \A f \in DOMAIN TokenKinds : TokenKinds[f] \in Kinds
      BY DEF TokenKinds, Kinds
    <2> QED
      BY <2>1, StructsAgree DEF IsDocument
  <1>5. optionalJSONStruct(doc.tokens.jwt.profile, [email |-> "optionalString"])
           <=> SerdeOption(doc.tokens.jwt.profile, [email |-> "optionalString"])
    <2> DEFINE kinds == [email |-> "optionalString"]
    <2>1. "kind" \notin DOMAIN kinds /\ \A f \in DOMAIN kinds : kinds[f] \in Kinds
      BY DEF Kinds
    <2>2. doc.tokens.jwt.profile \in StructOf(kinds)
      BY DEF IsDocument
    <2> HIDE DEF kinds
    <2>3. optionalJSONStruct(doc.tokens.jwt.profile, kinds) <=> SerdeOption(doc.tokens.jwt.profile, kinds)
      BY <2>1, <2>2, StructsAgree
    <2> QED
      BY <2>3 DEF kinds
  <1>6. optionalJSONStruct(doc.tokens.jwt.auth, ClaimKinds)
           <=> SerdeOption(doc.tokens.jwt.auth, ClaimKinds)
    <2>1. "kind" \notin DOMAIN ClaimKinds /\ \A f \in DOMAIN ClaimKinds : ClaimKinds[f] \in Kinds
      BY DEF ClaimKinds, Kinds
    <2> QED
      BY <2>1, StructsAgree DEF IsDocument
  <1>7. jsonStruct(doc.agent_identity.struct, AgentKinds)
           <=> SerdeStruct(doc.agent_identity.struct, AgentKinds)
    <2>1. "kind" \notin DOMAIN AgentKinds /\ \A f \in DOMAIN AgentKinds : AgentKinds[f] \in Kinds
      BY DEF AgentKinds, Kinds
    <2> QED
      BY <2>1, StructsAgree DEF IsDocument
  <1>8. parseTokenData(doc.tokens) <=>
          /\ SerdeOption(doc.tokens.struct, TokenKinds)
          /\ doc.tokens.struct # NoStruct =>
                /\ doc.tokens.jwt.parts
                /\ doc.tokens.jwt.email \in Accepts.optionalString
                /\ SerdeOption(doc.tokens.jwt.profile, [email |-> "optionalString"])
                /\ SerdeOption(doc.tokens.jwt.auth, ClaimKinds)
    <2>1. jsonStruct(doc.tokens.struct, TokenKinds) => doc.tokens.struct # NoStruct
      BY DEF jsonStruct
    <2>2. parseIDTokenClaims(doc.tokens.jwt) <=>
                /\ doc.tokens.jwt.parts
                /\ doc.tokens.jwt.email \in Accepts.optionalString
                /\ SerdeOption(doc.tokens.jwt.profile, [email |-> "optionalString"])
                /\ SerdeOption(doc.tokens.jwt.auth, ClaimKinds)
      BY <1>1, <1>5, <1>6 DEF parseIDTokenClaims
    <2>3. SerdeOption(doc.tokens.struct, TokenKinds)
            <=> doc.tokens.struct = NoStruct \/ jsonStruct(doc.tokens.struct, TokenKinds)
      BY <1>4 DEF SerdeOption
    <2> QED
      BY <2>1, <2>2, <2>3 DEF parseTokenData
  <1>9. parseAgentIdentityStorage(doc.agent_identity)
           <=> (doc.agent_identity.struct \notin {TextStruct} =>
                   SerdeOption(doc.agent_identity.struct, AgentKinds))
    BY <1>7 DEF parseAgentIdentityStorage, SerdeOption
  <1> QED
    BY <1>1, <1>2, <1>3, <1>8, <1>9 DEF parseAuthDotJSON, CodexLoadsAuth

(* The mode of a sign-in that both can load.                                *)
LEMMA ModesAgree ==
    ASSUME NEW doc, parseAuthDotJSON(doc)
    PROVE  resolvedAuthMode(doc) = CodexMode(doc)
  <1>1. /\ hasKey(doc.personal_access_token) <=> doc.personal_access_token = "string"
        /\ hasKey(doc.OPENAI_API_KEY) <=> doc.OPENAI_API_KEY = "string"
    BY DEF parseAuthDotJSON, validJSONField, hasKey, isJSONNull
  <1> DEFINE modes == <<"personalAccessToken", "bedrockApiKey", "bedrockAccessKeys", "apikey",
                        "chatgpt">>
             held == {i \in 1..5 :
                         \/ i = 1 /\ doc.personal_access_token = "string"
                         \/ i = 2 /\ doc.bedrock_api_key # NoStruct
                         \/ i = 3 /\ doc.bedrock_access_keys # NoStruct
                         \/ i = 4 /\ doc.OPENAI_API_KEY = "string"
                         \/ i = 5}
             first == Least(held)
  <1>2. CodexMode(doc) = IF doc.auth_mode # "absent" THEN doc.auth_mode ELSE modes[first]
    BY DEF CodexMode
  <1>3. held \subseteq Nat /\ held # {}
    OBVIOUS
  <1>4. first \in held /\ \A j \in held : first <= j
    <2> HIDE DEF held
    <2> QED
      BY <1>3, LeastIs
  <1> HIDE DEF first
  <1>5. CASE doc.auth_mode # "absent"
    BY <1>2, <1>5 DEF resolvedAuthMode
  <1>6. CASE doc.auth_mode = "absent"
    <2>1. CASE first = 1
      BY <1>1, <1>2, <1>4, <1>6, <2>1 DEF resolvedAuthMode
    <2>2. CASE first = 2
      BY <1>1, <1>2, <1>4, <1>6, <2>2 DEF resolvedAuthMode
    <2>3. CASE first = 3
      BY <1>1, <1>2, <1>4, <1>6, <2>3 DEF resolvedAuthMode
    <2>4. CASE first = 4
      BY <1>1, <1>2, <1>4, <1>6, <2>4 DEF resolvedAuthMode
    <2>5. CASE first = 5
      BY <1>1, <1>2, <1>4, <1>6, <2>5 DEF resolvedAuthMode
    <2> QED
      BY <1>4, <2>1, <2>2, <2>3, <2>4, <2>5
  <1> QED
    BY <1>5, <1>6

\* The bundles of a start whose sign-in gets one.
BundlesFor(user, account, c) ==
    IF "none" \notin {user, account} /\ CacheIsCurrent(c, user, account)
    THEN {c.bundle} ELSE Fetchable

\* What the gate g promises of the bundles bs a start may get.
GateHolds(g, bs, c) ==
    /\ g.gate = "never" => bs = {NoBundle}
    /\ g.gate = "undecidable" => NoBundle \in bs
    /\ g.gate = "applies" => bs = BundlesFor(g.user, g.account, c)

(* A key whose mode does not get a bundle.                                  *)
LEMMA KeyGate ==
    ASSUME NEW c, NEW bs, bs = {NoBundle}, NEW present
    PROVE  GateHolds(materialOrCannotLoad(present, NeverApplies), bs, c)
  BY DEF GateHolds, materialOrCannotLoad, NeverApplies, Undecidable

(* An account: the plan decides, in the ways the two of them list plans.    *)
LEMMA AccountGate ==
    ASSUME NEW c, NEW account, NEW mode, account.plan \in Plans
    PROVE  LET gets == IF mode = "agentIdentity"
                       THEN accountPlanGetsCloudConfig(account.plan)
                       ELSE idTokenPlanGetsCloudConfig(account.plan)
           IN BundlesOfAccount(account, mode, c) =
                 IF gets THEN BundlesFor(account.user, account.account, c) ELSE {NoBundle}
  <1>1. account.plan \in Ineligible(mode) <=>
            ~(IF mode = "agentIdentity" THEN accountPlanGetsCloudConfig(account.plan)
              ELSE idTokenPlanGetsCloudConfig(account.plan))
    BY DEF Ineligible, Plans, accountPlanGetsCloudConfig, idTokenPlanGetsCloudConfig
  <1> QED
    BY <1>1 DEF BundlesOfAccount, BundlesFor

(* What is read of a sign-in that both can load is right about it.          *)
LEMMA LoadedGate ==
    ASSUME NEW doc, NEW c, IsDocument(doc), parseAuthDotJSON(doc), CodexLoadsAuth(doc),
           NEW mode, mode = resolvedAuthMode(doc)
    PROVE  GateHolds(cloudAuthOfMode(doc, mode), BundlesOfSignIn(doc, mode, c), c)
  <1> DEFINE bs == BundlesOfSignIn(doc, mode, c)
  <1>1. CASE mode \in {"apikey", "bedrockApiKey", "bedrockAccessKeys"}
    <2>1. bs = {NoBundle}
      BY <1>1 DEF BundlesOfSignIn, DecidedOnline
    <2>2. \E present \in BOOLEAN :
             cloudAuthOfMode(doc, mode) = materialOrCannotLoad(present, NeverApplies)
      <3>1. CASE mode = "apikey"
        <4>1. hasKey(doc.OPENAI_API_KEY) \in BOOLEAN
          BY DEF hasKey, isJSONNull
        <4>2. cloudAuthOfMode(doc, mode) = materialOrCannotLoad(hasKey(doc.OPENAI_API_KEY), NeverApplies)
          BY <3>1 DEF cloudAuthOfMode
        <4> QED
          BY <4>1, <4>2
      <3>2. CASE mode = "bedrockApiKey"
        <4>1. cloudAuthOfMode(doc, mode) = materialOrCannotLoad(doc.bedrock_api_key # NoStruct, NeverApplies)
          BY <3>2 DEF cloudAuthOfMode
        <4> QED
          BY <4>1
      <3>3. CASE mode = "bedrockAccessKeys"
        <4>1. cloudAuthOfMode(doc, mode)
                = materialOrCannotLoad(doc.bedrock_access_keys # NoStruct, NeverApplies)
          BY <3>3 DEF cloudAuthOfMode
        <4> QED
          BY <4>1
      <3> QED
        BY <1>1, <3>1, <3>2, <3>3
    <2> HIDE DEF bs
    <2> QED
      BY <2>1, <2>2, KeyGate DEF bs
  <1>2. CASE mode = "agentIdentity"
    <2> DEFINE agent == doc.agent_identity
    <2>1. cloudAuthOfMode(doc, mode) = agentIdentityCloudAuth(agent)
      BY <1>2 DEF cloudAuthOfMode
    <2>2. CASE agent.struct \in {NoStruct, TextStruct}
      <3>1. agentIdentityCloudAuth(agent) = Undecidable
        BY <2>2 DEF agentIdentityCloudAuth
      <3>2. NoBundle \in bs
        BY <1>2, <2>2 DEF BundlesOfSignIn, DecidedOnline
      <3> QED
        BY <2>1, <3>1, <3>2 DEF GateHolds, Undecidable
    <2>3. CASE agent.struct \notin {NoStruct, TextStruct}
      <3>1. jsonStruct(agent.struct, AgentKinds)
        BY <2>3 DEF parseAuthDotJSON, parseAgentIdentityStorage
      <3>2. isJSONNull(agent.struct.task_id) <=> agent.struct.task_id # "string"
        <4>1. validJSONField("optionalString", agent.struct.task_id)
          BY <3>1 DEF jsonStruct, AgentKinds
        <4> QED
          BY <4>1 DEF validJSONField, isJSONNull
      <3>3. CASE isJSONNull(agent.struct.task_id) \/ agent.blankTask
        <4>1. agentIdentityCloudAuth(agent) = Undecidable
          BY <3>3 DEF agentIdentityCloudAuth
        <4>2. NoBundle \in bs
          BY <1>2, <3>2, <3>3 DEF BundlesOfSignIn, DecidedOnline
        <4> QED
          BY <2>1, <4>1, <4>2 DEF GateHolds, Undecidable
      <3>4. CASE ~(isJSONNull(agent.struct.task_id) \/ agent.blankTask)
        <4> DEFINE account == [plan |-> agent.plan, user |-> agent.user, account |-> agent.account]
        <4>1. bs = BundlesOfAccount(account, mode, c)
          BY <1>2, <2>3, <3>2, <3>4 DEF BundlesOfSignIn, DecidedOnline, CodexAccount
        <4>2. account.plan \in Plans
          BY DEF IsDocument
        <4>3. bs = IF accountPlanGetsCloudConfig(agent.plan)
                   THEN BundlesFor(agent.user, agent.account, c) ELSE {NoBundle}
          BY <1>2, <4>1, <4>2, AccountGate
        <4>4. agentIdentityCloudAuth(agent) =
                 IF accountPlanGetsCloudConfig(agent.plan) THEN Applies(agent.user, agent.account)
                 ELSE NeverApplies
          BY <2>3, <3>4 DEF agentIdentityCloudAuth
        <4> HIDE DEF bs
        <4> QED
          BY <2>1, <4>3, <4>4 DEF bs, GateHolds, Applies, NeverApplies
      <3> QED
        BY <3>3, <3>4
    <2> QED
      BY <2>2, <2>3
  <1>3. CASE mode \in {"chatgpt", "chatgptAuthTokens"}
    <2> DEFINE tokens == doc.tokens
               account == CodexAccount(doc, mode)
    <2>1. cloudAuthOfMode(doc, mode) = chatgptCloudAuth(tokens)
      BY <1>3 DEF cloudAuthOfMode
    <2>2. CASE tokens.struct = NoStruct
      <3>1. bs = {NoBundle}
        BY <1>3, <2>2 DEF BundlesOfSignIn, DecidedOnline
      <3>2. chatgptCloudAuth(tokens) = NeverApplies
        BY <2>2 DEF chatgptCloudAuth
      <3> QED
        BY <2>1, <3>1, <3>2 DEF GateHolds, NeverApplies
    <2>3. CASE tokens.struct # NoStruct
      <3>1. bs = BundlesOfAccount(account, mode, c)
        BY <1>3, <2>3 DEF BundlesOfSignIn, DecidedOnline
      <3>2. account = [plan |-> ClaimedPlan(tokens.jwt), user |-> ClaimedUser(tokens.jwt),
                       account |-> IF isJSONNull(tokens.struct.account_id) THEN "none"
                                   ELSE tokens.account]
        BY <1>3 DEF CodexAccount
      <3>3. account.plan \in Plans
        BY <3>2 DEF IsDocument, ClaimedPlan, Plans
      <3>4. bs = IF idTokenPlanGetsCloudConfig(account.plan)
                 THEN BundlesFor(account.user, account.account, c) ELSE {NoBundle}
        <4> HIDE DEF account
        <4> QED
          BY <1>3, <3>1, <3>3, AccountGate
      <3>5. chatgptCloudAuth(tokens) =
               IF idTokenPlanGetsCloudConfig(account.plan)
               THEN Applies(account.user, account.account) ELSE NeverApplies
        BY <2>3, <3>2 DEF chatgptCloudAuth
      <3> HIDE DEF bs, account
      <3> QED
        BY <2>1, <3>4, <3>5 DEF bs, GateHolds, Applies, NeverApplies
    <2> QED
      BY <2>2, <2>3
  <1>4. CASE mode \in {"headers", "personalAccessToken"}
    <2>1. cloudAuthOfMode(doc, mode) = Undecidable
      BY <1>4 DEF cloudAuthOfMode
    <2>2. NoBundle \in bs
      BY <1>4 DEF BundlesOfSignIn, DecidedOnline
    <2> QED
      BY <2>1, <2>2 DEF GateHolds, Undecidable
  <1>5. mode \in AuthModes
    BY DEF parseAuthDotJSON, resolvedAuthMode, AuthModes
  <1> QED
    BY <1>1, <1>2, <1>3, <1>4, <1>5 DEF AuthModes

(* The gate cc-port reads tells the bundles Codex may get.                  *)
LEMMA GateIsRight ==
    ASSUME NEW a, NEW c, IsSignIn(a)
    PROVE  GateHolds(readCloudAuth(a), CodexBundles(a, c), c)
  <1>1. CASE a.file = "missing"
    BY <1>1 DEF readCloudAuth, CodexBundles, GateHolds, NeverApplies
  <1>2. CASE a.file # "missing" /\ ~parseAuthDotJSON(a.doc)
    <2>1. ~CodexLoadsAuth(a.doc)
      BY <1>2, LoadsAgree DEF IsSignIn
    <2>2. NoBundle \in CodexBundles(a, c)
      BY <1>2, <2>1 DEF CodexBundles, BundlesOfSignIn
    <2>3. readCloudAuth(a) = Undecidable
      BY <1>2 DEF readCloudAuth, cloudAuthOf
    <2> QED
      BY <2>2, <2>3 DEF GateHolds, Undecidable
  <1>3. CASE a.file # "missing" /\ parseAuthDotJSON(a.doc)
    <2>1. CodexLoadsAuth(a.doc)
      BY <1>3, LoadsAgree DEF IsSignIn
    <2>2. CodexMode(a.doc) = resolvedAuthMode(a.doc)
      BY <1>3, ModesAgree
    <2>3. readCloudAuth(a) = cloudAuthOfMode(a.doc, resolvedAuthMode(a.doc))
      BY <1>3 DEF readCloudAuth, cloudAuthOf
    <2>4. CodexBundles(a, c) = BundlesOfSignIn(a.doc, resolvedAuthMode(a.doc), c)
      BY <1>3, <2>2 DEF CodexBundles
    <2> QED
      BY ONLY <1>3, <2>1, <2>3, <2>4, LoadedGate, IsSignIn(a) DEF IsSignIn
  <1> QED
    BY <1>1, <1>2, <1>3

-----------------------------------------------------------------------------
(* What an XML list answers *)

(* From position i on, the document closes the dictionary and then the       *)
(* plist, and has nothing after that.                                        *)
ClosesAt(items, i, dict, root) ==
    /\ dict \in i..Len(items) /\ root \in (dict + 1)..Len(items)
    /\ \A j \in i..Len(items) :
          /\ Tag(items[j]) = "end" <=> j \in {dict, root}
          /\ Tag(items[j]) \notin {"text", "broken"}
          /\ j > dict /\ j # root => IsSkipped(items[j])
          /\ j > root => Tag(items[j]) = "comment"

(* The strings right after key from position i on.                          *)
KeyedFrom(items, key, i) ==
    {m \in i..Len(items) :
        /\ Tag(items[m]) = "string"
        /\ \E n \in i..(m - 1) :
              /\ Tag(items[n]) = "key" /\ items[n][2] = key
              /\ \A j \in (n + 1)..(m - 1) : IsSkipped(items[j])}

(* What the walk has answered at position i is right.                       *)
LastKeyed(items, key, i, answer) ==
    IF answer.found
    THEN \E m \in KeyedFrom(items, key, i) :
            /\ answer.value = items[m][2]
            /\ \A n \in KeyedFrom(items, key, i) : n <= m
    ELSE KeyedFrom(items, key, i) = {}

RightFrom(items, key, i, answer) ==
    answer.ok => /\ \E dict, root \in 1..Len(items) : ClosesAt(items, i, dict, root)
                 /\ LastKeyed(items, key, i, answer)
                 /\ answer.found \in BOOLEAN

(* Only one position is the first that is not skipped.                      *)
LEMMA NextIsUnique ==
    ASSUME NEW doc, Len(doc) \in Nat, NEW from \in Nat \ {0},
           NEW at, at = NextElementOrEnd(doc, from), at # 0,
           NEW m \in from..Len(doc), ~IsSkipped(doc[m]),
           \A j \in from..(m - 1) : IsSkipped(doc[j])
    PROVE  m = at
  <1>1. /\ at \in from..Len(doc) /\ ~IsSkipped(doc[at])
        /\ \A i \in from..(at - 1) : IsSkipped(doc[i])
    BY NextElement
  <1>2. ~(m < at) /\ ~(at < m)
    BY <1>1
  <1> QED
    BY <1>1, <1>2

(* A walk that is at the end of the dictionary.                             *)
LEMMA EndIsRight ==
    ASSUME NEW doc, IsXML(doc), NEW key, NEW i \in 1..(Len(doc) + 1),
           NEW k, k = NextElementOrEnd(doc, i), k # 0, Tag(doc[k]) = "end",
           EndsAfter(doc, k + 1)
    PROVE  RightFrom(doc, key, i, NotFound)
  <1>0. Len(doc) \in Nat /\ DOMAIN doc = 1..Len(doc) /\ i \in Nat \ {0}
    BY DEF IsXML
  <1>1. /\ k \in i..Len(doc) /\ \A j \in i..(k - 1) : IsSkipped(doc[j])
        /\ k + 1 \in Nat \ {0}
    <2>1. /\ k \in i..Len(doc) /\ \A j \in i..(k - 1) : IsSkipped(doc[j])
      BY <1>0, NextElement
    <2> QED
      BY <1>0, <2>1
  <1> DEFINE root == NextElementOrEnd(doc, k + 1)
  <1>2. /\ root # 0 /\ Tag(doc[root]) = "end"
        /\ \A j \in (root + 1)..Len(doc) : Tag(doc[j]) = "comment"
    BY DEF EndsAfter
  <1>3. /\ root \in (k + 1)..Len(doc) /\ \A j \in (k + 1)..(root - 1) : IsSkipped(doc[j])
    <2>1. k + 1 \in Nat \ {0} /\ root = NextElementOrEnd(doc, k + 1)
      BY <1>0, <1>1
    <2> HIDE DEF root
    <2> QED
      BY <1>2, <2>1, NextElement
  <1> HIDE DEF root
  <1>4. \A j \in i..Len(doc) : j \in i..(k - 1) \/ j = k \/ j \in (k + 1)..(root - 1)
                               \/ j = root \/ j \in (root + 1)..Len(doc)
    BY <1>0, <1>1, <1>3
  <1>5. ClosesAt(doc, i, k, root)
    <2>1. k \in i..Len(doc) /\ root \in (k + 1)..Len(doc)
      BY <1>0, <1>1, <1>3
    <2>2. ASSUME NEW j \in i..Len(doc)
          PROVE  /\ Tag(doc[j]) = "end" <=> j \in {k, root}
                 /\ Tag(doc[j]) \notin {"text", "broken"}
                 /\ j > k /\ j # root => IsSkipped(doc[j])
                 /\ j > root => Tag(doc[j]) = "comment"
      <3>1. CASE j \in i..(k - 1)
        BY <1>0, <1>1, <1>3, <3>1 DEF IsSkipped
      <3>2. CASE j = k
        BY <1>0, <1>1, <1>3, <3>2
      <3>3. CASE j \in (k + 1)..(root - 1)
        BY <1>0, <1>1, <1>3, <3>3 DEF IsSkipped
      <3>4. CASE j = root
        BY <1>0, <1>1, <1>2, <1>3, <3>4
      <3>5. CASE j \in (root + 1)..Len(doc)
        BY <1>0, <1>1, <1>2, <1>3, <3>5 DEF IsSkipped
      <3> QED
        BY <1>4, <3>1, <3>2, <3>3, <3>4, <3>5
    <2> QED
      BY <2>1, <2>2 DEF ClosesAt
  <1>6. \A j \in i..Len(doc) : Tag(doc[j]) # "key"
    BY <1>0, <1>1, <1>2, <1>3, <1>4 DEF IsSkipped
  <1>7. KeyedFrom(doc, key, i) = {}
    <2> SUFFICES ASSUME NEW m \in i..Len(doc), NEW n \in i..(m - 1), Tag(doc[n]) = "key"
                 PROVE  FALSE
      BY DEF KeyedFrom
    <2>1. n \in i..Len(doc)
      OBVIOUS
    <2> QED
      BY <1>6, <2>1
  <1>8. k \in 1..Len(doc) /\ root \in 1..Len(doc)
    BY <1>0, <1>1, <1>3
  <1> QED
    BY <1>5, <1>7, <1>8 DEF RightFrom, LastKeyed, NotFound

(* The strings under key from an entry on: those after the entry, and its    *)
(* own if it is one. A value that is itself named key is followed by no      *)
(* string, or the walk would have refused.                                   *)
LEMMA KeyedSplit ==
    ASSUME NEW doc, IsXML(doc), NEW key, NEW i \in 1..(Len(doc) + 1),
           NEW k, k = NextElementOrEnd(doc, i), k # 0, Tag(doc[k]) = "key",
           NEW v, v = NextElementOrEnd(doc, k + 1), v # 0,
           NEW w, w = NextElementOrEnd(doc, v + 1), w # 0, Tag(doc[w]) # "string"
    PROVE  KeyedFrom(doc, key, i) =
             KeyedFrom(doc, key, v + 1) \cup
               (IF doc[k][2] = key /\ Tag(doc[v]) = "string" THEN {v} ELSE {})
  <1>0. Len(doc) \in Nat /\ DOMAIN doc = 1..Len(doc) /\ i \in Nat \ {0}
    BY DEF IsXML
  <1>1. /\ k \in i..Len(doc) /\ \A j \in i..(k - 1) : IsSkipped(doc[j])
        /\ k + 1 \in Nat \ {0}
    <2>1. /\ k \in i..Len(doc) /\ \A j \in i..(k - 1) : IsSkipped(doc[j])
      BY <1>0, NextElement
    <2> QED
      BY <1>0, <2>1
  <1>2. /\ v \in (k + 1)..Len(doc) /\ ~IsSkipped(doc[v])
        /\ \A j \in (k + 1)..(v - 1) : IsSkipped(doc[j])
    <2>1. Len(doc) \in Nat /\ k + 1 \in Nat \ {0} /\ v = NextElementOrEnd(doc, k + 1) /\ v # 0
      BY <1>0, <1>1
    <2> QED
      BY ONLY <2>1, NextElement
  <1>3. w \in (v + 1)..Len(doc) /\ ~IsSkipped(doc[w])
    <2>1. v + 1 \in Nat \ {0}
      BY <1>0, <1>1, <1>2
    <2> QED
      BY <1>0, <2>1, NextElement
  <1>4. ASSUME NEW m \in KeyedFrom(doc, key, i)
        PROVE  m \in KeyedFrom(doc, key, v + 1) \/
               (m = v /\ doc[k][2] = key /\ Tag(doc[v]) = "string")
    <2>1. /\ m \in i..Len(doc) /\ Tag(doc[m]) = "string" /\ ~IsSkipped(doc[m])
      BY DEF KeyedFrom, IsSkipped
    <2>2. PICK n \in i..(m - 1) : /\ Tag(doc[n]) = "key" /\ doc[n][2] = key
                                  /\ \A j \in (n + 1)..(m - 1) : IsSkipped(doc[j])
      BY DEF KeyedFrom
    <2>3. n \in Nat /\ ~IsSkipped(doc[n])
      BY <2>2 DEF IsSkipped
    <2>4. CASE n < k
      BY <1>0, <1>1, <2>3, <2>4
    <2>5. CASE n = k
      <3>1. m \in (k + 1)..Len(doc) /\ k + 1 \in Nat \ {0}
        BY <1>0, <1>1, <2>1, <2>5
      <3>2. m = v
        <4>1. /\ Len(doc) \in Nat /\ v = NextElementOrEnd(doc, k + 1) /\ v # 0
              /\ \A j \in (k + 1)..(m - 1) : IsSkipped(doc[j])
          BY <1>0, <2>2, <2>5
        <4> QED
          BY ONLY <2>1, <3>1, <4>1, NextIsUnique
      <3> QED
        BY <2>1, <2>2, <2>5, <3>2
    <2>6. CASE k < n /\ n < v
      BY <1>0, <1>1, <1>2, <2>3, <2>6
    <2>7. CASE n = v
      <3>1. m \in (v + 1)..Len(doc) /\ v + 1 \in Nat \ {0}
        BY <1>0, <1>1, <1>2, <2>1, <2>7
      <3>2. m = w
        <4>1. /\ Len(doc) \in Nat /\ w = NextElementOrEnd(doc, v + 1) /\ w # 0
              /\ \A j \in (v + 1)..(m - 1) : IsSkipped(doc[j])
          BY <1>0, <2>2, <2>7
        <4> QED
          BY ONLY <2>1, <3>1, <4>1, NextIsUnique
      <3> QED
        BY <2>1, <3>2
    <2>8. CASE n > v
      <3>1. n \in (v + 1)..(m - 1) /\ m \in (v + 1)..Len(doc)
        BY <1>0, <1>1, <1>2, <2>1, <2>8
      <3> QED
        BY <2>1, <2>2, <3>1 DEF KeyedFrom
    <2>9. n < k \/ n = k \/ (k < n /\ n < v) \/ n = v \/ n > v
      BY <1>0, <1>1, <1>2, <2>3
    <2> QED
      BY <2>4, <2>5, <2>6, <2>7, <2>8, <2>9
  <1>5. ASSUME NEW m \in KeyedFrom(doc, key, v + 1) PROVE m \in KeyedFrom(doc, key, i)
    <2>1. m \in i..Len(doc) /\ \A n \in (v + 1)..(m - 1) : n \in i..(m - 1)
      BY <1>0, <1>1, <1>2 DEF KeyedFrom
    <2> QED
      BY <2>1 DEF KeyedFrom
  <1>6. doc[k][2] = key /\ Tag(doc[v]) = "string" => v \in KeyedFrom(doc, key, i)
    <2>1. v \in i..Len(doc) /\ k \in i..(v - 1)
      BY <1>0, <1>1, <1>2
    <2> QED
      BY <1>2, <2>1 DEF KeyedFrom
  <1> QED
    BY <1>4, <1>5, <1>6

(* An entry keeps what was right after it right.                            *)
LEMMA EntryIsRight ==
    ASSUME NEW doc, IsXML(doc), NEW key, NEW i \in 1..(Len(doc) + 1),
           NEW k, k = NextElementOrEnd(doc, i), k # 0, Tag(doc[k]) = "key",
           NEW v, v = NextElementOrEnd(doc, k + 1), v # 0, Tag(doc[v]) # "end",
           NEW w, w = NextElementOrEnd(doc, v + 1), w # 0, Tag(doc[w]) # "string",
           NEW rest, rest.ok, RightFrom(doc, key, v + 1, rest),
           NEW answer,
           IF doc[k][2] # key \/ rest.found THEN answer = rest
           ELSE Tag(doc[v]) = "string" /\ answer = Found(doc[v][2])
    PROVE  RightFrom(doc, key, i, answer)
  <1>0. Len(doc) \in Nat /\ DOMAIN doc = 1..Len(doc) /\ i \in Nat \ {0}
    BY DEF IsXML
  <1>1. /\ k \in i..Len(doc) /\ \A j \in i..(k - 1) : IsSkipped(doc[j])
        /\ k + 1 \in Nat \ {0}
    <2>1. /\ k \in i..Len(doc) /\ \A j \in i..(k - 1) : IsSkipped(doc[j])
      BY <1>0, NextElement
    <2> QED
      BY <1>0, <2>1
  <1>2. /\ v \in (k + 1)..Len(doc) /\ ~IsSkipped(doc[v])
        /\ Tag(doc[v]) \notin {"text", "broken"}
        /\ \A j \in (k + 1)..(v - 1) : IsSkipped(doc[j])
    <2>1. Len(doc) \in Nat /\ k + 1 \in Nat \ {0} /\ v = NextElementOrEnd(doc, k + 1) /\ v # 0
      BY <1>0, <1>1
    <2> QED
      BY ONLY <2>1, NextElement
  <1>3. PICK dict, root \in 1..Len(doc) : ClosesAt(doc, v + 1, dict, root)
    BY DEF RightFrom
  <1>4. ClosesAt(doc, i, dict, root)
    <2>1. dict \in (v + 1)..Len(doc) /\ root \in (dict + 1)..Len(doc)
      BY <1>3 DEF ClosesAt
    <2>2. dict \in i..Len(doc) /\ root > v
      BY <1>0, <1>1, <1>2, <2>1
    <2>3. ASSUME NEW j \in i..Len(doc)
          PROVE  /\ Tag(doc[j]) = "end" <=> j \in {dict, root}
                 /\ Tag(doc[j]) \notin {"text", "broken"}
                 /\ j > dict /\ j # root => IsSkipped(doc[j])
                 /\ j > root => Tag(doc[j]) = "comment"
      <3>1. CASE j \in (v + 1)..Len(doc)
        BY <1>3, <3>1 DEF ClosesAt
      <3>2. CASE j <= v
        <4>1. Tag(doc[j]) \notin {"end", "text", "broken"}
          <5>1. j \in i..(k - 1) \/ j = k \/ j \in (k + 1)..(v - 1) \/ j = v
            BY <1>0, <1>1, <1>2, <3>2
          <5> QED
            BY <1>0, <1>1, <1>2, <5>1 DEF IsSkipped
        <4>2. j < dict /\ j < root
          BY <1>0, <1>1, <1>2, <2>1, <3>2
        <4>3. ~(j > dict) /\ ~(j > root) /\ j # dict /\ j # root
          BY <1>0, <1>1, <1>2, <2>1, <4>2
        <4> QED
          BY <4>1, <4>3
      <3> QED
        BY <1>0, <1>1, <1>2, <3>1, <3>2
    <2> QED
      BY <2>1, <2>2, <2>3 DEF ClosesAt
  <1>5. /\ rest.found \in BOOLEAN
        /\ LastKeyed(doc, key, v + 1, rest)
    BY DEF RightFrom
  <1>6. KeyedFrom(doc, key, i) =
             KeyedFrom(doc, key, v + 1) \cup
               (IF doc[k][2] = key /\ Tag(doc[v]) = "string" THEN {v} ELSE {})
    BY KeyedSplit
  <1>7. \A m \in KeyedFrom(doc, key, v + 1) : m \in Nat /\ v < m
    BY <1>0, <1>1, <1>2 DEF KeyedFrom
  <1>8. CASE rest.found
    <2>1. PICK m \in KeyedFrom(doc, key, v + 1) :
             /\ rest.value = doc[m][2]
             /\ \A n \in KeyedFrom(doc, key, v + 1) : n <= m
      BY <1>5, <1>8 DEF LastKeyed
    <2>2. v <= m
      BY <1>0, <1>1, <1>2, <1>7
    <2>3. answer = rest
      BY <1>8
    <2> QED
      BY <1>4, <1>5, <1>6, <1>8, <2>1, <2>2, <2>3 DEF RightFrom, LastKeyed
  <1>9. CASE ~rest.found /\ doc[k][2] # key
    BY <1>4, <1>5, <1>6, <1>9 DEF RightFrom, LastKeyed
  <1>10. CASE ~rest.found /\ doc[k][2] = key
    <2>1. KeyedFrom(doc, key, i) = {v}
      BY <1>5, <1>6, <1>10 DEF LastKeyed
    <2>2. v <= v /\ doc[v][2] = answer.value /\ answer.ok /\ answer.found
      <3>1. answer = Found(doc[v][2]) /\ v <= v
        BY <1>0, <1>1, <1>2, <1>10
      <3> QED
        BY <3>1 DEF Found
    <2>3. LastKeyed(doc, key, i, answer)
      BY <2>1, <2>2 DEF LastKeyed
    <2>4. answer.found = TRUE
      <3>1. answer = Found(doc[v][2])
        BY <1>10
      <3> QED
        BY <3>1 DEF Found
    <2> QED
      BY <1>4, <2>3, <2>4 DEF RightFrom
  <1> QED
    BY <1>5, <1>8, <1>9, <1>10

(* An entry that is not refused is the end of the dictionary or a key.      *)
LEMMA EntryStarts ==
    ASSUME NEW doc, NEW key, NEW walk, NEW i, EntryFrom(doc, key, walk, i).ok,
           NEW k, k = NextElementOrEnd(doc, i)
    PROVE  k # 0 /\ Tag(doc[k]) \in {"end", "key"}
  <1>1. CASE k = 0
    BY <1>1 DEF EntryFrom, Malformed
  <1>2. CASE k # 0 /\ Tag(doc[k]) \notin {"end", "key"}
    BY <1>2 DEF EntryFrom, Malformed
  <1> QED
    BY <1>1, <1>2

(* The walk answers rightly from every position, by induction from the end  *)
(* of the document backwards.                                               *)
LEMMA WalkIsRight ==
    ASSUME NEW doc, IsXML(doc), NEW key,
           NEW walk, walk = [i \in 1..(Len(doc) + 1) |-> EntryFrom(doc, key, walk, i)]
    PROVE  \A i \in 1..(Len(doc) + 1) : RightFrom(doc, key, i, walk[i])
  <1> DEFINE last == Len(doc) + 1
             S == {n \in Nat : \A i \in 1..last : last - n <= i => RightFrom(doc, key, i, walk[i])}
  <1>0. Len(doc) \in Nat /\ last \in Nat /\ last >= 1
    BY DEF IsXML
  <1>1. ASSUME NEW i \in 1..last, \A j \in (i + 1)..last : RightFrom(doc, key, j, walk[j])
        PROVE  RightFrom(doc, key, i, walk[i])
    <2> DEFINE k == NextElementOrEnd(doc, i)
               v == NextElementOrEnd(doc, k + 1)
    <2>1. walk[i] = EntryFrom(doc, key, walk, i)
      OBVIOUS
    <2> SUFFICES ASSUME walk[i].ok PROVE RightFrom(doc, key, i, walk[i])
      BY DEF RightFrom
    <2>2. k # 0 /\ Tag(doc[k]) \in {"end", "key"}
      <3>1. EntryFrom(doc, key, walk, i).ok
        BY <2>1
      <3> QED
        BY ONLY <3>1, EntryStarts
    <2>3. k \in i..Len(doc)
      <3>1. Len(doc) \in Nat /\ i \in Nat \ {0}
        BY <1>0
      <3> QED
        BY ONLY <2>2, <3>1, NextElement
    <2>4. CASE Tag(doc[k]) = "end"
      <3>1. walk[i] = IF EndsAfter(doc, k + 1) THEN NotFound ELSE Malformed
        <4> HIDE DEF k
        <4> QED
          BY <2>1, <2>2, <2>4 DEF EntryFrom, k
      <3>2. EndsAfter(doc, k + 1) /\ walk[i] = NotFound
        BY <3>1 DEF Malformed
      <3>3. RightFrom(doc, key, i, NotFound)
        <4> HIDE DEF k
        <4>1. k = NextElementOrEnd(doc, i) /\ i \in 1..(Len(doc) + 1)
          BY DEF k
        <4> QED
          BY ONLY IsXML(doc), <2>2, <2>4, <3>2, <4>1, EndIsRight
      <3> QED
        BY <3>2, <3>3
    <2>5. CASE Tag(doc[k]) = "key"
      <3>1. walk[i] = IF v = 0 \/ Tag(doc[v]) = "end" THEN Malformed
                      ELSE IF doc[k][2] # key THEN walk[v + 1]
                      ELSE IF Tag(doc[v]) # "string" THEN Malformed
                      ELSE IF ~walk[v + 1].ok \/ walk[v + 1].found THEN walk[v + 1]
                      ELSE Found(doc[v][2])
        <4> HIDE DEF k, v
        <4> QED
          BY <2>1, <2>2, <2>5 DEF EntryFrom, k, v
      <3>2. v # 0 /\ Tag(doc[v]) # "end"
        BY <3>1 DEF Malformed
      <3>3. v \in (k + 1)..Len(doc)
        <4>1. Len(doc) \in Nat /\ k + 1 \in Nat \ {0}
          BY <1>0, <2>3
        <4> HIDE DEF k
        <4>2. v = NextElementOrEnd(doc, k + 1)
          BY DEF v
        <4> HIDE DEF v
        <4> QED
          BY ONLY <3>2, <4>1, <4>2, NextElement
      <3> DEFINE rest == walk[v + 1]
      <3>4. rest.ok
        <4>1. ~Malformed.ok
          BY DEF Malformed
        <4> HIDE DEF k, v
        <4> QED
          BY <3>1, <4>1
      <3>5. v + 1 \in (i + 1)..last
        BY <1>0, <2>3, <3>3
      <3>6. RightFrom(doc, key, v + 1, rest)
        <4> HIDE DEF v, k
        <4> QED
          BY <1>1, <3>5
      <3>7. rest = EntryFrom(doc, key, walk, v + 1)
        <4>1. v + 1 \in 1..(Len(doc) + 1)
          BY <1>0, <3>5
        <4> HIDE DEF v, k
        <4> QED
          BY <4>1
      <3> DEFINE w == NextElementOrEnd(doc, v + 1)
      <3>8. w # 0 /\ Tag(doc[w]) \in {"end", "key"}
        <4> HIDE DEF v, k
        <4>1. EntryFrom(doc, key, walk, v + 1).ok
          BY <3>4, <3>7
        <4> QED
          BY ONLY <4>1, EntryStarts
      <3>9. IF doc[k][2] # key \/ rest.found THEN walk[i] = rest
            ELSE Tag(doc[v]) = "string" /\ walk[i] = Found(doc[v][2])
        <4> HIDE DEF k, v
        <4>1. ~Malformed.ok
          BY DEF Malformed
        <4> QED
          BY <3>1, <3>2, <3>4, <4>1
      <3> QED
        <4>1. /\ k = NextElementOrEnd(doc, i) /\ v = NextElementOrEnd(doc, k + 1)
              /\ w = NextElementOrEnd(doc, v + 1) /\ i \in 1..(Len(doc) + 1)
          OBVIOUS
        <4>2. Tag(doc[w]) # "string"
          BY <3>8
        <4> HIDE DEF k, v, w, rest
        <4> QED
          BY ONLY IsXML(doc), <2>2, <2>5, <3>2, <3>4, <3>6, <3>8, <3>9, <4>1, <4>2, EntryIsRight
    <2> QED
      BY <2>2, <2>4, <2>5
  <1>2. 0 \in S
    <2> SUFFICES ASSUME NEW i \in 1..last, last - 0 <= i PROVE RightFrom(doc, key, i, walk[i])
      OBVIOUS
    <2>1. (i + 1)..last = {}
      BY <1>0
    <2> QED
      BY <1>1, <2>1
  <1>3. ASSUME NEW n \in Nat, n \in S PROVE n + 1 \in S
    <2> SUFFICES ASSUME NEW i \in 1..last, last - (n + 1) <= i PROVE RightFrom(doc, key, i, walk[i])
      OBVIOUS
    <2>1. \A j \in (i + 1)..last : j \in 1..last /\ last - n <= j
      BY <1>0
    <2>2. \A j \in (i + 1)..last : RightFrom(doc, key, j, walk[j])
      BY <1>3, <2>1
    <2> QED
      BY <1>1, <2>2
  <1>4. last \in S
    <2> HIDE DEF S
    <2>1. Nat \subseteq S
      BY <1>2, <1>3, Induction
    <2> QED
      BY <1>0, <2>1
  <1> QED
    <2> SUFFICES ASSUME NEW i \in 1..last PROVE RightFrom(doc, key, i, walk[i])
      OBVIOUS
    <2>1. last - last <= i
      BY <1>0
    <2> QED
      BY <1>4, <2>1

(* The whole document: it is opened, walked and closed.                     *)
LEMMA XMLIsRight ==
    ASSUME NEW doc, IsXML(doc), NEW key
    PROVE  RightFrom(doc, key, 1, xmlPlistTopLevelString(doc, key))
  <1> DEFINE root == NextElementOrEnd(doc, 1)
             dict == NextElementOrEnd(doc, root + 1)
             answer == xmlPlistTopLevelString(doc, key)
  <1> SUFFICES ASSUME answer.ok PROVE RightFrom(doc, key, 1, answer)
    BY DEF RightFrom
  <1>1. PICK walk :
             /\ walk = [i \in 1..(Len(doc) + 1) |-> EntryFrom(doc, key, walk, i)]
             /\ \A from : DictString(doc, from, key) = walk[from]
    BY DictWalk DEF IsXML
  <1>2. /\ IsOpen(doc, root, "plist") /\ IsOpen(doc, dict, "dict")
        /\ answer = DictString(doc, dict + 1, key)
    <2>1. ~Malformed.ok
      BY DEF Malformed
    <2>2. answer = IF IsOpen(doc, root, "plist") /\ IsOpen(doc, dict, "dict")
                   THEN DictString(doc, dict + 1, key) ELSE Malformed
      BY DEF xmlPlistTopLevelString
    <2> QED
      BY <2>1, <2>2
  <1>3. answer = walk[dict + 1]
    BY <1>1, <1>2
  <1>4. /\ root # 0 /\ Tag(doc[root]) = "open" /\ dict # 0 /\ Tag(doc[dict]) = "open"
    BY <1>2 DEF IsOpen, Tag
  <1>5. Len(doc) \in Nat /\ 1 \in Nat \ {0}
    BY DEF IsXML
  <1>6. root \in 1..Len(doc) /\ \A i \in 1..(root - 1) : IsSkipped(doc[i])
    BY ONLY <1>4, <1>5, NextElement
  <1>7. dict \in (root + 1)..Len(doc) /\ \A i \in (root + 1)..(dict - 1) : IsSkipped(doc[i])
    <2>1. root + 1 \in Nat \ {0}
      BY <1>6
    <2> HIDE DEF root
    <2> QED
      BY ONLY <1>4, <1>5, <2>1, NextElement
  <1> HIDE DEF root, dict
  <1>8. \A i \in 1..dict : Tag(doc[i]) \notin {"end", "text", "broken", "key"}
    <2>1. \A i \in 1..dict : i \in 1..(root - 1) \/ i = root \/ i \in (root + 1)..(dict - 1) \/ i = dict
      BY <1>6, <1>7
    <2> QED
      BY <1>4, <1>6, <1>7, <2>1 DEF IsSkipped
  <1>9. RightFrom(doc, key, dict + 1, answer)
    <2>1. dict + 1 \in 1..(Len(doc) + 1)
      BY <1>6, <1>7
    <2>2. \A i \in 1..(Len(doc) + 1) : RightFrom(doc, key, i, walk[i])
      BY <1>1, WalkIsRight
    <2> QED
      BY <1>3, <2>1, <2>2
  <1>10. PICK inner, outer \in 1..Len(doc) : ClosesAt(doc, dict + 1, inner, outer)
    BY <1>9 DEF RightFrom
  <1>11. ClosesAt(doc, 1, inner, outer)
    <2>1. /\ inner \in (dict + 1)..Len(doc) /\ outer \in (inner + 1)..Len(doc)
      BY <1>10 DEF ClosesAt
    <2>2. inner \in 1..Len(doc) /\ dict < inner /\ dict < outer
      BY <1>6, <1>7, <2>1
    <2>3. ASSUME NEW j \in 1..Len(doc)
          PROVE  /\ Tag(doc[j]) = "end" <=> j \in {inner, outer}
                 /\ Tag(doc[j]) \notin {"text", "broken"}
                 /\ j > inner /\ j # outer => IsSkipped(doc[j])
                 /\ j > outer => Tag(doc[j]) = "comment"
      <3>1. CASE j \in (dict + 1)..Len(doc)
        BY <1>10, <3>1 DEF ClosesAt
      <3>2. CASE j \in 1..dict
        <4>1. ~(j > inner) /\ ~(j > outer) /\ j # inner /\ j # outer
          BY <1>6, <1>7, <2>1, <2>2, <3>2
        <4> QED
          BY <1>8, <3>2, <4>1
      <3> QED
        BY <1>6, <1>7, <3>1, <3>2
    <2> QED
      BY <2>1, <2>2, <2>3 DEF ClosesAt
  <1>12. KeyedFrom(doc, key, 1) = KeyedFrom(doc, key, dict + 1)
    <2>1. ASSUME NEW m \in KeyedFrom(doc, key, 1) PROVE m \in KeyedFrom(doc, key, dict + 1)
      <3>1. m \in 1..Len(doc) /\ Tag(doc[m]) = "string"
        BY DEF KeyedFrom
      <3>2. PICK n \in 1..(m - 1) : /\ Tag(doc[n]) = "key" /\ doc[n][2] = key
                                    /\ \A j \in (n + 1)..(m - 1) : IsSkipped(doc[j])
        BY DEF KeyedFrom
      <3>3. n \notin 1..dict
        BY <1>8, <3>2
      <3>4. n \in (dict + 1)..(m - 1) /\ m \in (dict + 1)..Len(doc)
        BY <1>6, <1>7, <3>1, <3>3
      <3> QED
        BY <3>1, <3>2, <3>4 DEF KeyedFrom
    <2>2. ASSUME NEW m \in KeyedFrom(doc, key, dict + 1) PROVE m \in KeyedFrom(doc, key, 1)
      <3>1. m \in 1..Len(doc) /\ \A n \in (dict + 1)..(m - 1) : n \in 1..(m - 1)
        BY <1>6, <1>7 DEF KeyedFrom
      <3> QED
        BY <3>1 DEF KeyedFrom
    <2> QED
      BY <2>1, <2>2
  <1> QED
    BY <1>9, <1>11, <1>12 DEF RightFrom, LastKeyed

(* Together with what the properties call complete and forced.              *)
LEMMA PlistAnswer ==
    ASSUME NEW list, ~list.binary, IsXML(list.items), NEW key,
           plistTopLevelString(list, key).ok
    PROVE  /\ CompleteXML(list.items)
           /\ plistTopLevelString(list, key).found = Forces(list, key)
           /\ plistTopLevelString(list, key).found =>
                 plistTopLevelString(list, key).value = ForcedString(list, key)
  <1> DEFINE items == list.items
             answer == plistTopLevelString(list, key)
             strings == KeyedStrings(items, key)
  <1>1. answer = xmlPlistTopLevelString(items, key)
    BY DEF plistTopLevelString
  <1>2. RightFrom(items, key, 1, answer)
    BY <1>1, XMLIsRight
  <1>3. DOMAIN items = 1..Len(items) /\ Len(items) \in Nat
    BY DEF IsXML
  <1>4. strings = KeyedFrom(items, key, 1)
    BY <1>3 DEF KeyedStrings, KeyedFrom
  <1>5. CompleteXML(items)
    <2>1. PICK dict, root \in 1..Len(items) : ClosesAt(items, 1, dict, root)
      BY <1>2 DEF RightFrom
    <2>2. dict < root
      BY <1>3, <2>1 DEF ClosesAt
    <2> QED
      BY <1>3, <2>1, <2>2 DEF ClosesAt, CompleteXML
  <1>6. answer.found \in BOOLEAN /\ LastKeyed(items, key, 1, answer)
    BY <1>2 DEF RightFrom
  <1>7. answer.found = Forces(list, key)
    BY <1>4, <1>6 DEF LastKeyed, Forces
  <1>8. ASSUME answer.found PROVE answer.value = ForcedString(list, key)
    <2>1. PICK m \in strings : answer.value = items[m][2] /\ \A n \in strings : n <= m
      BY <1>4, <1>6, <1>8 DEF LastKeyed
    <2>2. strings \subseteq Nat
      BY <1>3 DEF KeyedStrings
    <2> DEFINE last == CHOOSE o \in strings : \A n \in strings : n <= o
    <2> HIDE DEF strings
    <2>3. last \in strings /\ \A n \in strings : n <= last
      BY <2>1
    <2>4. last = m
      <3> HIDE DEF last
      <3>1. last \in Nat /\ m \in Nat /\ last <= m /\ m <= last
        BY <2>1, <2>2, <2>3
      <3> QED
        BY <3>1
    <2>5. ForcedString(list, key) = items[last][2]
      BY DEF ForcedString, strings
    <2> QED
      BY <2>1, <2>4, <2>5
  <1> QED
    BY <1>5, <1>7, <1>8

-----------------------------------------------------------------------------
(* The choice among the sources *)

(* Only a text that is set resolves to a directory.                         *)
LEMMA SettingIsSet ==
    ASSUME NEW source, NEW text
    PROVE  /\ Setting(source, text) = NoSetting <=> text = Unset
           /\ text # Unset => Setting(source, text) = resolveAgainstHome(source, text)
  <1>1. resolveAgainstHome(source, text) # <<>>
    <2>1. /\ Base(source) \in {<<"etc">>, <<"cwd">>, <<"codexHome">>}
      BY DEF Base, CodexHome
    <2>2. Base(source) # <<>>
      BY <2>1
    <2>3. Append(Base(source), "relative") # <<>> /\ Append(Base(source), "~") # <<>>
      BY <2>1
    <2>4. <<"root", source>> # <<>> /\ <<OsHome>> # <<>>
      OBVIOUS
    <2> QED
      BY <2>2, <2>3, <2>4 DEF resolveAgainstHome
  <1> QED
    BY <1>1 DEF Setting, NoSetting

(* Of two or of three settings, the last one that is set.                   *)
LEMMA HighestOfTwo ==
    ASSUME NEW a, NEW b
    PROVE  highestSetting(<<a, b>>) = IF b # NoSetting THEN b ELSE a
  <1> DEFINE s == <<a, b>>
             set == {i \in DOMAIN s : s[i] # NoSetting}
             last == CHOOSE i \in set : \A j \in set : j <= i
  <1>1. highestSetting(s) = IF set = {} THEN NoSetting ELSE s[last]
    BY DEF highestSetting
  <1>2. DOMAIN s = 1..2 /\ s[1] = a /\ s[2] = b
    OBVIOUS
  <1> SUFFICES highestSetting(s) = IF b # NoSetting THEN b ELSE a
    OBVIOUS
  <1> HIDE DEF s
  <1>3. CASE b # NoSetting
    <2>1. 2 \in set /\ \A j \in set : j <= 2
      BY <1>2, <1>3
    <2>2. last \in set /\ \A j \in set : j <= last
      BY <2>1
    <2>3. last = 2
      BY <1>2, <2>1, <2>2
    <2> QED
      BY <1>1, <1>2, <1>3, <2>1, <2>3
  <1>4. CASE b = NoSetting /\ a # NoSetting
    <2>1. set = {1}
      BY <1>2, <1>4
    <2>2. last = 1
      BY <2>1
    <2> QED
      BY <1>1, <1>2, <1>4, <2>1, <2>2
  <1>5. CASE b = NoSetting /\ a = NoSetting
    <2>1. set = {}
      BY <1>2, <1>5
    <2> QED
      BY <1>1, <1>5, <2>1
  <1> QED
    BY <1>3, <1>4, <1>5

LEMMA HighestOfThree ==
    ASSUME NEW a, NEW b, NEW c
    PROVE  highestSetting(<<a, b, c>>)
              = IF c # NoSetting THEN c ELSE IF b # NoSetting THEN b ELSE a
  <1> DEFINE s == <<a, b, c>>
             set == {i \in DOMAIN s : s[i] # NoSetting}
             last == CHOOSE i \in set : \A j \in set : j <= i
  <1>1. highestSetting(s) = IF set = {} THEN NoSetting ELSE s[last]
    BY DEF highestSetting
  <1>2. DOMAIN s = 1..3 /\ s[1] = a /\ s[2] = b /\ s[3] = c
    OBVIOUS
  <1> SUFFICES highestSetting(s)
                  = IF c # NoSetting THEN c ELSE IF b # NoSetting THEN b ELSE a
    OBVIOUS
  <1> HIDE DEF s
  <1>3. ASSUME NEW n \in set, \A j \in set : j <= n
        PROVE  highestSetting(s) = s[n]
    <2>1. last \in set /\ \A j \in set : j <= last
      BY <1>3
    <2>2. last = n
      BY <1>2, <1>3, <2>1
    <2> QED
      BY <1>1, <2>2
  <1>4. CASE c # NoSetting
    <2>1. 3 \in set /\ \A j \in set : j <= 3
      BY <1>2, <1>4
    <2> QED
      BY <1>2, <1>3, <1>4, <2>1
  <1>5. CASE c = NoSetting /\ b # NoSetting
    <2>1. 2 \in set /\ \A j \in set : j <= 2
      BY <1>2, <1>5
    <2> QED
      BY <1>2, <1>3, <1>5, <2>1
  <1>6. CASE c = NoSetting /\ b = NoSetting /\ a # NoSetting
    <2>1. 1 \in set /\ \A j \in set : j <= 1
      BY <1>2, <1>6
    <2> QED
      BY <1>2, <1>3, <1>6, <2>1
  <1>7. CASE c = NoSetting /\ b = NoSetting /\ a = NoSetting
    <2>1. set = {}
      BY <1>2, <1>7
    <2> QED
      BY <1>1, <1>7, <2>1
  <1> QED
    BY <1>4, <1>5, <1>6, <1>7

(* Of the five tiers, the highest that has a candidate.                     *)
LEMMA WinnerOfFive ==
    ASSUME NEW c1, NEW c2, NEW c3, NEW c4, NEW c5
    PROVE  WinnerOf(<<c1, c2, c3, c4, c5>>) =
              IF c5 # NoSetting THEN [dir |-> c5, tier |-> 5]
              ELSE IF c4 # NoSetting THEN [dir |-> c4, tier |-> 4]
              ELSE IF c3 # NoSetting THEN [dir |-> c3, tier |-> 3]
              ELSE IF c2 # NoSetting THEN [dir |-> c2, tier |-> 2]
              ELSE IF c1 # NoSetting THEN [dir |-> c1, tier |-> 1]
              ELSE [dir |-> CodexHome, tier |-> 0]
  <1> DEFINE s == <<c1, c2, c3, c4, c5>>
             set == {i \in DOMAIN s : s[i] # NoSetting}
             winner == CHOOSE i \in set : \A j \in set : j <= i
  <1>1. WinnerOf(s) = IF set = {} THEN [dir |-> CodexHome, tier |-> 0]
                      ELSE [dir |-> s[winner], tier |-> winner]
    BY DEF WinnerOf
  <1>2. DOMAIN s = 1..5 /\ s[1] = c1 /\ s[2] = c2 /\ s[3] = c3 /\ s[4] = c4 /\ s[5] = c5
    OBVIOUS
  <1> SUFFICES WinnerOf(s) =
                  IF c5 # NoSetting THEN [dir |-> c5, tier |-> 5]
                  ELSE IF c4 # NoSetting THEN [dir |-> c4, tier |-> 4]
                  ELSE IF c3 # NoSetting THEN [dir |-> c3, tier |-> 3]
                  ELSE IF c2 # NoSetting THEN [dir |-> c2, tier |-> 2]
                  ELSE IF c1 # NoSetting THEN [dir |-> c1, tier |-> 1]
                  ELSE [dir |-> CodexHome, tier |-> 0]
    OBVIOUS
  <1> HIDE DEF s
  <1>3. ASSUME NEW n \in set, \A j \in set : j <= n
        PROVE  WinnerOf(s) = [dir |-> s[n], tier |-> n]
    <2>1. winner \in set /\ \A j \in set : j <= winner
      BY <1>3
    <2>2. winner = n
      BY <1>2, <1>3, <2>1
    <2> HIDE DEF winner
    <2> QED
      BY <1>1, <2>2
  <1>4. CASE c5 # NoSetting
    <2>1. 5 \in set /\ \A j \in set : j <= 5
      BY <1>2, <1>4
    <2> QED
      BY <1>2, <1>3, <1>4, <2>1
  <1>5. CASE c5 = NoSetting /\ c4 # NoSetting
    <2>1. 4 \in set /\ \A j \in set : j <= 4
      BY <1>2, <1>5
    <2> QED
      BY <1>2, <1>3, <1>5, <2>1
  <1>6. CASE c5 = NoSetting /\ c4 = NoSetting /\ c3 # NoSetting
    <2>1. 3 \in set /\ \A j \in set : j <= 3
      BY <1>2, <1>6
    <2> QED
      BY <1>2, <1>3, <1>6, <2>1
  <1>7. CASE c5 = NoSetting /\ c4 = NoSetting /\ c3 = NoSetting /\ c2 # NoSetting
    <2>1. 2 \in set /\ \A j \in set : j <= 2
      BY <1>2, <1>7
    <2> QED
      BY <1>2, <1>3, <1>7, <2>1
  <1>8. CASE c5 = NoSetting /\ c4 = NoSetting /\ c3 = NoSetting /\ c2 = NoSetting
               /\ c1 # NoSetting
    <2>1. 1 \in set /\ \A j \in set : j <= 1
      BY <1>2, <1>8
    <2> QED
      BY <1>2, <1>3, <1>8, <2>1
  <1>9. CASE c5 = NoSetting /\ c4 = NoSetting /\ c3 = NoSetting /\ c2 = NoSetting
               /\ c1 = NoSetting
    <2>1. set = {}
      BY <1>2, <1>9
    <2> QED
      BY <1>1, <1>9, <2>1
  <1> QED
    BY <1>4, <1>5, <1>6, <1>7, <1>8, <1>9

(* The lists of a machine as they are, and what its variable holds.         *)
TypedMachine(m) ==
    /\ DOMAIN m.plists \subseteq Nat
    /\ \A i \in DOMAIN m.plists : ~m.plists[i].binary => IsXML(m.plists[i].items)
    /\ m.environment # Invalid

(* Unless a list is refused, the preference is the one Codex would get.     *)
LEMMA PreferenceIsStop ==
    ASSUME TypedMachine(machine), NEW key, PlistStop(key).ok
    PROVE  Preference(machine, key) = PlistStop(key).value
  <1> DEFINE lists == machine.plists
             answers == [i \in DOMAIN lists |-> plistTopLevelString(lists[i], key)]
             stops == {i \in DOMAIN answers : ~answers[i].ok \/ answers[i].found}
             forced == {i \in DOMAIN lists : Forces(lists[i], key)}
             stop == Least(stops)
  <1>1. PlistStop(key) = IF stops = {} THEN NotFound ELSE answers[stop]
    BY DEF PlistStop
  <1>2. Preference(machine, key) =
           IF forced = {} THEN Unset ELSE ForcedString(lists[Least(forced)], key)
    BY DEF Preference
  <1>3. ASSUME NEW i \in DOMAIN lists, answers[i].ok
        PROVE  /\ Forces(lists[i], key) = answers[i].found
               /\ answers[i].found => ForcedString(lists[i], key) = answers[i].value
    <2>1. CASE lists[i].binary
      BY <2>1 DEF Forces, ForcedString
    <2>2. CASE ~lists[i].binary
      <3>1. IsXML(lists[i].items)
        BY <2>2 DEF TypedMachine
      <3> DEFINE list == lists[i]
      <3>2. answers[i] = plistTopLevelString(list, key)
        OBVIOUS
      <3> HIDE DEF list, answers
      <3>3. /\ plistTopLevelString(list, key).found = Forces(list, key)
            /\ plistTopLevelString(list, key).found =>
                  plistTopLevelString(list, key).value = ForcedString(list, key)
        BY ONLY <1>3, <2>2, <3>1, <3>2, PlistAnswer DEF list
      <3> QED
        BY <3>2, <3>3 DEF list
    <2> QED
      BY <2>1, <2>2
  <1>4. DOMAIN answers = DOMAIN lists /\ DOMAIN lists \subseteq Nat
    BY DEF TypedMachine
  <1> HIDE DEF answers
  <1>5. CASE stops = {}
    <2>1. forced = {}
      BY <1>3, <1>4, <1>5
    <2> QED
      BY <1>1, <1>2, <1>5, <2>1 DEF NotFound, Unset
  <1>6. CASE stops # {}
    <2>1. stop \in stops /\ \A j \in stops : stop <= j
      <3>1. stops \subseteq Nat
        BY <1>4
      <3> HIDE DEF stops
      <3> QED
        BY <1>6, <3>1, LeastIs
    <2>2. answers[stop].ok
      BY <1>1, <1>6
    <2>3. answers[stop].found
      BY <2>1, <2>2
    <2>4. stop \in forced
      BY <1>3, <1>4, <2>1, <2>2, <2>3
    <2>5. \A j \in forced : stop <= j
      <3> SUFFICES ASSUME NEW j \in forced PROVE stop <= j
        OBVIOUS
      <3>1. CASE j \in stops
        BY <2>1, <3>1
      <3>2. CASE j \notin stops
        BY <1>3, <1>4, <3>2
      <3> QED
        BY <3>1, <3>2
    <2>6. Least(forced) = stop
      <3>1. forced \subseteq Nat /\ forced # {}
        BY <1>4, <2>4
      <3> HIDE DEF forced, stop
      <3>2. Least(forced) \in forced /\ \A j \in forced : Least(forced) <= j
        BY <3>1, LeastIs
      <3>3. Least(forced) <= stop /\ stop <= Least(forced)
            /\ stop \in Nat /\ Least(forced) \in Nat
        BY <2>4, <2>5, <3>1, <3>2
      <3> QED
        BY <3>3
    <2>7. Preference(machine, key) = ForcedString(lists[stop], key)
      BY <1>2, <2>4, <2>6
    <2>8. stop \in DOMAIN lists
      BY <1>4, <2>1
    <2> HIDE DEF stop
    <2> QED
      BY <1>1, <1>3, <1>6, <2>2, <2>3, <2>7, <2>8
  <1> QED
    BY <1>5, <1>6

(* The texts Codex finds in its layers, from the highest down.              *)
LEMMA LayersAre ==
    ASSUME NEW m, NEW profile, NEW b, NEW layers, layers = Layers(m, profile, b)
    PROVE  /\ DOMAIN layers = 1..10
           /\ layers[1] = <<"mdmRequirements", Preference(m, "requirements")>>
           /\ layers[2] = <<"cloudRequirements", FirstSet(b.requirements)>>
           /\ layers[3] = <<"systemRequirements", m.files["systemRequirements"]>>
           /\ layers[4] = <<"mdmConfig", Preference(m, "config")>>
           /\ layers[5] = <<"managedConfig", m.files["managedConfig"]>>
           /\ layers[6] = <<"overlay", profile>>
           /\ layers[7] = <<"config", m.files["config"]>>
           /\ layers[8] = <<"cloudConfig", FirstSet(b.config)>>
           /\ layers[9] = <<"systemConfig", m.files["systemConfig"]>>
           /\ layers[10] = <<"environment",
                             IF m.environment = "empty" THEN Unset ELSE m.environment>>
  BY DEF Layers

(* The highest layer that is set is the one Codex takes.                    *)
LEMMA FirstLayer ==
    ASSUME NEW layers, DOMAIN layers = 1..10,
           NEW i \in 1..10, layers[i][2] # Unset, \A j \in 1..10 : j < i => layers[j][2] = Unset
    PROVE  CodexDir(layers) = resolveAgainstHome(layers[i][1], layers[i][2])
  <1> DEFINE set == {n \in DOMAIN layers : layers[n][2] # Unset}
  <1>1. i \in set /\ set \subseteq Nat
    OBVIOUS
  <1>2. Least(set) \in set /\ \A j \in set : Least(set) <= j
    <2> HIDE DEF set
    <2> QED
      BY <1>1, LeastIs
  <1>3. Least(set) = i
    <2> DEFINE least == Least(set)
    <2>1. least \in 1..10 /\ least <= i /\ ~(least < i)
      BY <1>1, <1>2
    <2> HIDE DEF least
    <2>2. least = i
      BY <2>1
    <2> QED
      BY <2>2 DEF least
  <1>4. CodexDir(layers) = resolveAgainstHome(layers[Least(set)][1], layers[Least(set)][2])
    BY <1>1 DEF CodexDir
  <1> QED
    BY <1>3, <1>4

LEMMA NoLayer ==
    ASSUME NEW layers, \A j \in DOMAIN layers : layers[j][2] = Unset
    PROVE  CodexDir(layers) = CodexHome
  BY DEF CodexDir

(* A fragment list gives the first text it has.                             *)
LEMMA FragmentSetting ==
    ASSUME NEW fragments, NEW source
    PROVE  sqliteHomeFromFragments(fragments, source) = Setting(source, FirstSet(fragments))
  BY DEF sqliteHomeFromFragments, FirstSet, Setting

(* And a text it has is none that was refused.                              *)
LEMMA FragmentLoads ==
    ASSUME NEW fragments, DOMAIN fragments \subseteq Nat,
           \A i \in DOMAIN fragments : fragments[i] # Invalid
    PROVE  FirstSet(fragments) # Invalid
  <1> DEFINE set == {i \in DOMAIN fragments : fragments[i] # Unset}
  <1>1. CASE set = {}
    BY <1>1 DEF FirstSet, Unset, Invalid
  <1>2. CASE set # {}
    <2>1. Least(set) \in set
      <3>1. set \subseteq Nat
        OBVIOUS
      <3> HIDE DEF set
      <3> QED
        BY <1>2, <3>1, LeastIs
    <2>2. FirstSet(fragments) = fragments[Least(set)]
      BY <1>2 DEF FirstSet
    <2> QED
      BY <2>1, <2>2
  <1> QED
    BY <1>1, <1>2

(* The five tiers of newHome, each by the layers of Codex in it.            *)
LEMMA TiersAre ==
    ASSUME TypedMachine(machine), NEW b, ~SourceRefused(b),
           NEW t1, t1 = Preference(machine, "requirements"),
           NEW t2, t2 = FirstSet(b.requirements),
           NEW t3, t3 = machine.files["systemRequirements"],
           NEW t4, t4 = Preference(machine, "config"),
           NEW t5, t5 = machine.files["managedConfig"],
           NEW t7, t7 = machine.files["config"],
           NEW t8, t8 = FirstSet(b.config),
           NEW t9, t9 = machine.files["systemConfig"],
           NEW t10, t10 = IF machine.environment = "empty" THEN Unset ELSE machine.environment
    PROVE  /\ managedRequirement(b) =
                 IF t1 # Unset THEN Setting("mdmRequirements", t1)
                 ELSE IF t2 # Unset THEN Setting("cloudRequirements", t2)
                 ELSE Setting("systemRequirements", t3)
           /\ managedConfig = IF t4 # Unset THEN Setting("mdmConfig", t4)
                              ELSE Setting("managedConfig", t5)
           /\ FileSetting("config") = Setting("config", t7)
           /\ machineConfig(b) = IF t8 # Unset THEN Setting("cloudConfig", t8)
                                 ELSE Setting("systemConfig", t9)
           /\ environmentSetting = Setting("environment", t10)
  <1>1. PlistStop("requirements").ok /\ PlistStop("config").ok
    BY DEF SourceRefused, PlistRefused
  <1>2. /\ sqliteHomeFromManagedPreference("requirements", "mdmRequirements")
             = Setting("mdmRequirements", t1)
        /\ sqliteHomeFromManagedPreference("config", "mdmConfig") = Setting("mdmConfig", t4)
    BY <1>1, PreferenceIsStop DEF sqliteHomeFromManagedPreference
  <1>3. /\ sqliteHomeFromFragments(b.requirements, "cloudRequirements")
             = Setting("cloudRequirements", t2)
        /\ sqliteHomeFromFragments(b.config, "cloudConfig") = Setting("cloudConfig", t8)
    BY FragmentSetting
  <1>4. managedRequirement(b) =
           highestSetting(<<Setting("systemRequirements", t3), Setting("cloudRequirements", t2),
                            Setting("mdmRequirements", t1)>>)
    BY <1>2, <1>3 DEF managedRequirement, FileSetting
  <1>5. managedConfig =
           highestSetting(<<Setting("managedConfig", t5), Setting("mdmConfig", t4)>>)
    BY <1>2 DEF managedConfig, FileSetting
  <1>6. machineConfig(b) =
           highestSetting(<<Setting("systemConfig", t9), Setting("cloudConfig", t8)>>)
    BY <1>3 DEF machineConfig, FileSetting
  <1>7. environmentSetting = Setting("environment", t10)
    BY DEF environmentSetting, Setting
  <1>8. managedRequirement(b) =
                 IF t1 # Unset THEN Setting("mdmRequirements", t1)
                 ELSE IF t2 # Unset THEN Setting("cloudRequirements", t2)
                 ELSE Setting("systemRequirements", t3)
    BY ONLY <1>4, HighestOfThree, SettingIsSet
  <1>9. managedConfig = IF t4 # Unset THEN Setting("mdmConfig", t4)
                              ELSE Setting("managedConfig", t5)
    BY ONLY <1>5, HighestOfTwo, SettingIsSet
  <1>10. machineConfig(b) = IF t8 # Unset THEN Setting("cloudConfig", t8)
                                 ELSE Setting("systemConfig", t9)
    BY ONLY <1>6, HighestOfTwo, SettingIsSet
  <1>11. FileSetting("config") = Setting("config", t7)
    BY DEF FileSetting
  <1> QED
    BY <1>7, <1>8, <1>9, <1>10, <1>11

(* A resolution that is not refused is the directory of a start of Codex    *)
(* without a profile that loads. A profile's overlay decides only below     *)
(* managed configuration, and then it is the directory itself.              *)
LEMMA ResolutionIsCodexs ==
    ASSUME TypedMachine(machine), NEW b, IsBundle(b), ~SourceRefused(b),
           NEW chosen, chosen = resolveSQLiteDir(b)
    PROVE  /\ CodexLoads(Layers(machine, Unset, b), b)
           /\ CodexDir(Layers(machine, Unset, b)) = chosen.dir
           /\ \A profile :
                 (profile # Unset) =>
                    CodexDir(Layers(machine, profile, b)) =
                       IF chosen.tier < ManagedConfigTier THEN Setting("overlay", profile)
                       ELSE chosen.dir
  <1> DEFINE t1 == Preference(machine, "requirements")
             t2 == FirstSet(b.requirements)
             t3 == machine.files["systemRequirements"]
             t4 == Preference(machine, "config")
             t5 == machine.files["managedConfig"]
             t7 == machine.files["config"]
             t8 == FirstSet(b.config)
             t9 == machine.files["systemConfig"]
             t10 == IF machine.environment = "empty" THEN Unset ELSE machine.environment
             R == managedRequirement(b)
             M == managedConfig
             C == FileSetting("config")
             S == machineConfig(b)
             E == environmentSetting
             D(profile) == CodexDir(Layers(machine, profile, b))
  <1>1. CodexLoads(Layers(machine, Unset, b), b)
    <2> DEFINE layers == Layers(machine, Unset, b)
    <2>1. PlistStop("requirements").ok /\ PlistStop("config").ok
      BY DEF SourceRefused, PlistRefused
    <2>2. t1 # Invalid /\ t4 # Invalid
      <3>1. t1 = PlistStop("requirements").value /\ t4 = PlistStop("config").value
        BY <2>1, PreferenceIsStop
      <3>2. PlistStop("requirements").value # Invalid /\ PlistStop("config").value # Invalid
        BY DEF SourceRefused, PlistRefused
      <3> QED
        BY <3>1, <3>2
    <2>3. t2 # Invalid /\ t8 # Invalid
      BY FragmentLoads DEF SourceRefused, IsBundle
    <2>4. t3 # Invalid /\ t5 # Invalid /\ t7 # Invalid /\ t9 # Invalid
      BY DEF SourceRefused, MachineFiles, Files
    <2>5. t10 # Invalid /\ Unset # Invalid
      BY DEF TypedMachine, Unset, Invalid
    <2> HIDE DEF t1, t2, t3, t4, t5, t7, t8, t9, t10, layers
    <2>6. /\ DOMAIN layers = 1..10
          /\ layers[1] = <<"mdmRequirements", t1>>
          /\ layers[2] = <<"cloudRequirements", t2>>
          /\ layers[3] = <<"systemRequirements", t3>>
          /\ layers[4] = <<"mdmConfig", t4>>
          /\ layers[5] = <<"managedConfig", t5>>
          /\ layers[6] = <<"overlay", Unset>>
          /\ layers[7] = <<"config", t7>>
          /\ layers[8] = <<"cloudConfig", t8>>
          /\ layers[9] = <<"systemConfig", t9>>
          /\ layers[10] = <<"environment", t10>>
      BY ONLY LayersAre DEF layers, t1, t2, t3, t4, t5, t7, t8, t9, t10
    <2>7. \A i \in DOMAIN layers : layers[i][2] # Invalid
      BY <2>2, <2>3, <2>4, <2>5, <2>6
    <2> QED
      BY <2>7 DEF CodexLoads, SourceRefused, layers
  <1>2. /\ R = IF t1 # Unset THEN Setting("mdmRequirements", t1)
               ELSE IF t2 # Unset THEN Setting("cloudRequirements", t2)
               ELSE Setting("systemRequirements", t3)
        /\ M = IF t4 # Unset THEN Setting("mdmConfig", t4) ELSE Setting("managedConfig", t5)
        /\ C = Setting("config", t7)
        /\ S = IF t8 # Unset THEN Setting("cloudConfig", t8) ELSE Setting("systemConfig", t9)
        /\ E = Setting("environment", t10)
    BY TiersAre
  <1>3. chosen = IF R # NoSetting THEN [dir |-> R, tier |-> 5]
                 ELSE IF M # NoSetting THEN [dir |-> M, tier |-> 4]
                 ELSE IF C # NoSetting THEN [dir |-> C, tier |-> 3]
                 ELSE IF S # NoSetting THEN [dir |-> S, tier |-> 2]
                 ELSE IF E # NoSetting THEN [dir |-> E, tier |-> 1]
                 ELSE [dir |-> CodexHome, tier |-> 0]
    BY WinnerOfFive DEF resolveSQLiteDir
  <1>4. ASSUME NEW profile
        PROVE D(profile) =
              IF t1 # Unset THEN Setting("mdmRequirements", t1)
              ELSE IF t2 # Unset THEN Setting("cloudRequirements", t2)
              ELSE IF t3 # Unset THEN Setting("systemRequirements", t3)
              ELSE IF t4 # Unset THEN Setting("mdmConfig", t4)
              ELSE IF t5 # Unset THEN Setting("managedConfig", t5)
              ELSE IF profile # Unset THEN Setting("overlay", profile)
              ELSE IF t7 # Unset THEN Setting("config", t7)
              ELSE IF t8 # Unset THEN Setting("cloudConfig", t8)
              ELSE IF t9 # Unset THEN Setting("systemConfig", t9)
              ELSE IF t10 # Unset THEN Setting("environment", t10)
              ELSE CodexHome
    <2> DEFINE layers == Layers(machine, profile, b)
    <2> HIDE DEF t1, t2, t3, t4, t5, t7, t8, t9, t10, layers
    <2>1. /\ DOMAIN layers = 1..10
          /\ layers[1] = <<"mdmRequirements", t1>>
          /\ layers[2] = <<"cloudRequirements", t2>>
          /\ layers[3] = <<"systemRequirements", t3>>
          /\ layers[4] = <<"mdmConfig", t4>>
          /\ layers[5] = <<"managedConfig", t5>>
          /\ layers[6] = <<"overlay", profile>>
          /\ layers[7] = <<"config", t7>>
          /\ layers[8] = <<"cloudConfig", t8>>
          /\ layers[9] = <<"systemConfig", t9>>
          /\ layers[10] = <<"environment", t10>>
      BY ONLY LayersAre DEF layers, t1, t2, t3, t4, t5, t7, t8, t9, t10
    <2>2. /\ layers[1][2] = t1 /\ layers[2][2] = t2 /\ layers[3][2] = t3
          /\ layers[4][2] = t4 /\ layers[5][2] = t5 /\ layers[6][2] = profile
          /\ layers[7][2] = t7 /\ layers[8][2] = t8 /\ layers[9][2] = t9
          /\ layers[10][2] = t10
      BY ONLY <2>1
    <2>3. ASSUME NEW i \in 1..10, layers[i][2] # Unset,
                 \A j \in 1..10 : j < i => layers[j][2] = Unset
          PROVE  D(profile) = Setting(layers[i][1], layers[i][2])
      <3>1. D(profile) = resolveAgainstHome(layers[i][1], layers[i][2])
        BY ONLY <2>1, <2>3, FirstLayer DEF layers
      <3> QED
        BY <2>3, <3>1, SettingIsSet
    <2>4. (\A j \in 1..10 : layers[j][2] = Unset) => D(profile) = CodexHome
      BY <2>1, NoLayer DEF layers
    <2> HIDE DEF D
    <2>5. /\ t1 # Unset => D(profile) = Setting("mdmRequirements", t1)
          /\ t1 = Unset /\ t2 # Unset => D(profile) = Setting("cloudRequirements", t2)
          /\ t1 = Unset /\ t2 = Unset /\ t3 # Unset
                => D(profile) = Setting("systemRequirements", t3)
      BY ONLY <2>1, <2>2, <2>3
    <2>6. t1 = Unset /\ t2 = Unset /\ t3 = Unset =>
             /\ t4 # Unset => D(profile) = Setting("mdmConfig", t4)
             /\ t4 = Unset /\ t5 # Unset => D(profile) = Setting("managedConfig", t5)
             /\ t4 = Unset /\ t5 = Unset /\ profile # Unset
                   => D(profile) = Setting("overlay", profile)
      BY ONLY <2>1, <2>2, <2>3
    <2>7. t1 = Unset /\ t2 = Unset /\ t3 = Unset /\ t4 = Unset /\ t5 = Unset /\ profile = Unset =>
             /\ t7 # Unset => D(profile) = Setting("config", t7)
             /\ t7 = Unset /\ t8 # Unset => D(profile) = Setting("cloudConfig", t8)
             /\ t7 = Unset /\ t8 = Unset /\ t9 # Unset
                   => D(profile) = Setting("systemConfig", t9)
             /\ t7 = Unset /\ t8 = Unset /\ t9 = Unset /\ t10 # Unset
                   => D(profile) = Setting("environment", t10)
      BY ONLY <2>1, <2>2, <2>3
    <2>8. t1 = Unset /\ t2 = Unset /\ t3 = Unset /\ t4 = Unset /\ t5 = Unset /\ profile = Unset
             /\ t7 = Unset /\ t8 = Unset /\ t9 = Unset /\ t10 = Unset => D(profile) = CodexHome
      BY ONLY <2>2, <2>4
    <2> QED
      BY ONLY <2>5, <2>6, <2>7, <2>8
  <1> HIDE DEF t1, t2, t3, t4, t5, t7, t8, t9, t10, R, M, C, S, E, D
  <1>5. /\ R = NoSetting <=> t1 = Unset /\ t2 = Unset /\ t3 = Unset
        /\ M = NoSetting <=> t4 = Unset /\ t5 = Unset
        /\ C = NoSetting <=> t7 = Unset
        /\ S = NoSetting <=> t8 = Unset /\ t9 = Unset
        /\ E = NoSetting <=> t10 = Unset
    BY ONLY <1>2, SettingIsSet
  <1>6. D(Unset) = chosen.dir
    BY ONLY <1>2, <1>3, <1>4, <1>5
  <1>7. ASSUME NEW profile, profile # Unset
        PROVE  D(profile) = IF chosen.tier < ManagedConfigTier THEN Setting("overlay", profile)
                            ELSE chosen.dir
    BY ONLY <1>2, <1>3, <1>4, <1>5, <1>7 DEF ManagedConfigTier
  <1> QED
    BY <1>1, <1>6, <1>7 DEF D

-----------------------------------------------------------------------------
(* What newHome knows at each of its steps *)

\* The directories of the starts whose bundle is one of bs.
StartsOver(m, bs) ==
    {<<Layers(m, profile, b), b>> : profile \in {Unset, m.files["overlay"]}, b \in bs}

DirsOver(m, bs) ==
    {CodexDir(s[1]) : s \in {s \in StartsOver(m, bs) : CodexLoads(s[1], s[2])}}

FromSetup == \E setup \in Setups : machine = setup.machine

Filed == FromSetup /\ IsSignIn(auth) /\ IsCache(cache) /\ IsBundle(bundle)

\* The starts of now are remembered.
NowRemembered == CodexDirs(machine, auth, cache) \in moments

(* After auth.json was read: what the sign-in that was read promises was    *)
(* true of some moment, for the cache as it is now.                         *)
GateRemembered ==
    pc = "cloud" =>
        /\ gate.gate \in {"never", "applies", "undecidable"}
        /\ \E bs : GateHolds(gate, bs, cache) /\ DirsOver(machine, bs) \in moments

(* After the cache was read: the bundle is one of a moment's, and unless    *)
(* the user is warned, it was the only one.                                 *)
BundleRemembered ==
    pc = "sources" =>
        \E bs : /\ bundle \in bs /\ (~warned => bs = {bundle})
                /\ DirsOver(machine, bs) \in moments

\* When cc-port could say that a project is absent.
Sure == ~warned /\ ~OverlayRefused /\ ~OverlayDiverges

(* Once a home opened, and until a command answers from it.                 *)
HomeRemembered ==
    pc = "opened" \/ outcome \in {"found", "unresolved", "absent"} =>
        \E dirs \in moments : home.dir \in dirs /\ (Sure => dirs = {home.dir})

Said ==
    /\ outcome = "absent" => Sure
    /\ pc # "done" => outcome = "none"

IInv == Filed /\ NowRemembered /\ GateRemembered /\ BundleRemembered /\ HomeRemembered /\ Said

(* A machine of a setup is a typed one.                                     *)
LEMMA SetupIsTyped ==
    ASSUME FromSetup
    PROVE  TypedMachine(machine)
  <1>1. PICK setup \in Setups : machine = setup.machine
    BY DEF FromSetup
  <1>2. DOMAIN machine.plists \subseteq Nat /\ machine.environment # Invalid
    BY <1>1, MachinesAssumption DEF Invalid
  <1>3. \A i \in DOMAIN machine.plists : ~machine.plists[i].binary => IsXML(machine.plists[i].items)
    BY <1>1, PlistsAssumption
  <1> QED
    BY <1>2, <1>3 DEF TypedMachine

(* What Codex may use is what the starts of its bundles use.                *)
LEMMA DirsAre ==
    ASSUME NEW m, NEW a, NEW c
    PROVE  CodexDirs(m, a, c) = DirsOver(m, CodexBundles(a, c))
  BY DEF CodexDirs, Starts, DirsOver, StartsOver

LEMMA EmptyBundle == IsBundle(NoBundle)
  BY DEF IsBundle, NoBundle

(* Of the bundles of a start, and without a warning of the only one, the    *)
(* chosen directory is used by it, and without a profile that decides       *)
(* otherwise it is the only one.                                            *)
LEMMA ChosenIsUsed ==
    ASSUME TypedMachine(machine), NEW b, IsBundle(b), ~SourceRefused(b),
           NEW bs, b \in bs
    PROVE  LET chosen == resolveSQLiteDir(b)
               Diverges == /\ chosen.tier < ManagedConfigTier
                           /\ Overlay # Unset
                           /\ Setting("overlay", Overlay) # chosen.dir
           IN /\ chosen.dir \in DirsOver(machine, bs)
              /\ bs = {b} /\ ~Diverges => DirsOver(machine, bs) = {chosen.dir}
  <1> DEFINE chosen == resolveSQLiteDir(b)
             Diverges == /\ chosen.tier < ManagedConfigTier
                         /\ Overlay # Unset
                         /\ Setting("overlay", Overlay) # chosen.dir
             starts == StartsOver(machine, bs)
  <1>1. /\ CodexLoads(Layers(machine, Unset, b), b)
        /\ CodexDir(Layers(machine, Unset, b)) = chosen.dir
        /\ \A profile : profile # Unset =>
              CodexDir(Layers(machine, profile, b)) =
                 IF chosen.tier < ManagedConfigTier THEN Setting("overlay", profile)
                 ELSE chosen.dir
    <2> HIDE DEF chosen
    <2> QED
      BY ResolutionIsCodexs DEF chosen
  <1> HIDE DEF chosen
  <1>2. chosen.dir \in DirsOver(machine, bs)
    <2> DEFINE start == <<Layers(machine, Unset, b), b>>
    <2>1. start \in starts /\ start[1] = Layers(machine, Unset, b) /\ start[2] = b
      BY DEF StartsOver
    <2> HIDE DEF start
    <2> QED
      BY <1>1, <2>1 DEF DirsOver
  <1>3. ASSUME bs = {b}, ~Diverges
        PROVE  DirsOver(machine, bs) = {chosen.dir}
    <2>1. ASSUME NEW s \in starts
          PROVE  CodexDir(s[1]) = chosen.dir
      <3>1. PICK profile \in {Unset, machine.files["overlay"]} :
               s = <<Layers(machine, profile, b), b>>
        BY <1>3, <2>1 DEF StartsOver
      <3>2. s[1] = Layers(machine, profile, b)
        BY <3>1
      <3>3. CASE profile = Unset
        BY <1>1, <3>2, <3>3
      <3>4. CASE profile # Unset
        <4>1. profile = Overlay /\ Overlay # Unset
          BY <3>1, <3>4 DEF Overlay
        <4> QED
          BY <1>1, <1>3, <3>2, <4>1
      <3> QED
        BY <3>3, <3>4
    <2>2. DirsOver(machine, bs) \subseteq {chosen.dir}
      BY <2>1 DEF DirsOver
    <2> QED
      BY <1>2, <2>2
  <1> QED
    BY <1>2, <1>3 DEF chosen

(* What the cache answers is of a bundle Codex may get, for the gate.       *)
LEMMA AnswerIsPossible ==
    ASSUME NEW c, IsCache(c), NEW g, g.gate \in {"never", "applies", "undecidable"},
           NEW bs, GateHolds(g, bs, c),
           NEW answer, answer = readCloudConfigBundle(c, g), answer.kind # "error"
    PROVE  /\ answer.bundle \in bs /\ IsBundle(answer.bundle)
           /\ answer.kind # "warning" => bs = {answer.bundle}
  <1>1. NoBundle \in Fetchable
    BY FetchableAssumption
  <1>2. CASE g.gate = "never"
    <2>1. answer = Answer("none", NoBundle)
      BY <1>2 DEF readCloudConfigBundle
    <2> QED
      BY <1>2, <2>1, EmptyBundle DEF GateHolds, Answer
  <1>3. CASE g.gate = "undecidable"
    <2>1. answer = Answer("warning", NoBundle)
      BY <1>3 DEF readCloudConfigBundle
    <2> QED
      BY <1>3, <2>1, EmptyBundle DEF GateHolds, Answer
  <1>4. CASE g.gate = "applies"
    <2>1. bs = BundlesFor(g.user, g.account, c)
      BY <1>4 DEF GateHolds
    <2>2. CASE "none" \in {g.user, g.account} \/ c.file = "missing"
      <3>1. answer = Answer("warning", NoBundle)
        BY <1>4, <2>2 DEF readCloudConfigBundle
      <3>2. bs = Fetchable
        BY <2>1, <2>2 DEF BundlesFor, CacheIsCurrent
      <3> QED
        BY <1>1, <3>1, <3>2, EmptyBundle DEF Answer
    <2>3. CASE "none" \notin {g.user, g.account} /\ c.file = "present"
      <3>1. answer = IF \/ c.file = "unreadable"
                        \/ ~decodeCloudConfigBundleCache(c)
                        \/ c.signature # SignedPayload(c)
                        \/ c.version # 1
                     THEN Answer("error", NoBundle)
                     ELSE IF ~sameIdentity(c, g) \/ c.expires <= Now
                          THEN Answer("warning", NoBundle) ELSE Answer("bundle", c.bundle)
        BY <1>4, <2>3 DEF readCloudConfigBundle
      <3>2. answer = IF ~sameIdentity(c, g) \/ c.expires <= Now
                     THEN Answer("warning", NoBundle) ELSE Answer("bundle", c.bundle)
        BY <2>3, <3>1 DEF Answer
      <3>3. (~sameIdentity(c, g) \/ c.expires <= Now) <=> ~CacheIsCurrent(c, g.user, g.account)
        BY <2>3, SqliteHomeAssumption DEF sameIdentity, CacheIsCurrent, IsCache
      <3> QED
        BY <1>1, <2>1, <2>3, <3>2, <3>3, EmptyBundle DEF BundlesFor, Answer, IsCache
    <2>4. CASE "none" \notin {g.user, g.account} /\ c.file = "unreadable"
      <3>1. answer = Answer("error", NoBundle)
        BY <1>4, <2>4 DEF readCloudConfigBundle
      <3> QED
        BY <3>1 DEF Answer
    <2> QED
      BY <2>2, <2>3, <2>4 DEF IsCache
  <1> QED
    BY <1>2, <1>3, <1>4

LEMMA InitKnows == Init => IInv
  <1> SUFFICES ASSUME Init PROVE IInv
    OBVIOUS
  <1>1. PICK setup \in Setups : machine = setup.machine /\ auth = setup.auth /\ cache = setup.cache
    BY DEF Init
  <1>2. pc = "auth" /\ bundle = NoBundle /\ outcome = "none"
        /\ moments = {CodexDirs(machine, auth, cache)}
    BY DEF Init
  <1>3. Filed
    BY <1>1, <1>2, FilesAssumption, EmptyBundle DEF Filed, FromSetup
  <1>4. NowRemembered
    BY <1>2 DEF NowRemembered
  <1>5. GateRemembered /\ BundleRemembered /\ HomeRemembered /\ Said
    BY <1>2 DEF GateRemembered, BundleRemembered, HomeRemembered, Said
  <1> QED
    BY <1>3, <1>4, <1>5 DEF IInv

LEMMA ReadAuthKeeps == IInv /\ ReadAuth => IInv'
  <1> SUFFICES ASSUME IInv, ReadAuth PROVE IInv'
    OBVIOUS
  <1>1. /\ pc = "auth" /\ UNCHANGED <<machine, auth, cache, changes, moments, bundle, warned, home>>
    BY DEF ReadAuth, env
  <1>2. \/ pc' = "done" /\ outcome' = "error" /\ UNCHANGED gate
        \/ pc' = "cloud" /\ UNCHANGED outcome /\ gate' = readCloudAuth(auth)
    BY DEF ReadAuth, Fail, GoTo
  <1>3. Filed'
    BY <1>1 DEF IInv, Filed, FromSetup
  <1>4. NowRemembered'
    BY <1>1 DEF IInv, NowRemembered
  <1>5. GateRemembered'
    <2> SUFFICES ASSUME pc' = "cloud" PROVE GateRemembered'
      BY DEF GateRemembered
    <2>1. gate' = readCloudAuth(auth)
      BY <1>2
    <2> DEFINE bs == CodexBundles(auth, cache)
    <2>2. GateHolds(readCloudAuth(auth), bs, cache)
      BY GateIsRight DEF IInv, Filed
    <2>3. DirsOver(machine, bs) \in moments
      BY DirsAre DEF IInv, NowRemembered
    <2>4. readCloudAuth(auth).gate \in {"never", "applies", "undecidable"}
      BY GateIsOne
    <2> HIDE DEF bs
    <2> QED
      BY <1>1, <2>1, <2>2, <2>3, <2>4 DEF GateRemembered
  <1>6. BundleRemembered' /\ HomeRemembered' /\ Said'
    BY <1>1, <1>2 DEF BundleRemembered, HomeRemembered, Said, IInv
  <1> QED
    BY <1>3, <1>4, <1>5, <1>6 DEF IInv

LEMMA ReadBundleKeeps == IInv /\ ReadBundle => IInv'
  <1> SUFFICES ASSUME IInv, ReadBundle PROVE IInv'
    OBVIOUS
  <1> DEFINE answer == readCloudConfigBundle(cache, gate)
  <1>1. /\ pc = "cloud" /\ UNCHANGED <<machine, auth, cache, changes, moments, gate, home>>
    BY DEF ReadBundle, env
  <1>2. /\ \/ answer.kind = "error" /\ pc' = "done" /\ outcome' = "error"
           \/ answer.kind # "error" /\ pc' = "sources" /\ UNCHANGED outcome
        /\ bundle' = answer.bundle
        /\ warned' = (answer.kind = "warning")
    BY DEF ReadBundle, Fail, GoTo
  <1>3. PICK bs : GateHolds(gate, bs, cache) /\ DirsOver(machine, bs) \in moments
    BY <1>1 DEF IInv, GateRemembered
  <1>4. answer.kind # "error" => /\ answer.bundle \in bs /\ IsBundle(answer.bundle)
                                 /\ answer.kind # "warning" => bs = {answer.bundle}
    <2>1. IsCache(cache) /\ gate.gate \in {"never", "applies", "undecidable"}
      BY <1>1 DEF IInv, Filed, GateRemembered
    <2> QED
      BY ONLY <1>3, <2>1, AnswerIsPossible
  <1>5. answer.kind = "error" => answer.bundle = NoBundle
    BY DEF readCloudConfigBundle, Answer
  <1> HIDE DEF answer
  <1>6. Filed'
    BY <1>1, <1>2, <1>4, <1>5, EmptyBundle DEF IInv, Filed, FromSetup
  <1>7. NowRemembered'
    BY <1>1 DEF IInv, NowRemembered
  <1>8. GateRemembered' /\ HomeRemembered' /\ Said'
    BY <1>1, <1>2 DEF IInv, GateRemembered, HomeRemembered, Said
  <1>9. BundleRemembered'
    BY <1>1, <1>2, <1>3, <1>4 DEF BundleRemembered
  <1> QED
    BY <1>6, <1>7, <1>8, <1>9 DEF IInv

LEMMA ResolveKeeps == IInv /\ Resolve => IInv'
  <1> SUFFICES ASSUME IInv, Resolve PROVE IInv'
    OBVIOUS
  <1> DEFINE chosen == resolveSQLiteDir(bundle)
  <1>1. /\ pc = "sources" /\ UNCHANGED <<machine, auth, cache, changes, moments, gate, bundle, warned>>
    BY DEF Resolve, env
  <1>2. \/ pc' = "done" /\ outcome' = "error"
        \/ pc' = "opened" /\ UNCHANGED outcome /\ ~SourceRefused(bundle) /\ home' = chosen
    BY DEF Resolve, Fail, GoTo
  <1>3. outcome = "none"
    BY <1>1 DEF IInv, Said
  <1>4. PICK bs : /\ bundle \in bs /\ (~warned => bs = {bundle})
                  /\ DirsOver(machine, bs) \in moments
    BY <1>1 DEF IInv, BundleRemembered
  <1>5. Filed' /\ NowRemembered' /\ GateRemembered' /\ BundleRemembered' /\ Said'
    BY <1>1, <1>2, <1>3 DEF IInv, Filed, FromSetup, NowRemembered, GateRemembered, BundleRemembered, Said
  <1>6. ASSUME pc' = "opened" PROVE HomeRemembered'
    <2>1. home' = chosen /\ ~SourceRefused(bundle)
      BY <1>2, <1>6
    <2> DEFINE dirs == DirsOver(machine, bs)
               Diverges == /\ chosen.tier < ManagedConfigTier
                           /\ Overlay # Unset
                           /\ Setting("overlay", Overlay) # chosen.dir
    <2>2. chosen.dir \in dirs /\ (bs = {bundle} /\ ~Diverges => dirs = {chosen.dir})
      <3>1. TypedMachine(machine) /\ IsBundle(bundle)
        BY SetupIsTyped DEF IInv, Filed
      <3> QED
        BY ONLY <1>4, <2>1, <3>1, ChosenIsUsed
    <2>3. OverlayDiverges' = Diverges
      BY <1>1, <2>1 DEF OverlayDiverges, Overlay
    <2> HIDE DEF dirs, Diverges, chosen
    <2>4. Sure' => bs = {bundle} /\ ~Diverges
      BY <1>1, <1>4, <2>3 DEF Sure
    <2>5. dirs \in moments'
      BY <1>1, <1>4 DEF dirs
    <2> QED
      BY <2>1, <2>2, <2>4, <2>5 DEF HomeRemembered
  <1>7. ASSUME pc' # "opened" PROVE HomeRemembered'
    BY <1>2, <1>7 DEF HomeRemembered
  <1> QED
    BY <1>5, <1>6, <1>7 DEF IInv

LEMMA CommandKeeps == IInv /\ (FindProject \/ MissProject) => IInv'
  <1> SUFFICES ASSUME IInv, FindProject \/ MissProject PROVE IInv'
    OBVIOUS
  <1>1. /\ pc = "opened" /\ pc' = "done"
        /\ UNCHANGED <<machine, auth, cache, changes, moments, gate, bundle, warned, home>>
    BY DEF FindProject, MissProject, env
  <1>2. outcome' = "absent" => Sure
    BY DEF FindProject, MissProject, Sure
  <1>3. Sure' <=> Sure
    BY <1>1 DEF Sure, OverlayRefused, OverlayDiverges, Overlay
  <1>4. Filed' /\ NowRemembered' /\ GateRemembered' /\ BundleRemembered' /\ Said'
    BY <1>1, <1>2, <1>3 DEF IInv, Filed, FromSetup, NowRemembered, GateRemembered, BundleRemembered, Said
  <1>5. HomeRemembered'
    BY <1>1, <1>3 DEF IInv, HomeRemembered
  <1> QED
    BY <1>4, <1>5 DEF IInv

(* What happens beside cc-port only adds moments.                           *)
LEMMA OthersKeep ==
    ASSUME IInv, UNCHANGED <<machine, pc, gate, bundle, warned, home, outcome>>,
           moments \subseteq moments'
    PROVE  BundleRemembered' /\ HomeRemembered' /\ Said'
  <1>1. Sure' <=> Sure
    BY DEF Sure, OverlayRefused, OverlayDiverges, Overlay
  <1>2. BundleRemembered'
    BY DEF IInv, BundleRemembered
  <1>3. HomeRemembered'
    BY <1>1 DEF IInv, HomeRemembered
  <1>4. Said'
    BY <1>1 DEF IInv, Said
  <1> QED
    BY <1>2, <1>3, <1>4

LEMMA SignInKeeps ==
    ASSUME IInv, NEW a \in SignIns, SignIn(a),
           UNCHANGED <<pc, gate, bundle, warned, home, outcome>>
    PROVE  IInv'
  <1>1. /\ auth' = a /\ UNCHANGED <<machine, cache>>
        /\ moments' = moments \cup {CodexDirs(machine, auth', cache')}
    BY DEF SignIn, Remember
  <1>2. Filed'
    BY <1>1, FilesAssumption DEF IInv, Filed, FromSetup
  <1>3. NowRemembered'
    BY <1>1 DEF NowRemembered
  <1>4. GateRemembered'
    BY <1>1 DEF IInv, GateRemembered
  <1>5. BundleRemembered' /\ HomeRemembered' /\ Said'
    BY <1>1, OthersKeep
  <1> QED
    BY <1>2, <1>3, <1>4, <1>5 DEF IInv

(* A refresh of the cache by a start with the sign-in of now: for the       *)
(* sign-in that was read, either it is the same account, and the new bundle *)
(* is the one of a start of now, or any bundle was possible a moment ago.   *)
LEMMA RefreshKeeps ==
    ASSUME IInv, NEW b \in Fetchable, Refresh(b),
           UNCHANGED <<pc, gate, bundle, warned, home, outcome>>
    PROVE  IInv'
  <1> DEFINE a == readCloudAuth(auth)
  <1>1. /\ a.gate = "applies" /\ "none" \notin {a.user, a.account}
        /\ ~CacheIsCurrent(cache, a.user, a.account)
        /\ cache'.file = "present" /\ cache'.expires = Now + 1
        /\ cache'.user = a.user /\ cache'.account = a.account /\ cache'.bundle = b
        /\ UNCHANGED <<machine, auth>>
        /\ moments' = moments \cup {CodexDirs(machine, auth', cache')}
    BY DEF Refresh, Remember
  <1>2. IsCache(cache')
    BY <1>1, SqliteHomeAssumption, FetchableAssumption DEF IsCache
  <1>3. Filed'
    BY <1>1, <1>2 DEF IInv, Filed, FromSetup
  <1>4. NowRemembered'
    BY <1>1 DEF NowRemembered
  <1>5. DirsOver(machine, Fetchable) \in moments
    <2>1. CodexBundles(auth, cache) = Fetchable
      <3>1. GateHolds(a, CodexBundles(auth, cache), cache)
        BY GateIsRight DEF IInv, Filed
      <3> QED
        BY <1>1, <3>1 DEF GateHolds, BundlesFor
    <2> QED
      BY <2>1, DirsAre DEF IInv, NowRemembered
  <1>6. CacheIsCurrent(cache', a.user, a.account)
    BY <1>1, SqliteHomeAssumption DEF CacheIsCurrent
  <1>7. DirsOver(machine, {cache'.bundle}) \in moments'
    <2>1. GateHolds(a, CodexBundles(auth, cache'), cache')
      BY GateIsRight DEF IInv, Filed
    <2>2. CodexBundles(auth, cache') = {cache'.bundle}
      BY <1>1, <1>6, <2>1 DEF GateHolds, BundlesFor
    <2> QED
      BY <1>1, <2>2, DirsAre
  <1> HIDE DEF a
  <1>8. GateRemembered'
    <2> SUFFICES ASSUME pc = "cloud" PROVE GateRemembered'
      BY DEF GateRemembered
    <2>1. gate.gate \in {"never", "applies", "undecidable"}
      BY DEF IInv, GateRemembered
    <2>2. CASE gate.gate # "applies"
      <3>1. PICK bs : GateHolds(gate, bs, cache) /\ DirsOver(machine, bs) \in moments
        BY DEF IInv, GateRemembered
      <3>2. GateHolds(gate, bs, cache')
        BY <2>2, <3>1 DEF GateHolds
      <3> QED
        BY <1>1, <2>1, <3>1, <3>2 DEF GateRemembered
    <2>3. CASE gate.gate = "applies"
      <3> DEFINE bs == BundlesFor(gate.user, gate.account, cache')
      <3>1. GateHolds(gate, bs, cache')
        BY <2>3 DEF GateHolds
      <3>2. bs \in {Fetchable, {cache'.bundle}}
        BY DEF BundlesFor
      <3>3. DirsOver(machine, bs) \in moments'
        <4> HIDE DEF bs
        <4> QED
          BY <1>1, <1>5, <1>7, <3>2
      <3> HIDE DEF bs
      <3> QED
        BY <1>1, <2>1, <3>1, <3>3 DEF GateRemembered
    <2> QED
      BY <2>2, <2>3
  <1>9. BundleRemembered' /\ HomeRemembered' /\ Said'
    BY <1>1, OthersKeep
  <1> QED
    BY <1>3, <1>4, <1>8, <1>9 DEF IInv

(* The invariant of newHome beside Codex.                                   *)
LEMMA Knowing == Spec => []IInv
  <1>1. IInv /\ [Next]_vars => IInv'
    <2> SUFFICES ASSUME IInv, [Next]_vars PROVE IInv'
      OBVIOUS
    <2>1. CASE Environment
      <3>1. CASE \E a \in SignIns : SignIn(a)
        BY <2>1, <3>1, SignInKeeps DEF Environment
      <3>2. CASE \E b \in Fetchable : Refresh(b)
        BY <2>1, <3>2, RefreshKeeps DEF Environment
      <3> QED
        BY <2>1, <3>1, <3>2 DEF Environment
    <2>2. CASE UNCHANGED vars
      <3>1. UNCHANGED <<machine, auth, cache, moments, pc, gate, bundle, warned, home, outcome>>
        BY <2>2 DEF vars
      <3>2. BundleRemembered' /\ HomeRemembered' /\ Said'
        BY <3>1, OthersKeep
      <3> QED
        BY <3>1, <3>2 DEF IInv, Filed, FromSetup, NowRemembered, GateRemembered
    <2> QED
      BY <2>1, <2>2, ReadAuthKeeps, ReadBundleKeeps, ResolveKeeps, CommandKeeps DEF Next
  <1> QED
    BY <1>1, InitKnows, PTL DEF Spec

(* A project is called unknown to Codex only where every start of Codex, at *)
(* some moment of the reading, would have looked: whatever the profile, the *)
(* sign-in, the cached bundle and the property lists of the machine         *)
(* (home.go:269).                                                           *)
THEOREM AbsenceHolds == Spec => []AbsenceIsCertain
  <1>1. IInv => AbsenceIsCertain
    BY DEF IInv, HomeRemembered, Said, AbsenceIsCertain
  <1> QED
    BY <1>1, Knowing, PTL

(* The home a command reads is one that some start of Codex would use, of   *)
(* a configuration that loads.                                              *)
THEOREM HomeHolds == Spec => []HomeIsPossible
  <1>1. IInv => HomeIsPossible
    BY DEF IInv, HomeRemembered, HomeIsPossible
  <1> QED
    BY <1>1, Knowing, PTL

(* An XML property list of any length answers for a key only when it is     *)
(* complete, and then with the last string right after that key.            *)
THEOREM PlistAnswers == Spec => []PlistAnswersAreComplete
  <1>1. IInv => PlistAnswersAreComplete
    <2> SUFFICES ASSUME IInv,
                        NEW i \in DOMAIN machine.plists, NEW key \in {"config", "requirements"},
                        ~machine.plists[i].binary, plistTopLevelString(machine.plists[i], key).ok
                 PROVE  LET list == machine.plists[i]
                            answer == plistTopLevelString(list, key)
                        IN /\ CompleteXML(list.items)
                           /\ answer.found = Forces(list, key)
                           /\ answer.found => answer.value = ForcedString(list, key)
      BY DEF PlistAnswersAreComplete
    <2>1. IsXML(machine.plists[i].items)
      BY SetupIsTyped DEF IInv, Filed, TypedMachine
    <2> DEFINE list == machine.plists[i]
    <2> HIDE DEF list
    <2>2. /\ CompleteXML(list.items)
          /\ plistTopLevelString(list, key).found = Forces(list, key)
          /\ plistTopLevelString(list, key).found =>
                plistTopLevelString(list, key).value = ForcedString(list, key)
      <3>1. ~list.binary /\ plistTopLevelString(list, key).ok /\ IsXML(list.items)
        BY <2>1 DEF list
      <3> QED
        BY ONLY <3>1, PlistAnswer
    <2> QED
      BY <2>2 DEF list
  <1> QED
    BY <1>1, Knowing, PTL

(* On every machine whose files fit its words, the reader of binary         *)
(* property lists never indexes outside of one (requirements.go:1398).      *)
THEOREM PlistReads == Spec => []ReadsStayInFile
  <1>1. Init => FromSetup
    BY DEF Init, FromSetup
  <1>2. FromSetup /\ [Next]_vars => FromSetup'
    BY DEF FromSetup, Next, vars, ReadAuth, ReadBundle, Resolve, FindProject,
           MissProject, Environment, SignIn, Refresh, env
  <1>3. FromSetup => ReadsStayInFile
    BY PlistsAssumption, BinaryReadsStayInFile DEF FromSetup, ReadsStayInFile
  <1> QED
    BY <1>1, <1>2, <1>3, PTL DEF Spec
=============================================================================
