------------------------- MODULE CodexTransfer_proofs ------------------------
(***************************************************************************)
(* Proofs about CodexExport and CodexTransfer, for any homes in which the   *)
(* files of one name are of one thread, any number of imports and of things *)
(* Codex does, and any number of generations of state database. The         *)
(* inductive invariant says what an export has found, read and written of   *)
(* the home that Codex left alone, that each line of the archive stands     *)
(* where it stood or once, and which databases are armed for the backfill.  *)
(***************************************************************************)
EXTENDS CodexTransfer, FiniteSetTheorems, WellFoundedInduction, TLAPS

(***************************************************************************)
(* Sequences: positions, subsequences, appends                             *)
(***************************************************************************)

(* A nonempty set of natural numbers has a least one.                       *)
LEMMA LeastNatural ==
    ASSUME NEW T, T \subseteq Nat, T # {}
    PROVE  \E x \in T : \A y \in T : x <= y
  <1> DEFINE R == OpToRel(<, Nat)
  <1>1. \A i, j \in Nat : <<i, j>> \in R <=> i < j
    BY DEF OpToRel
  <1>2. IsWellFoundedOn(R, Nat)
    BY NatLessThanWellFounded
  <1> HIDE DEF R
  <1>3. PICK x \in T : \A y \in T : ~ (<<y, x>> \in R)
    BY <1>2, WFMin
  <1>4. \A y \in T : ~(y < x)
    BY <1>1, <1>3
  <1> QED
    BY <1>3, <1>4

(* The positions of a sequence up to each of them are counted without a gap. *)
LEMMA Ranks ==
    ASSUME NEW n \in Nat, NEW P \in SUBSET (1..n)
    PROVE  LET rank(p) == Cardinality({q \in P : q <= p})
           IN /\ Cardinality(P) \in Nat
              /\ \A p, q \in P : rank(p) = rank(q) => p = q
              /\ \A k \in 1..Cardinality(P) : \E p \in P : rank(p) = k
              /\ \A p \in P : rank(p) \in 1..Cardinality(P)
  <1> DEFINE upTo(p) == {q \in P : q <= p}
             size == Cardinality(P)
             rank == [p \in P |-> Cardinality(upTo(p))]
  <1>1. IsFiniteSet(P) /\ size \in Nat
    <2>1. IsFiniteSet(1..n)
      BY 1 \in Int, n \in Int, FS_Interval
    <2>2. IsFiniteSet(P)
      BY <2>1, FS_Subset
    <2> QED
      BY <2>2, FS_CardinalityType
  <1>2. ASSUME NEW p \in P
        PROVE  IsFiniteSet(upTo(p)) /\ rank[p] \in 1..size
    <2>1. upTo(p) \subseteq P /\ p \in upTo(p)
      OBVIOUS
    <2>2. IsFiniteSet(upTo(p)) /\ Cardinality(upTo(p)) <= size
      BY <1>1, <2>1, FS_Subset
    <2>3. Cardinality(upTo(p)) \in Nat /\ Cardinality(upTo(p)) # 0
      BY <2>1, <2>2, FS_CardinalityType, FS_EmptySet
    <2> QED
      BY <1>1, <2>2, <2>3
  <1>3. ASSUME NEW p \in P, NEW q \in P, p < q
        PROVE  rank[p] # rank[q]
    <2>1. P \subseteq Nat /\ q \in upTo(q) /\ q \notin upTo(p)
      BY <1>3
    <2>2. upTo(p) \subseteq upTo(q)
      <3> SUFFICES ASSUME NEW r \in P, r <= p PROVE r <= q
        OBVIOUS
      <3> QED
        BY <1>3, <2>1
    <2> HIDE DEF upTo
    <2>3. Cardinality(upTo(p)) # Cardinality(upTo(q))
      BY <1>2, <2>1, <2>2, FS_Subset
    <2> QED
      BY <2>3
  <1>4. rank \in Injection(P, 1..size)
    <2>1. \A p, q \in P : rank[p] = rank[q] => p = q
      <3> SUFFICES ASSUME NEW p \in P, NEW q \in P, rank[p] = rank[q], p # q PROVE FALSE
        BY DEF rank
      <3>1. p < q \/ q < p
        OBVIOUS
      <3> HIDE DEF rank
      <3> QED
        BY <3>1, <1>3
    <2>2. rank \in [P -> 1..size]
      BY <1>2
    <2> QED
      BY <2>1, <2>2 DEF Injection, IsInjective
  <1>5. IsFiniteSet(1..size) /\ Cardinality(1..size) = size
    BY <1>1, FS_Interval
  <1>6. rank \in Surjection(P, 1..size)
    <2> HIDE DEF rank, size
    <2> QED
      BY <1>1, <1>4, <1>5, FS_Injection DEF size
  <1>7. \A k \in 1..size : \E p \in P : rank[p] = k
    <2> HIDE DEF rank, size
    <2> QED
      BY <1>6 DEF Surjection
  <1>8. \A p, q \in P : rank[p] = rank[q] => p = q
    <2> HIDE DEF rank, size
    <2> QED
      BY <1>4 DEF Injection, IsInjective
  <1> QED
    BY <1>1, <1>2, <1>7, <1>8

(* The entries of a sequence at some positions, each of them once.          *)
HasEntriesAt(sub, seq, P) ==
    \E m \in Nat : \E at \in [1..m -> P] :
        /\ sub = [k \in 1..m |-> seq[at[k]]]
        /\ \A j, k \in 1..m : at[j] = at[k] => j = k
        /\ \A p \in P : \E k \in 1..m : at[k] = p

(* That is what a subsequence is.                                           *)
LEMMA SubsequenceIs ==
    ASSUME NEW seq, NEW n \in Nat, NEW P \in SUBSET (1..n)
    PROVE  HasEntriesAt(Subsequence(seq, P), seq, P)
  <1> DEFINE rank(p) == Cardinality({q \in P : q <= p})
             nth(k) == CHOOSE p \in P : rank(p) = k
             m == Cardinality(P)
             at == [k \in 1..m |-> nth(k)]
  <1>1. /\ m \in Nat
        /\ \A p, q \in P : rank(p) = rank(q) => p = q
        /\ \A k \in 1..m : \E p \in P : rank(p) = k
        /\ \A p \in P : rank(p) \in 1..m
    BY Ranks
  <1>2. Subsequence(seq, P) = [k \in 1..m |-> seq[nth(k)]]
    BY DEF Subsequence
  <1> HIDE DEF rank, m
  <1>3. \A k \in 1..m : nth(k) \in P /\ rank(nth(k)) = k
    BY <1>1
  <1> HIDE DEF nth
  <1>4. /\ at \in [1..m -> P]
        /\ \A k \in 1..m : rank(at[k]) = k /\ at[k] = nth(k)
    BY <1>3
  <1>5. Subsequence(seq, P) = [k \in 1..m |-> seq[at[k]]]
    BY <1>2, <1>4
  <1> HIDE DEF at
  <1>6. \A j, k \in 1..m : at[j] = at[k] => j = k
    BY <1>4
  <1>7. ASSUME NEW p \in P PROVE \E k \in 1..m : at[k] = p
    <2>1. PICK k \in 1..m : k = rank(p)
      BY <1>1
    <2>2. at[k] \in P /\ rank(at[k]) = rank(p)
      BY <1>4, <2>1
    <2> QED
      BY <1>1, <2>2
  <1> QED
    BY <1>1, <1>4, <1>5, <1>6, <1>7 DEF HasEntriesAt

(* The positions of the incoming lines that are new.                        *)
New(existing, incoming) ==
    {i \in DOMAIN incoming :
        incoming[i] \notin {existing[j] : j \in DOMAIN existing}
                           \cup {incoming[j] : j \in 1..(i - 1)}}

(* What an append of the new lines writes: no line twice, none that is      *)
(* there, and every other one that came in.                                 *)
Fresh(existing, incoming, new) ==
    /\ IsSequence(new)
    /\ \A k \in DOMAIN new : /\ \E i \in DOMAIN incoming : new[k] = incoming[i]
                             /\ \A j \in DOMAIN existing : existing[j] # new[k]
    /\ \A j, k \in DOMAIN new : new[j] = new[k] => j = k
    /\ \A i \in DOMAIN incoming : \/ \E j \in DOMAIN existing : existing[j] = incoming[i]
                                  \/ \E k \in DOMAIN new : new[k] = incoming[i]

(* A map over 1..n is a sequence of length n.                               *)
LEMMA SequenceOf ==
    ASSUME NEW n \in Nat, NEW s, s = [i \in 1..n |-> s[i]]
    PROVE  IsSequence(s) /\ Len(s) = n /\ DOMAIN s = 1..n
  <1>1. s \in [1..n -> {s[i] : i \in 1..n}]
    OBVIOUS
  <1>2. s \in Seq({s[i] : i \in 1..n}) /\ Len(s) = n
    BY <1>1
  <1> QED
    BY <1>2 DEF IsSequence

(* New lines are fresh.                                                     *)
LEMMA NewIsFresh ==
    ASSUME NEW existing, NEW incoming, IsSequence(incoming)
    PROVE  Fresh(existing, incoming, Subsequence(incoming, New(existing, incoming)))
  <1> DEFINE n == Len(incoming)
             P == New(existing, incoming)
             new == Subsequence(incoming, P)
  <1>1. n \in Nat /\ DOMAIN incoming = 1..n
    BY DEF IsSequence
  <1>2. P \in SUBSET (1..n)
    BY <1>1 DEF New
  <1> HIDE DEF P
  <1>3. HasEntriesAt(new, incoming, P)
    BY <1>1, <1>2, SubsequenceIs
  <1> HIDE DEF new
  <1> PICK m \in Nat : \E at \in [1..m -> P] :
              /\ new = [k \in 1..m |-> incoming[at[k]]]
              /\ \A j, k \in 1..m : at[j] = at[k] => j = k
              /\ \A p \in P : \E k \in 1..m : at[k] = p
    BY <1>3 DEF HasEntriesAt
  <1>4. PICK at \in [1..m -> P] :
              /\ new = [k \in 1..m |-> incoming[at[k]]]
              /\ \A j, k \in 1..m : at[j] = at[k] => j = k
              /\ \A p \in P : \E k \in 1..m : at[k] = p
    OBVIOUS
  <1>5. new = [k \in 1..m |-> new[k]]
    BY <1>4
  <1>6. IsSequence(new) /\ DOMAIN new = 1..m
    BY <1>5, SequenceOf
  <1>7. ASSUME NEW k \in 1..m
        PROVE  /\ \E i \in DOMAIN incoming : new[k] = incoming[i]
               /\ \A j \in DOMAIN existing : existing[j] # new[k]
    <2>1. at[k] \in P /\ new[k] = incoming[at[k]]
      BY <1>4
    <2> QED
      BY <2>1 DEF New, P
  <1>8. ASSUME NEW j \in 1..m, NEW k \in 1..m, new[j] = new[k], at[j] < at[k]
        PROVE  FALSE
    <2>1. at[j] \in P /\ at[k] \in P /\ incoming[at[j]] = incoming[at[k]]
      BY <1>4, <1>8
    <2>2. at[j] \in 1..(at[k] - 1)
      <3>1. at[j] \in 1..n /\ at[k] \in 1..n
        BY ONLY <1>2, <2>1
      <3> HIDE DEF n
      <3> QED
        BY ONLY <1>1, <3>1, <1>8
    <2> QED
      BY <2>1, <2>2 DEF New, P
  <1>9. ASSUME NEW j \in 1..m, NEW k \in 1..m, new[j] = new[k]
        PROVE  j = k
    <2>1. at[j] \in Nat /\ at[k] \in Nat
      <3>1. at[j] \in 1..n /\ at[k] \in 1..n
        BY <1>2
      <3> HIDE DEF n
      <3> QED
        BY ONLY <1>1, <3>1
    <2>2. ~(at[j] < at[k]) /\ ~(at[k] < at[j])
      BY <1>8, <1>9
    <2>3. at[j] = at[k]
      BY <2>1, <2>2
    <2> QED
      BY <1>4, <2>3
  <1>10. ASSUME NEW i \in DOMAIN incoming,
                \A j \in DOMAIN existing : existing[j] # incoming[i]
         PROVE  \E k \in 1..m : new[k] = incoming[i]
    <2> DEFINE same == {j \in 1..n : incoming[j] = incoming[i]}
    <2>1. same \subseteq Nat /\ i \in same
      BY <1>1
    <2>2. PICK first \in same : \A y \in same : first <= y
      <3> HIDE DEF same
      <3> QED
        BY <2>1, LeastNatural
    <2>3. first \in 1..n /\ incoming[first] = incoming[i]
      OBVIOUS
    <2>4. \A j \in 1..(first - 1) : incoming[j] # incoming[first]
      <3> SUFFICES ASSUME NEW j \in 1..(first - 1), incoming[j] = incoming[first] PROVE FALSE
        OBVIOUS
      <3>1. j \in same /\ ~(first <= j)
        BY <1>1, <2>3
      <3> QED
        BY <2>2, <3>1
    <2>5. first \in P
      BY <1>1, <1>10, <2>3, <2>4 DEF New, P
    <2> QED
      BY <1>4, <2>3, <2>5
  <1>11. Fresh(existing, incoming, new)
    <2>1. \A i \in DOMAIN incoming : \/ \E j \in DOMAIN existing : existing[j] = incoming[i]
                                     \/ \E k \in DOMAIN new : new[k] = incoming[i]
      BY <1>6, <1>10
    <2>2. \A j, k \in DOMAIN new : new[j] = new[k] => j = k
      BY <1>6, <1>9
    <2> HIDE DEF n
    <2> QED
      BY <1>6, <1>7, <2>1, <2>2 DEF Fresh
  <1> QED
    BY <1>11 DEF new, P

(* Prompts are one when their keys are.                                     *)
LEMMA KeysTellPrompts ==
    ASSUME NEW existing, NEW incoming,
           \A j \in DOMAIN existing : IsPrompt(existing[j]),
           \A i \in DOMAIN incoming : IsPrompt(incoming[i]),
           \A i \in DOMAIN incoming : 1..(i - 1) \subseteq DOMAIN incoming
    PROVE  AppendLines(existing, incoming, historyKey)
               = Subsequence(incoming, New(existing, incoming))
  <1>1. ASSUME NEW a, NEW b, IsPrompt(a), IsPrompt(b)
        PROVE  historyKey(a) = historyKey(b) <=> a = b
    BY <1>1 DEF IsPrompt, historyKey
  <1> DEFINE seen(i) == {historyKey(existing[j]) : j \in DOMAIN existing}
                        \cup {historyKey(incoming[j]) : j \in 1..(i - 1)}
  <1>2. ASSUME NEW i \in DOMAIN incoming
        PROVE  historyKey(incoming[i]) \notin seen(i) <=>
                 incoming[i] \notin {existing[j] : j \in DOMAIN existing}
                                    \cup {incoming[j] : j \in 1..(i - 1)}
    <2>1. \A j \in DOMAIN existing :
              historyKey(existing[j]) = historyKey(incoming[i]) <=> existing[j] = incoming[i]
      BY <1>1
    <2>2. \A j \in 1..(i - 1) :
              historyKey(incoming[j]) = historyKey(incoming[i]) <=> incoming[j] = incoming[i]
      BY <1>1
    <2> QED
      BY <2>1, <2>2
  <1>3. {i \in DOMAIN incoming : historyKey(incoming[i]) \notin seen(i)}
            = New(existing, incoming)
    BY <1>2 DEF New
  <1> QED
    BY <1>3 DEF AppendLines

(* Lines are compared as they are in the index.                             *)
LEMMA EntriesAreTheirKeys ==
    ASSUME NEW existing, NEW incoming
    PROVE  AppendLines(existing, incoming, LAMBDA line : line)
               = Subsequence(incoming, New(existing, incoming))
  BY DEF AppendLines, New

(* What is appended stands behind what was there.                           *)
LEMMA Appended ==
    ASSUME NEW h, IsSequence(h), NEW new, IsSequence(new)
    PROVE  /\ IsSequence(h \o new)
           /\ DOMAIN h = 1..Len(h) /\ DOMAIN new = 1..Len(new)
           /\ DOMAIN (h \o new) = 1..(Len(h) + Len(new))
           /\ \A i \in 1..(Len(h) + Len(new)) :
                 (h \o new)[i] = IF i <= Len(h) THEN h[i] ELSE new[i - Len(h)]
  <1> DEFINE S == {h[i] : i \in 1..Len(h)} \cup {new[i] : i \in 1..Len(new)}
  <1>1. h \in Seq(S) /\ new \in Seq(S)
    BY DEF IsSequence
  <1>2. h \o new \in Seq(S) /\ Len(h \o new) = Len(h) + Len(new)
    BY <1>1
  <1>3. (h \o new) = [i \in 1..(Len(h) + Len(new)) |-> (h \o new)[i]]
    <2> DEFINE both == h \o new
    <2>1. both \in Seq(S) /\ Len(both) = Len(h) + Len(new)
      BY <1>2
    <2> HIDE DEF both, S
    <2>2. both \in [1..Len(both) -> S]
      BY <2>1
    <2>3. both = [i \in 1..(Len(h) + Len(new)) |-> both[i]]
      BY <2>1, <2>2
    <2> QED
      BY <2>3 DEF both
  <1>4. Len(h) + Len(new) \in Nat
    BY DEF IsSequence
  <1>5. IsSequence(h \o new) /\ DOMAIN (h \o new) = 1..(Len(h) + Len(new))
    BY <1>3, <1>4, SequenceOf
  <1>6. \A i \in 1..(Len(h) + Len(new)) :
           (h \o new)[i] = IF i <= Len(h) THEN h[i] ELSE new[i - Len(h)]
    BY <1>1
  <1> QED
    BY <1>5, <1>6 DEF IsSequence

(* A line stands where it stood before the first import, or it did not      *)
(* stand there and stands in one place now.                                 *)
KeptLine(line, before, now) ==
    \/ Places(now, line) = Places(before, line)
    \/ Places(before, line) = {} /\ \E k \in Places(now, line) : Places(now, line) = {k}

(* A line is among the appended ones only where it is not there, and once.  *)
AddsOnce(line, h, new) ==
    /\ \A k \in DOMAIN new : new[k] = line => Places(h, line) = {}
    /\ \A j, k \in DOMAIN new : new[j] = line /\ new[k] = line => j = k

(* Such an append keeps the line.                                           *)
LEMMA AppendKeepsLine ==
    ASSUME NEW h, IsSequence(h), NEW new, IsSequence(new),
           NEW line, NEW before, KeptLine(line, before, h), AddsOnce(line, h, new)
    PROVE  KeptLine(line, before, h \o new)
  <1> DEFINE n == Len(h)
             m == Len(new)
             both == h \o new
  <1>1. /\ n \in Nat /\ m \in Nat /\ DOMAIN h = 1..n /\ DOMAIN new = 1..m
        /\ DOMAIN both = 1..(n + m)
        /\ \A i \in 1..(n + m) : both[i] = IF i <= n THEN h[i] ELSE new[i - n]
    BY Appended DEF IsSequence
  <1> HIDE DEF n, m, both
  <1>2. ASSUME \A k \in 1..m : new[k] # line
        PROVE  Places(both, line) = Places(h, line)
    <2>1. \A i \in 1..(n + m) : i <= n => i \in 1..n /\ both[i] = h[i]
      BY <1>1
    <2>2. \A i \in 1..(n + m) : ~(i <= n) => i - n \in 1..m /\ both[i] = new[i - n]
      BY <1>1
    <2>3. \A i \in 1..n : i \in 1..(n + m) /\ i <= n
      BY <1>1
    <2> QED
      BY <1>1, <1>2, <2>1, <2>2, <2>3 DEF Places
  <1>3. ASSUME NEW k \in 1..m, new[k] = line
        PROVE  Places(h, line) = {} /\ Places(both, line) = {n + k}
    <2>1. Places(h, line) = {} /\ \A i \in 1..n : h[i] # line
      BY <1>1, <1>3 DEF AddsOnce, Places
    <2>2. \A j \in 1..m : new[j] = line => j = k
      BY <1>1, <1>3 DEF AddsOnce
    <2>3. n + k \in 1..(n + m) /\ both[n + k] = line
      BY <1>1, <1>3
    <2>4. ASSUME NEW i \in 1..(n + m), both[i] = line
          PROVE  i = n + k
      <3>1. ~(i <= n)
        BY <1>1, <2>1, <2>4
      <3>2. i - n \in 1..m /\ new[i - n] = line
        BY <1>1, <2>4, <3>1
      <3> QED
        BY <1>1, <2>2, <3>2
    <2> QED
      BY <1>1, <2>1, <2>3, <2>4 DEF Places
  <1>4. CASE \A k \in 1..m : new[k] # line
    BY <1>2, <1>4 DEF KeptLine, both
  <1>5. CASE \E k \in 1..m : new[k] = line
    <2>1. PICK k \in 1..m : new[k] = line
      BY <1>5
    <2>2. Places(h, line) = {} /\ Places(both, line) = {n + k}
      BY <1>3, <2>1
    <2>3. Places(before, line) = {}
      BY <2>2 DEF KeptLine
    <2> QED
      BY <2>2, <2>3 DEF KeptLine, both
  <1> QED
    BY <1>4, <1>5

(* New lines are added once and complete what there was.                    *)
LEMMA FreshCompletes ==
    ASSUME NEW h, IsSequence(h), NEW incoming, NEW new, Fresh(h, incoming, new)
    PROVE  /\ \A line : AddsOnce(line, h, new)
           /\ \A i \in DOMAIN incoming : Places(h \o new, incoming[i]) # {}
  <1>1. \A line : AddsOnce(line, h, new)
    BY DEF Fresh, AddsOnce, Places
  <1>2. ASSUME NEW i \in DOMAIN incoming
        PROVE  \E j \in DOMAIN (h \o new) : (h \o new)[j] = incoming[i]
    <2> DEFINE n == Len(h)
               m == Len(new)
               both == h \o new
    <2>1. /\ n \in Nat /\ m \in Nat /\ DOMAIN h = 1..n /\ DOMAIN new = 1..m
          /\ DOMAIN both = 1..(n + m)
          /\ \A j \in 1..(n + m) : both[j] = IF j <= n THEN h[j] ELSE new[j - n]
      BY Appended DEF IsSequence, Fresh
    <2> HIDE DEF n, m, both
    <2>2. CASE \E j \in DOMAIN h : h[j] = incoming[i]
      <3>1. PICK j \in 1..n : h[j] = incoming[i]
        BY <2>1, <2>2
      <3>2. j \in 1..(n + m) /\ both[j] = incoming[i]
        BY <2>1, <3>1
      <3> QED
        BY <2>1, <3>2 DEF both
    <2>3. CASE \E k \in DOMAIN new : new[k] = incoming[i]
      <3>1. PICK k \in 1..m : new[k] = incoming[i]
        BY <2>1, <2>3
      <3>2. n + k \in 1..(n + m) /\ both[n + k] = incoming[i]
        BY <2>1, <3>1
      <3> QED
        BY <2>1, <3>2 DEF both
    <2> QED
      BY <2>2, <2>3 DEF Fresh
  <1> QED
    BY <1>1, <1>2 DEF Places

(* An append cut short has some of the lines, and perhaps a torn one.       *)
LEMMA CutIs ==
    ASSUME NEW new, IsSequence(new), NEW some \in CutShort(new)
    PROVE  /\ IsSequence(some)
           /\ \A k \in DOMAIN some : \/ some[k] = Malformed
                                     \/ k \in DOMAIN new /\ some[k] = new[k]
  <1> DEFINE m == Len(new)
  <1>1. m \in Nat /\ new = [i \in 1..m |-> new[i]]
    BY DEF IsSequence
  <1>2. PICK n \in 0..(m - 1) :
            some = SubSeq(new, 1, n) \/ some = Append(SubSeq(new, 1, n), Malformed)
    BY DEF CutShort
  <1> DEFINE cut == SubSeq(new, 1, n)
  <1>3. cut = [i \in 1..n |-> new[i]] /\ n \in Nat
    <2>1. new \in Seq({new[i] : i \in 1..m})
      BY <1>1
    <2> QED
      BY <1>1, <1>2, <2>1
  <1> HIDE DEF cut, m
  <1>4. cut = [i \in 1..n |-> cut[i]] /\ \A i \in 1..n : cut[i] = new[i]
    BY <1>3
  <1>5. IsSequence(cut) /\ Len(cut) = n
    BY <1>3, <1>4, SequenceOf
  <1>6. DOMAIN new = 1..m /\ DOMAIN cut = 1..n
    BY <1>1, <1>4
  <1>7. \A i \in 1..n : i \in DOMAIN new /\ cut[i] = new[i]
    <2>1. \A i \in 1..n : i \in 1..m
      BY <1>1, <1>3
    <2> QED
      BY <1>4, <1>6, <2>1
  <1>8. CASE some = cut
    BY <1>5, <1>6, <1>7, <1>8
  <1>9. CASE some = Append(cut, Malformed)
    <2> DEFINE S == {cut[i] : i \in 1..n} \cup {Malformed}
    <2>1. cut \in Seq(S) /\ Malformed \in S /\ Len(cut) = n
      BY <1>5 DEF IsSequence
    <2> HIDE DEF S
    <2>2. some \in Seq(S) /\ Len(some) = n + 1
      BY <1>3, <1>9, <2>1
    <2>3. some \in [1..(n + 1) -> S] /\ n + 1 \in Nat
      BY <1>3, <2>2
    <2>4. some = [i \in 1..(n + 1) |-> some[i]]
      BY <2>3
    <2>5. IsSequence(some) /\ DOMAIN some = 1..(n + 1)
      BY <2>3, <2>4, SequenceOf
    <2>6. \A i \in 1..n : some[i] = cut[i]
      BY <1>3, <1>9, <2>1
    <2>7. some[n + 1] = Malformed
      BY <1>3, <1>9, <2>1
    <2>8. \A i \in 1..(n + 1) : i \in 1..n \/ i = n + 1
      BY <1>3
    <2>9. \A i \in 1..(n + 1) : some[i] = Malformed \/ (i \in DOMAIN new /\ some[i] = new[i])
      BY <1>7, <2>6, <2>7, <2>8
    <2> QED
      BY <2>5, <2>9
  <1> QED
    BY <1>2, <1>8, <1>9 DEF cut

(* It adds a line that parses once where the whole append would.            *)
LEMMA CutAddsOnce ==
    ASSUME NEW new, IsSequence(new), NEW some \in CutShort(new), NEW h,
           NEW line, line # Malformed, AddsOnce(line, h, new)
    PROVE  AddsOnce(line, h, some)
  BY CutIs DEF AddsOnce

(* Prompts appended to prompts leave prompts, whole or cut short.           *)
LEMMA PromptsAppended ==
    ASSUME NEW h, IsSequence(h), NEW new, IsSequence(new),
           \A i \in DOMAIN h : IsPrompt(h[i]),
           \A k \in DOMAIN new : IsPrompt(new[k])
    PROVE  \A i \in DOMAIN (h \o new) : IsPrompt((h \o new)[i])
  <1> DEFINE n == Len(h)
             m == Len(new)
             both == h \o new
  <1>1. /\ n \in Nat /\ m \in Nat /\ DOMAIN h = 1..n /\ DOMAIN new = 1..m
        /\ DOMAIN both = 1..(n + m)
        /\ \A i \in 1..(n + m) : both[i] = IF i <= n THEN h[i] ELSE new[i - n]
    BY Appended DEF IsSequence
  <1> HIDE DEF n, m, both
  <1>2. ASSUME NEW i \in 1..(n + m)
        PROVE  IsPrompt(both[i])
    <2>1. CASE i <= n
      <3>1. i \in 1..n /\ both[i] = h[i]
        BY <1>1, <2>1
      <3> QED
        BY <1>1, <3>1
    <2>2. CASE ~(i <= n)
      <3>1. i - n \in 1..m /\ both[i] = new[i - n]
        BY <1>1, <2>2
      <3> QED
        BY <1>1, <3>1
    <2> QED
      BY <2>1, <2>2
  <1> QED
    BY <1>1, <1>2 DEF both

(* Index lines, likewise.                                                   *)
LEMMA EntriesAppended ==
    ASSUME NEW h, IsSequence(h), NEW new, IsSequence(new),
           \A i \in DOMAIN h : IsEntry(h[i]),
           \A k \in DOMAIN new : IsEntry(new[k])
    PROVE  \A i \in DOMAIN (h \o new) : IsEntry((h \o new)[i])
  <1> DEFINE n == Len(h)
             m == Len(new)
             both == h \o new
  <1>1. /\ n \in Nat /\ m \in Nat /\ DOMAIN h = 1..n /\ DOMAIN new = 1..m
        /\ DOMAIN both = 1..(n + m)
        /\ \A i \in 1..(n + m) : both[i] = IF i <= n THEN h[i] ELSE new[i - n]
    BY Appended DEF IsSequence
  <1> HIDE DEF n, m, both
  <1>2. ASSUME NEW i \in 1..(n + m)
        PROVE  IsEntry(both[i])
    <2>1. CASE i <= n
      <3>1. i \in 1..n /\ both[i] = h[i]
        BY <1>1, <2>1
      <3> QED
        BY <1>1, <3>1
    <2>2. CASE ~(i <= n)
      <3>1. i - n \in 1..m /\ both[i] = new[i - n]
        BY <1>1, <2>2
      <3> QED
        BY <1>1, <3>1
    <2> QED
      BY <2>1, <2>2
  <1> QED
    BY <1>1, <1>2 DEF both

(* Rollouts that agree on the types and ids of their lines are of one       *)
(* thread.                                                                  *)
LEMMA ThreadByTypesAndIds ==
    ASSUME NEW a, IsSequence(a), NEW b, DOMAIN b = DOMAIN a,
           \A i \in DOMAIN a : b[i].type = a[i].type /\ b[i].id = a[i].id
    PROVE  ThreadIDOf(b) = ThreadIDOf(a)
  <1> DEFINE named(r) == {i \in Meta(r) : r[i].id # ""}
             first == Min(named(a))
  <1>1. Meta(a) \subseteq DOMAIN a /\ Meta(b) = Meta(a)
    BY DEF Meta
  <1>2. named(b) = named(a) /\ named(a) \subseteq DOMAIN a
    BY <1>1
  <1>3. CASE named(a) = {}
    BY <1>2, <1>3 DEF ThreadIDOf
  <1>4. CASE named(a) # {}
    <2>1. named(a) \subseteq Nat
      <3>1. DOMAIN a \subseteq Nat
        BY DEF IsSequence
      <3> QED
        BY <1>2, <3>1
    <2>2. \E x \in named(a) : \A y \in named(a) : x <= y
      <3> HIDE DEF named
      <3> QED
        BY <1>4, <2>1, LeastNatural
    <2>3. first \in named(a)
      <3> HIDE DEF named
      <3> QED
        BY <2>2 DEF Min
    <2>4. first \in DOMAIN a
      BY <1>2, <2>3
    <2>5. ThreadIDOf(a) = a[first].id /\ ThreadIDOf(b) = b[first].id
      BY <1>2, <1>4 DEF ThreadIDOf
    <2> HIDE DEF first
    <2> QED
      BY <2>4, <2>5
  <1> QED
    BY <1>3, <1>4

(***************************************************************************)
(* The inductive invariant                                                 *)
(***************************************************************************)

ExportSteps == {"export", "failed", "exported"} \cup
    {"sessions", "archived", "classify", "read", "ids", "rollouts", "index", "sidecar",
     "history"}

AfterRead == {"ids", "rollouts", "index", "sidecar", "history", "exported"}

(* The ids of the threads whose files have this name.                       *)
IDsOf(files, name) ==
    {ThreadIDOf(files[f]) : f \in {g \in DOMAIN files : g.name = name}}

IDs(name) == IDsOf(setup.source.files, name) \cup IDsOf(setup.target.files, name)

OfItsThread(files) == \A f \in DOMAIN files : ThreadIDOf(files[f]) \in IDs(f.name)

(* The home that is exported, and what of it was left alone.                *)
SourceInv ==
    pc \in ExportSteps =>
        /\ IsHome(source) /\ OfItsThread(source.files)
        /\ kept = [files |-> kept.files, packed |-> kept.packed,
                   history |-> source.history, index |-> source.index,
                   dbs |-> source.dbs, listed |-> source.listed]
        /\ \A f \in DOMAIN kept.files :
              f \in DOMAIN source.files /\ source.files[f] = kept.files[f]
        /\ target = setup.target /\ ~primed

(* Every rollout of the project that was left alone is found.               *)
FoundInv ==
    /\ pc = "archived" => \A f \in DOMAIN kept.files : f.root = "sessions" => f \in found
    /\ pc = "classify" => DOMAIN kept.files \subseteq found
    /\ pc \in {"read"} \cup AfterRead => OfProject(kept.files) \subseteq found
    /\ pc = "read" => \A f \in found : IDs(f.name) \ {""} # {}

(* It is read as it is, and its thread is known.                            *)
ReadInv ==
    pc \in AfterRead =>
        /\ DOMAIN lines = found
        /\ \A f \in found : /\ IsFile(f) /\ IsRollout(lines[f])
                            /\ ThreadIDOf(lines[f]) \in IDs(f.name) \ {""}
        /\ \A f \in OfProject(kept.files) :
              lines[f] = kept.files[f] /\ ThreadIDOf(kept.files[f]) \in threadIDs
        /\ pc # "ids" => projectThreadIDs(kept) \subseteq threadIDs

(* What the archive has of it by now.                                       *)
RolloutsWritten ==
    \A f \in OfProject(kept.files) :
        f \in DOMAIN archive.origin /\ archive.origin[f] = kept.files[f]

IndexWritten ==
    \A i \in DOMAIN kept.index :
        kept.index[i] # Malformed /\ kept.index[i].id \in threadIDs =>
            Holds(archive.index, kept.index[i])

HistoryWritten ==
    \A i \in DOMAIN kept.history :
        kept.history[i] # Malformed /\ kept.history[i].session \in threadIDs =>
            Holds(archive.history, kept.history[i])

WithSessions == pc \in {"history", "exported"} /\ setup.selected.sessions

WrittenInv ==
    /\ pc \in {"index", "sidecar"} \/ WithSessions => RolloutsWritten
    /\ pc = "sidecar" \/ WithSessions => IndexWritten
    /\ pc = "exported" /\ setup.selected.history => HistoryWritten

(* The archive: its rollouts are those of the export line by line, of the   *)
(* thread of their name, and its lines parse.                               *)
ArchivedRollouts ==
    /\ DOMAIN archive.rollouts = DOMAIN archive.origin
    /\ \A f \in DOMAIN archive.origin :
          /\ IsFile(f) /\ IsRollout(archive.origin[f]) /\ IsRollout(archive.rollouts[f])
          /\ ThreadIDOf(archive.origin[f]) \in IDs(f.name) \ {""}
          /\ DOMAIN archive.rollouts[f] = DOMAIN archive.origin[f]
          /\ \A i \in DOMAIN archive.origin[f] :
                /\ archive.rollouts[f][i].type = archive.origin[f][i].type
                /\ archive.rollouts[f][i].id = archive.origin[f][i].id

ArchivedPrompts ==
    /\ IsSequence(archive.history)
    /\ \A i \in DOMAIN archive.history :
          IsPrompt(archive.history[i]) /\ archive.history[i].session # "none"

ArchivedEntries ==
    /\ IsSequence(archive.index)
    /\ \A i \in DOMAIN archive.index :
          archive.index[i] = [id |-> archive.index[i].id, text |-> archive.index[i].text]

ArchiveInv ==
    /\ archive = [rollouts |-> archive.rollouts, origin |-> archive.origin,
                  index |-> archive.index, sidecars |-> archive.sidecars,
                  history |-> archive.history]
    /\ ArchivedRollouts /\ ArchivedPrompts /\ ArchivedEntries

TargetInv == IsHome(target) /\ OfItsThread(target.files)

IncomingPrompts == ResolvedLines(archive.history)
IncomingEntries == ResolvedLines(archive.index)

(* Each line of the archive stands where it stood or once, and those that   *)
(* were merged are there.                                                   *)
MergeInv ==
    /\ \A i \in DOMAIN IncomingPrompts :
          KeptLine(IncomingPrompts[i], setup.target.history, target.history)
    /\ \A i \in DOMAIN IncomingEntries :
          KeptLine(IncomingEntries[i], setup.target.index, target.index)
    /\ pc \in {"merge index", "databases", "imported"} =>
          \A i \in DOMAIN IncomingPrompts : Places(target.history, IncomingPrompts[i]) # {}
    /\ pc \in {"databases", "imported"} =>
          \A i \in DOMAIN IncomingEntries : Places(target.index, IncomingEntries[i]) # {}

ArchivedThreads == {ThreadIDOf(archive.origin[f]) : f \in DOMAIN archive.origin}

(* A database whose next start takes in the threads on disk, and whose rows *)
(* have their sidecars.                                                     *)
Armed(db) ==
    /\ db.status = "pending" /\ db.watermark = "none"
    /\ \A id \in DOMAIN db.rows \cap DOMAIN archive.sidecars :
          db.rows[id].side = archive.sidecars[id]

HasTheRows(dbs) ==
    \E g \in DOMAIN dbs : /\ \A other \in DOMAIN dbs : other <= g
                          /\ ArchivedThreads \subseteq DOMAIN dbs[g].rows

(* Once an import has landed the threads are on disk, a database it is done *)
(* with is armed, and once Codex was started in between the newest database *)
(* has the rows.                                                            *)
SidecarInv ==
    /\ primed \in BOOLEAN
    /\ primed \/ pc \in {"merge history", "merge index", "databases", "imported"} =>
          ArchivedThreads \subseteq ThreadsOnDisk
    /\ pc \in {"databases", "imported"} /\ rolloutsStaged =>
          \A g \in DOMAIN target.dbs \ pending : Armed(target.dbs[g])
    /\ pc = "imported" => pending = {}
    /\ primed => HasTheRows(target.dbs)

IInv ==
    /\ setup \in Setups
    /\ SourceInv /\ FoundInv /\ ReadInv /\ WrittenInv
    /\ ArchiveInv /\ TargetInv /\ MergeInv /\ SidecarInv

(***************************************************************************)
(* The start, and what a step leaves alone                                 *)
(***************************************************************************)

(* All files of one name are of one thread.                                 *)
LEMMA OneID ==
    ASSUME setup \in Setups, NEW name, NEW a \in IDs(name), NEW b \in IDs(name)
    PROVE  a = b
  <1>1. /\ OneThread(setup.source.files, setup.source.files)
        /\ OneThread(setup.source.files, setup.target.files)
        /\ OneThread(setup.target.files, setup.target.files)
    BY SetupsAssumption
  <1>2. ASSUME NEW x, NEW y, NEW i \in IDsOf(x, name), NEW j \in IDsOf(y, name), OneThread(x, y)
        PROVE  i = j
    BY <1>2 DEF IDsOf, OneThread
  <1> QED
    BY <1>1, <1>2 DEF IDs

(* Initially nothing is written and everything is as it was.                *)
LEMMA InitIInv == InitTransfer => IInv
  <1> SUFFICES ASSUME InitTransfer PROVE IInv
    OBVIOUS
  <1>1. /\ setup \in Setups /\ source = setup.source /\ kept = setup.source
        /\ target = setup.target /\ pc = "export" /\ archive = NoArchive
        /\ primed = FALSE
    BY DEF InitTransfer, InitExport
  <1>2. IsHome(source) /\ IsHome(target)
    BY <1>1, SetupsAssumption
  <1>3. OfItsThread(source.files) /\ OfItsThread(target.files)
    BY <1>1 DEF OfItsThread, IDs, IDsOf
  <1>4. SourceInv
    <2>1. source = [files |-> source.files, packed |-> source.packed,
                    history |-> source.history, index |-> source.index,
                    dbs |-> source.dbs, listed |-> source.listed]
      BY <1>2 DEF IsHome
    <2> QED
      BY <1>1, <1>2, <1>3, <2>1 DEF SourceInv
  <1>5. FoundInv /\ ReadInv /\ WrittenInv
    BY <1>1 DEF FoundInv, ReadInv, WrittenInv, AfterRead, WithSessions
  <1>6. ArchiveInv
    <2>1. IsSequence(<<>>)
      BY DEF IsSequence
    <2> QED
      BY <1>1, <2>1 DEF ArchiveInv, NoArchive, ArchivedRollouts, ArchivedPrompts,
                        ArchivedEntries
  <1>7. TargetInv
    BY <1>2, <1>3 DEF TargetInv
  <1>8. MergeInv
    BY <1>1 DEF MergeInv, KeptLine
  <1>9. SidecarInv
    BY <1>1 DEF SidecarInv
  <1> QED
    BY <1>1, <1>4, <1>5, <1>6, <1>7, <1>8, <1>9 DEF IInv

(* What is said of a home stays true while the paths are the same.          *)
LEMMA SameSetup ==
    ASSUME setup' = setup
    PROVE  /\ \A name : IDs(name)' = IDs(name)
           /\ \A files : OfItsThread(files)' <=> OfItsThread(files)
           /\ \A files : OfProject(files)' = OfProject(files)
           /\ \A home : projectThreadIDs(home)' = projectThreadIDs(home)
  <1>1. \A name : IDs(name)' = IDs(name)
    BY DEF IDs
  <1>2. \A files : OfItsThread(files)' <=> OfItsThread(files)
    BY <1>1 DEF OfItsThread, IDs
  <1>3. \A files : OfProject(files)' = OfProject(files)
    BY DEF OfProject, identityMatchesProject
  <1>4. \A home : projectThreadIDs(home)' = projectThreadIDs(home)
    BY DEF projectThreadIDs, rowsOfProject
  <1> QED
    BY <1>1, <1>2, <1>3, <1>4

(* The machine that imports is as it was while the other one exports.       *)
LEMMA ExportFrame ==
    ASSUME IInv, pc \in ExportSteps, pc' \in ExportSteps,
           setup' = setup, target' = target, primed' = primed
    PROVE  TargetInv' /\ MergeInv' /\ SidecarInv' /\ setup' \in Setups
  <1>1. target = setup.target /\ ~primed /\ primed \in BOOLEAN
    BY DEF IInv, SourceInv, SidecarInv
  <1>2. TargetInv'
    BY SameSetup DEF IInv, TargetInv
  <1>3. MergeInv'
    BY <1>1 DEF MergeInv, KeptLine, ExportSteps
  <1>4. SidecarInv'
    BY <1>1 DEF SidecarInv, ExportSteps
  <1> QED
    BY <1>2, <1>3, <1>4 DEF IInv

(* The source is as it was.                                                 *)
LEMMA SourceFrame ==
    ASSUME IInv, pc \in ExportSteps, pc' \in ExportSteps,
           setup' = setup, target' = target, primed' = primed,
           source' = source, kept' = kept
    PROVE  SourceInv' /\ (OfProject(kept.files))' = OfProject(kept.files)
           /\ (projectThreadIDs(kept))' = projectThreadIDs(kept)
  <1>1. (OfProject(kept.files))' = OfProject(kept.files)
    BY SameSetup DEF OfProject, identityMatchesProject
  <1>2. (projectThreadIDs(kept))' = projectThreadIDs(kept)
    BY DEF projectThreadIDs, rowsOfProject
  <1>3. SourceInv'
    BY SameSetup DEF IInv, SourceInv
  <1> QED
    BY <1>1, <1>2, <1>3

(* So is the archive.                                                       *)
LEMMA ArchiveFrame ==
    ASSUME IInv, setup' = setup, archive' = archive
    PROVE  ArchiveInv'
  BY SameSetup DEF IInv, ArchiveInv, ArchivedRollouts, ArchivedPrompts, ArchivedEntries

(* An archive whose rollouts are the same.                                  *)
LEMMA ArchivedRolloutsFrame ==
    ASSUME ArchivedRollouts, setup' = setup,
           archive'.rollouts = archive.rollouts, archive'.origin = archive.origin
    PROVE  ArchivedRollouts'
  <1>1. \A name : IDs(name)' = IDs(name)
    BY SameSetup
  <1> DEFINE Good(f, origin, rollouts) ==
                /\ IsFile(f) /\ IsRollout(origin[f]) /\ IsRollout(rollouts[f])
                /\ DOMAIN rollouts[f] = DOMAIN origin[f]
                /\ \A i \in DOMAIN origin[f] : /\ rollouts[f][i].type = origin[f][i].type
                                               /\ rollouts[f][i].id = origin[f][i].id
  <1>2. \A f \in DOMAIN archive.origin :
           Good(f, archive.origin, archive.rollouts)
           /\ ThreadIDOf(archive.origin[f]) \in IDs(f.name) \ {""}
    BY DEF ArchivedRollouts
  <1>3. \A f \in DOMAIN archive'.origin : Good(f, archive'.origin, archive'.rollouts)
    <2> HIDE DEF Good
    <2> QED
      BY <1>2
  <1>4. \A f \in DOMAIN archive'.origin : ThreadIDOf(archive'.origin[f]) \in IDs(f.name)' \ {""}
    BY <1>1, <1>2
  <1>5. DOMAIN archive'.rollouts = DOMAIN archive'.origin
    BY DEF ArchivedRollouts
  <1> QED
    BY <1>3, <1>4, <1>5 DEF ArchivedRollouts

(***************************************************************************)
(* The steps of the export                                                 *)
(***************************************************************************)

(* Export is asked about a project it knows or does not.                    *)
LEMMA BeginIInv ==
    ASSUME IInv, Begin, UNCHANGED <<target, pending, runs, primed>>
    PROVE  IInv'
  <1>1. /\ pc \in ExportSteps /\ pc' \in {"sessions", "failed"} /\ pc' \in ExportSteps
        /\ setup' = setup /\ source' = source /\ kept' = kept /\ archive' = archive
        /\ target' = target /\ primed' = primed
    BY DEF Begin, ExportSteps
  <1>2. TargetInv' /\ MergeInv' /\ SidecarInv' /\ SourceInv' /\ ArchiveInv' /\ setup' \in Setups
    BY <1>1, ExportFrame, SourceFrame, ArchiveFrame
  <1>3. FoundInv' /\ ReadInv' /\ WrittenInv'
    BY <1>1 DEF FoundInv, ReadInv, WrittenInv, AfterRead, WithSessions
  <1> QED
    BY <1>2, <1>3 DEF IInv

(* The first walk finds what is in the root of the running threads.         *)
LEMMA WalkSessionsIInv ==
    ASSUME IInv, WalkSessions, UNCHANGED <<target, pending, runs, primed>>
    PROVE  IInv'
  <1>1. /\ pc \in ExportSteps /\ pc' = "archived" /\ pc' \in ExportSteps
        /\ setup' = setup /\ source' = source /\ kept' = kept /\ archive' = archive
        /\ target' = target /\ primed' = primed
        /\ found' = In("sessions", DOMAIN source.files \cup source.packed)
    BY DEF WalkSessions, ExportSteps
  <1>2. TargetInv' /\ MergeInv' /\ SidecarInv' /\ SourceInv' /\ ArchiveInv' /\ setup' \in Setups
    BY <1>1, ExportFrame, SourceFrame, ArchiveFrame
  <1>3. FoundInv'
    BY <1>1 DEF IInv, SourceInv, FoundInv, AfterRead, In
  <1>4. ReadInv' /\ WrittenInv'
    BY <1>1 DEF ReadInv, WrittenInv, AfterRead, WithSessions
  <1> QED
    BY <1>2, <1>3, <1>4 DEF IInv

(* The second walk finds the rest, if nothing is compressed only.           *)
LEMMA WalkArchivedIInv ==
    ASSUME IInv, WalkArchived, UNCHANGED <<target, pending, runs, primed>>
    PROVE  IInv'
  <1>1. /\ pc \in ExportSteps /\ pc = "archived"
        /\ pc' \in {"classify", "failed"} /\ pc' \in ExportSteps
        /\ setup' = setup /\ source' = source /\ kept' = kept /\ archive' = archive
        /\ target' = target /\ primed' = primed
        /\ found' = found \cup In("archived", DOMAIN source.files \cup source.packed)
    BY DEF WalkArchived, ExportSteps
  <1>2. TargetInv' /\ MergeInv' /\ SidecarInv' /\ SourceInv' /\ ArchiveInv' /\ setup' \in Setups
    BY <1>1, ExportFrame, SourceFrame, ArchiveFrame
  <1>3. \A f \in DOMAIN kept.files :
           f \in DOMAIN source.files /\ f.root \in {"sessions", "archived"}
    BY <1>1 DEF IInv, SourceInv, IsHome, IsFile
  <1>4. \A f \in DOMAIN kept.files : f.root = "sessions" => f \in found
    BY <1>1 DEF IInv, FoundInv
  <1>5. DOMAIN kept.files \subseteq found'
    BY <1>1, <1>3, <1>4 DEF In
  <1>6. FoundInv'
    BY <1>1, <1>5 DEF FoundInv, AfterRead
  <1>7. ReadInv' /\ WrittenInv'
    BY <1>1 DEF ReadInv, WrittenInv, AfterRead, WithSessions
  <1> QED
    BY <1>2, <1>6, <1>7 DEF IInv

(* The first read keeps the files of the project, all of them named.        *)
LEMMA ClassifyIInv ==
    ASSUME IInv, Classify, UNCHANGED <<target, pending, runs, primed>>
    PROVE  IInv'
  <1>1. /\ pc \in ExportSteps /\ pc = "classify"
        /\ pc' \in {"read", "failed"} /\ pc' \in ExportSteps
        /\ setup' = setup /\ source' = source /\ kept' = kept /\ archive' = archive
        /\ target' = target /\ primed' = primed
        /\ pc' = "read" =>
              /\ found \subseteq DOMAIN source.files
              /\ \A f \in found : ~Unnamed(source.files[f])
              /\ found' = {f \in found : identityMatchesProject(source.files[f])}
    BY DEF Classify, ExportSteps, Missing
  <1>2. TargetInv' /\ MergeInv' /\ SidecarInv' /\ SourceInv' /\ ArchiveInv' /\ setup' \in Setups
    BY <1>1, ExportFrame, SourceFrame, ArchiveFrame
  <1>3. (OfProject(kept.files))' = OfProject(kept.files)
    BY <1>1, SourceFrame
  <1>4. ASSUME pc' = "read" PROVE OfProject(kept.files) \subseteq found'
    <2>1. \A f \in OfProject(kept.files) :
             f \in DOMAIN kept.files /\ identityMatchesProject(kept.files[f])
      BY DEF OfProject
    <2>2. \A f \in DOMAIN kept.files : f \in found /\ source.files[f] = kept.files[f]
      BY <1>1 DEF IInv, FoundInv, SourceInv
    <2> QED
      BY <1>1, <1>4, <2>1, <2>2
  <1>5. ASSUME pc' = "read", NEW f \in found' PROVE IDs(f.name)' \ {""} # {}
    <2>1. f \in DOMAIN source.files /\ ThreadIDOf(source.files[f]) # ""
      BY <1>1, <1>5 DEF Unnamed
    <2>2. ThreadIDOf(source.files[f]) \in IDs(f.name)
      BY <1>1, <2>1 DEF IInv, SourceInv, OfItsThread
    <2> QED
      BY <1>1, <2>1, <2>2, SameSetup
  <1>6. FoundInv'
    BY <1>1, <1>3, <1>4, <1>5 DEF FoundInv, AfterRead
  <1>7. ReadInv' /\ WrittenInv'
    BY <1>1 DEF ReadInv, WrittenInv, AfterRead, WithSessions
  <1> QED
    BY <1>2, <1>6, <1>7 DEF IInv

(* The second read keeps their lines, and each has the thread of its name.  *)
LEMMA ReadIInv ==
    ASSUME IInv, readAndIdentifyRollouts, UNCHANGED <<target, pending, runs, primed>>
    PROVE  IInv'
  <1>1. /\ pc \in ExportSteps /\ pc = "read" /\ found' = found
        /\ pc' \in {"ids", "failed"} /\ pc' \in ExportSteps
        /\ setup' = setup /\ source' = source /\ kept' = kept /\ archive' = archive
        /\ target' = target /\ primed' = primed
        /\ pc' = "ids" =>
              /\ found \subseteq DOMAIN source.files
              /\ lines' = [file \in found |-> source.files[file]]
              /\ threadIDs' = {ThreadIDOf(source.files[file]) : file \in found}
    BY DEF readAndIdentifyRollouts, ExportSteps, Missing
  <1>2. TargetInv' /\ MergeInv' /\ SidecarInv' /\ SourceInv' /\ ArchiveInv' /\ setup' \in Setups
    BY <1>1, ExportFrame, SourceFrame, ArchiveFrame
  <1>3. (OfProject(kept.files))' = OfProject(kept.files)
    BY <1>1, SourceFrame
  <1>4. OfProject(kept.files) \subseteq found
    BY <1>1 DEF IInv, FoundInv
  <1>5. FoundInv'
    BY <1>1, <1>3, <1>4 DEF FoundInv, AfterRead
  <1>6. ASSUME pc' = "ids", NEW f \in found
        PROVE  /\ IsFile(f) /\ IsRollout(lines'[f])
               /\ ThreadIDOf(lines'[f]) \in IDs(f.name) \ {""}
    <2>1. f \in DOMAIN source.files /\ lines'[f] = source.files[f]
      BY <1>1, <1>6
    <2>2. /\ IsFile(f) /\ IsRollout(source.files[f])
          /\ ThreadIDOf(source.files[f]) \in IDs(f.name)
      BY <1>1, <2>1 DEF IInv, SourceInv, IsHome, OfItsThread
    <2>3. PICK id \in IDs(f.name) : id # ""
      BY <1>1 DEF IInv, FoundInv
    <2>4. ThreadIDOf(source.files[f]) = id
      BY <2>2, <2>3, OneID DEF IInv
    <2> QED
      BY <2>1, <2>2, <2>3, <2>4
  <1>7. ASSUME pc' = "ids", NEW f \in OfProject(kept.files)
        PROVE  lines'[f] = kept.files[f] /\ ThreadIDOf(kept.files[f]) \in threadIDs'
    <2>1. f \in found /\ f \in DOMAIN kept.files
      BY <1>4 DEF OfProject
    <2>2. source.files[f] = kept.files[f]
      BY <1>1, <2>1 DEF IInv, SourceInv
    <2> QED
      BY <1>1, <1>7, <2>1, <2>2
  <1>8. ReadInv'
    <2>1. \A name : IDs(name)' = IDs(name)
      BY <1>1, SameSetup
    <2> QED
      BY <1>1, <1>3, <1>6, <1>7, <2>1 DEF ReadInv, AfterRead
  <1>9. WrittenInv'
    BY <1>1 DEF WrittenInv, WithSessions
  <1> QED
    BY <1>2, <1>5, <1>8, <1>9 DEF IInv

(* The lines at some positions, with placeholders in their texts.           *)
LEMMA AnonymizedLines ==
    ASSUME NEW seq, IsSequence(seq), NEW P \in SUBSET (DOMAIN seq)
    PROVE  LET out == AnonymizedTexts(Subsequence(seq, P))
           IN /\ IsSequence(out)
              /\ \A k \in DOMAIN out : \E p \in P :
                    out[k] = [seq[p] EXCEPT !.text = ApplyPlaceholders(@)]
              /\ \A p \in P : Holds(out, seq[p])
  <1> DEFINE own == Subsequence(seq, P)
             out == AnonymizedTexts(own)
  <1>1. Len(seq) \in Nat /\ P \in SUBSET (1..Len(seq))
    BY DEF IsSequence
  <1>2. HasEntriesAt(own, seq, P)
    BY <1>1, SubsequenceIs
  <1> HIDE DEF own
  <1>3. PICK m \in Nat : \E at \in [1..m -> P] :
              /\ own = [k \in 1..m |-> seq[at[k]]]
              /\ \A p \in P : \E k \in 1..m : at[k] = p
    BY <1>2 DEF HasEntriesAt
  <1>4. PICK at \in [1..m -> P] :
              /\ own = [k \in 1..m |-> seq[at[k]]]
              /\ \A p \in P : \E k \in 1..m : at[k] = p
    BY <1>3
  <1>5. out = [k \in 1..m |-> [seq[at[k]] EXCEPT !.text = ApplyPlaceholders(@)]]
    BY <1>4 DEF AnonymizedTexts
  <1> HIDE DEF out
  <1>6. out = [k \in 1..m |-> out[k]]
    BY <1>5
  <1>7. IsSequence(out) /\ DOMAIN out = 1..m
    BY <1>6, SequenceOf
  <1>8. ASSUME NEW k \in 1..m
        PROVE  \E p \in P : out[k] = [seq[p] EXCEPT !.text = ApplyPlaceholders(@)]
    BY <1>4, <1>5
  <1>9. ASSUME NEW p \in P PROVE Holds(out, seq[p])
    <2>1. PICK k \in 1..m : at[k] = p
      BY <1>4
    <2>2. out[k] = [seq[p] EXCEPT !.text = ApplyPlaceholders(@)]
      BY <1>5, <2>1
    <2> QED
      BY <1>7, <2>2 DEF Holds
  <1> QED
    BY <1>7, <1>8, <1>9 DEF out, own

(* The threads that only a database knows are added.                        *)
LEMMA IdentifyIInv ==
    ASSUME IInv, IdentifyThreads, UNCHANGED <<target, pending, runs, primed>>
    PROVE  IInv'
  <1>1. /\ pc \in ExportSteps /\ pc = "ids" /\ found' = found /\ lines' = lines
        /\ pc' \in {"rollouts", "history"} /\ pc' \in ExportSteps
        /\ pc' = "history" => ~setup.selected.sessions
        /\ setup' = setup /\ source' = source /\ kept' = kept /\ archive' = archive
        /\ target' = target /\ primed' = primed
        /\ threadIDs' = threadIDs \cup projectThreadIDs(source)
    BY DEF IdentifyThreads, ExportSteps, projectThreadIDSet
  <1>2. TargetInv' /\ MergeInv' /\ SidecarInv' /\ SourceInv' /\ ArchiveInv' /\ setup' \in Setups
    BY <1>1, ExportFrame, SourceFrame, ArchiveFrame
  <1>3. /\ (OfProject(kept.files))' = OfProject(kept.files)
        /\ (projectThreadIDs(kept))' = projectThreadIDs(kept)
    BY <1>1, SourceFrame
  <1>4. projectThreadIDs(kept) = projectThreadIDs(source)
    <2>1. kept.dbs = source.dbs
      BY <1>1 DEF IInv, SourceInv, IsHome
    <2> QED
      BY <2>1 DEF projectThreadIDs
  <1>5. FoundInv'
    BY <1>1, <1>3 DEF IInv, FoundInv, AfterRead
  <1>6. ReadInv'
    <2>1. \A name : IDs(name)' = IDs(name)
      BY <1>1, SameSetup
    <2>2. /\ DOMAIN lines = found
          /\ \A f \in found : /\ IsFile(f) /\ IsRollout(lines[f])
                              /\ ThreadIDOf(lines[f]) \in IDs(f.name) \ {""}
          /\ \A f \in OfProject(kept.files) :
                lines[f] = kept.files[f] /\ ThreadIDOf(kept.files[f]) \in threadIDs
      BY <1>1 DEF IInv, ReadInv, AfterRead
    <2> QED
      BY <1>1, <1>3, <1>4, <2>1, <2>2 DEF ReadInv
  <1>7. WrittenInv'
    BY <1>1 DEF WrittenInv, WithSessions
  <1> QED
    BY <1>2, <1>5, <1>6, <1>7 DEF IInv

(* After the reads, a step that keeps what was read keeps what is said of   *)
(* it.                                                                      *)
LEMMA ReadFrame ==
    ASSUME IInv, pc \in AfterRead \ {"ids"}, pc' \in AfterRead \cup {"failed"},
           setup' = setup, source' = source, kept' = kept, found' = found,
           lines' = lines, threadIDs' = threadIDs
    PROVE  FoundInv' /\ ReadInv' /\ (OfProject(kept.files))' = OfProject(kept.files)
  <1>1. /\ (OfProject(kept.files))' = OfProject(kept.files)
        /\ (projectThreadIDs(kept))' = projectThreadIDs(kept)
        /\ \A name : IDs(name)' = IDs(name)
    BY SameSetup DEF OfProject, identityMatchesProject, projectThreadIDs, rowsOfProject
  <1>2. FoundInv'
    BY <1>1 DEF IInv, FoundInv, AfterRead
  <1>3. ReadInv'
    BY <1>1 DEF IInv, ReadInv, AfterRead
  <1> QED
    BY <1>1, <1>2, <1>3

(* A line with another directory and another text keeps its type and id.    *)
LEMMA LineRewritten ==
    ASSUME NEW l, IsLine(l), NEW a, NEW b
    PROVE  LET new == [l EXCEPT !.cwd = a, !.text = b]
           IN IsLine(new) /\ new.type = l.type /\ new.id = l.id
  <1>1. PICK type, id, cwd, text :
            l = [type |-> type, id |-> id, cwd |-> cwd, text |-> text]
    BY DEF IsLine
  <1>2. PICK moved : moved = [l EXCEPT !.cwd = a]
    OBVIOUS
  <1>3. moved = [type |-> type, id |-> id, cwd |-> a, text |-> text]
    BY <1>1, <1>2
  <1>4. [moved EXCEPT !.text = b] = [type |-> type, id |-> id, cwd |-> a, text |-> b]
    BY ONLY <1>3
  <1>5. [l EXCEPT !.cwd = a, !.text = b] = [[l EXCEPT !.cwd = a] EXCEPT !.text = b]
    BY <1>1
  <1>6. [l EXCEPT !.cwd = a, !.text = b] = [type |-> type, id |-> id, cwd |-> a, text |-> b]
    BY <1>2, <1>4, <1>5
  <1> QED
    BY <1>1, <1>6 DEF IsLine

(* So does one with placeholders.                                           *)
LEMMA AnonymizedLine ==
    ASSUME NEW l, IsLine(l)
    PROVE  /\ IsLine(Anonymized(l))
           /\ Anonymized(l).type = l.type /\ Anonymized(l).id = l.id
  BY LineRewritten DEF Anonymized

(* The rollouts are written as they were read, line by line.                *)
LEMMA WriteRolloutsIInv ==
    ASSUME IInv, WriteRollouts, UNCHANGED <<target, pending, runs, primed>>
    PROVE  IInv'
  <1>1. /\ pc \in ExportSteps /\ pc = "rollouts" /\ found' = found /\ lines' = lines
        /\ pc' \in {"index", "failed"} /\ pc' \in ExportSteps
        /\ setup' = setup /\ source' = source /\ kept' = kept
        /\ target' = target /\ primed' = primed /\ threadIDs' = threadIDs
        /\ pc' = "failed" => archive' = archive
        /\ pc' = "index" =>
              archive' = [archive EXCEPT
                  !.rollouts = [file \in found |->
                      [i \in DOMAIN lines[file] |-> Anonymized(lines[file][i])]],
                  !.origin = lines]
    BY DEF WriteRollouts, ExportSteps
  <1>2. TargetInv' /\ MergeInv' /\ SidecarInv' /\ SourceInv' /\ setup' \in Setups
    BY <1>1, ExportFrame, SourceFrame
  <1>3. FoundInv' /\ ReadInv' /\ (OfProject(kept.files))' = OfProject(kept.files)
    BY <1>1, ReadFrame DEF AfterRead
  <1>4. /\ DOMAIN lines = found
        /\ \A f \in found : /\ IsFile(f) /\ IsRollout(lines[f])
                            /\ ThreadIDOf(lines[f]) \in IDs(f.name) \ {""}
        /\ \A f \in OfProject(kept.files) : lines[f] = kept.files[f]
    BY <1>1 DEF IInv, ReadInv, AfterRead
  <1>5. CASE pc' = "failed"
    <2>1. ArchiveInv' /\ WrittenInv'
      BY <1>1, <1>5, ArchiveFrame DEF WrittenInv, WithSessions
    <2> QED
      BY <1>2, <1>3, <2>1 DEF IInv
  <1>6. CASE pc' = "index"
    <2> DEFINE written == [file \in found |->
                              [i \in DOMAIN lines[file] |-> Anonymized(lines[file][i])]]
    <2>1. /\ archive' = [rollouts |-> written, origin |-> lines,
                         index |-> archive.index, sidecars |-> archive.sidecars,
                         history |-> archive.history]
      BY <1>1, <1>6 DEF IInv, ArchiveInv
    <2>2. ASSUME NEW f \in found
          PROVE  /\ IsRollout(written[f]) /\ DOMAIN written[f] = DOMAIN lines[f]
                 /\ \A i \in DOMAIN lines[f] : /\ written[f][i].type = lines[f][i].type
                                               /\ written[f][i].id = lines[f][i].id
      <3>1. /\ Len(lines[f]) \in Nat /\ DOMAIN lines[f] = 1..Len(lines[f])
            /\ \A i \in DOMAIN lines[f] : IsLine(lines[f][i])
        BY <1>4 DEF IsRollout, IsSequence
      <3>2. written[f] = [i \in DOMAIN lines[f] |-> Anonymized(lines[f][i])]
        OBVIOUS
      <3>3. \A i \in DOMAIN lines[f] :
               /\ IsLine(Anonymized(lines[f][i]))
               /\ Anonymized(lines[f][i]).type = lines[f][i].type
               /\ Anonymized(lines[f][i]).id = lines[f][i].id
        BY <3>1, AnonymizedLine
      <3> HIDE DEF written
      <3>4. IsSequence(written[f])
        <4>1. written[f] = [i \in 1..Len(lines[f]) |-> written[f][i]]
          BY <3>1, <3>2
        <4> QED
          BY <3>1, <4>1, SequenceOf
      <3> QED
        BY <3>2, <3>3, <3>4 DEF IsRollout
    <2>3. ArchiveInv'
      <3>1. \A name : IDs(name)' = IDs(name)
        BY <1>1, SameSetup
      <3>2. DOMAIN written = found
        OBVIOUS
      <3> HIDE DEF written
      <3>3. /\ archive'.rollouts = written /\ archive'.origin = lines
            /\ archive'.history = archive.history /\ archive'.index = archive.index
            /\ archive' = [rollouts |-> archive'.rollouts, origin |-> archive'.origin,
                           index |-> archive'.index, sidecars |-> archive'.sidecars,
                           history |-> archive'.history]
        BY <2>1
      <3>4. ArchivedRollouts'
        BY <1>4, <2>2, <3>1, <3>2, <3>3 DEF ArchivedRollouts
      <3>5. ArchivedPrompts' /\ ArchivedEntries'
        BY <3>3 DEF IInv, ArchiveInv, ArchivedPrompts, ArchivedEntries
      <3> QED
        BY <3>3, <3>4, <3>5 DEF ArchiveInv
    <2>4. RolloutsWritten'
      <3>1. \A f \in OfProject(kept.files) : f \in found
        BY <1>1 DEF IInv, FoundInv, AfterRead
      <3>2. archive'.origin = lines
        BY <2>1
      <3> QED
        BY <1>1, <1>3, <1>4, <3>1, <3>2 DEF RolloutsWritten
    <2>5. WrittenInv'
      BY <1>6, <2>4 DEF WrittenInv, WithSessions
    <2> QED
      BY <1>2, <1>3, <2>3, <2>5 DEF IInv
  <1> QED
    BY <1>1, <1>5, <1>6

(* Nor does what the archive holds of a line depend on more than the paths.  *)
LEMMA HoldsFrame ==
    ASSUME setup' = setup
    PROVE  \A written, read : Holds(written, read)' <=> Holds(written, read)
  BY DEF Holds, ApplyPlaceholders, Placeholders

(* The index lines of the threads are written.                              *)
LEMMA IndexIInv ==
    ASSUME IInv, exportSessionIndex, UNCHANGED <<target, pending, runs, primed>>
    PROVE  IInv'
  <1> DEFINE new == AnonymizedTexts(Subsequence(source.index, OwnEntries))
  <1>1. /\ pc \in ExportSteps /\ pc = "index" /\ found' = found /\ lines' = lines
        /\ pc' = "sidecar" /\ pc' \in ExportSteps
        /\ setup' = setup /\ source' = source /\ kept' = kept
        /\ target' = target /\ primed' = primed /\ threadIDs' = threadIDs
        /\ archive' = [archive EXCEPT !.index = new]
    BY DEF exportSessionIndex, ExportSteps
  <1>2. TargetInv' /\ MergeInv' /\ SidecarInv' /\ SourceInv' /\ setup' \in Setups
    BY <1>1, ExportFrame, SourceFrame
  <1>3. FoundInv' /\ ReadInv' /\ (OfProject(kept.files))' = OfProject(kept.files)
    BY <1>1, ReadFrame DEF AfterRead
  <1>4. /\ IsSequence(source.index) /\ \A i \in DOMAIN source.index : IsEntry(source.index[i])
        /\ kept.index = source.index
    BY <1>1 DEF IInv, SourceInv, IsHome
  <1>5. OwnEntries \in SUBSET (DOMAIN source.index)
    BY DEF OwnEntries
  <1>6. /\ IsSequence(new)
        /\ \A k \in DOMAIN new : \E p \in OwnEntries :
              new[k] = [source.index[p] EXCEPT !.text = ApplyPlaceholders(@)]
        /\ \A p \in OwnEntries : Holds(new, source.index[p])
    BY <1>4, <1>5, AnonymizedLines
  <1>7. ASSUME NEW k \in DOMAIN new
        PROVE  new[k] = [id |-> new[k].id, text |-> new[k].text]
    <2>1. PICK p \in OwnEntries : new[k] = [source.index[p] EXCEPT !.text = ApplyPlaceholders(@)]
      BY <1>6
    <2>2. PICK id, text : source.index[p] = [id |-> id, text |-> text]
      BY <1>4 DEF OwnEntries, IsEntry
    <2> HIDE DEF new
    <2>3. new[k] = [id |-> id, text |-> ApplyPlaceholders(text)]
      BY <2>1, <2>2
    <2> QED
      BY <2>3
  <1> HIDE DEF new
  <1>8. /\ archive' = [rollouts |-> archive.rollouts, origin |-> archive.origin,
                       index |-> new, sidecars |-> archive.sidecars,
                       history |-> archive.history]
    BY <1>1 DEF IInv, ArchiveInv
  <1>9. /\ archive'.rollouts = archive.rollouts /\ archive'.origin = archive.origin
        /\ archive'.index = new /\ archive'.history = archive.history
        /\ archive' = [rollouts |-> archive'.rollouts, origin |-> archive'.origin,
                       index |-> archive'.index, sidecars |-> archive'.sidecars,
                       history |-> archive'.history]
    BY <1>8
  <1>10. ArchiveInv'
    <2>1. ArchivedRollouts' /\ ArchivedPrompts'
      BY <1>1, <1>9, ArchivedRolloutsFrame DEF IInv, ArchiveInv, ArchivedPrompts
    <2>2. ArchivedEntries'
      BY <1>6, <1>7, <1>9 DEF ArchivedEntries
    <2> QED
      BY <1>9, <2>1, <2>2 DEF ArchiveInv
  <1>11. RolloutsWritten'
    BY <1>1, <1>3, <1>9 DEF IInv, WrittenInv, RolloutsWritten
  <1>12. IndexWritten'
    <2>1. ASSUME NEW i \in DOMAIN kept.index,
                 kept.index[i] # Malformed, kept.index[i].id \in threadIDs
          PROVE  Holds(new, kept.index[i])
      <3>1. i \in OwnEntries
        BY <1>4, <2>1 DEF OwnEntries
      <3> QED
        BY <1>4, <1>6, <3>1
    <2>2. \A written, read : Holds(written, read)' <=> Holds(written, read)
      BY <1>1, HoldsFrame
    <2> QED
      BY <1>1, <1>9, <2>1, <2>2 DEF IndexWritten
  <1>13. WrittenInv'
    BY <1>1, <1>11, <1>12 DEF WrittenInv, WithSessions
  <1> QED
    BY <1>2, <1>3, <1>10, <1>13 DEF IInv

(* The sidecars of the threads are written.                                 *)
LEMMA SidecarIInv ==
    ASSUME IInv, exportThreadSidecar, UNCHANGED <<target, pending, runs, primed>>
    PROVE  IInv'
  <1>1. /\ pc \in ExportSteps /\ pc = "sidecar" /\ found' = found /\ lines' = lines
        /\ pc' \in {"history", "exported"} /\ pc' \in ExportSteps
        /\ pc' = "exported" => ~setup.selected.history
        /\ setup' = setup /\ source' = source /\ kept' = kept
        /\ target' = target /\ primed' = primed /\ threadIDs' = threadIDs
    BY DEF exportThreadSidecar, ExportSteps
  <1>2. PICK new : archive' = [archive EXCEPT !.sidecars = new]
    BY DEF exportThreadSidecar
  <1>3. TargetInv' /\ MergeInv' /\ SidecarInv' /\ SourceInv' /\ setup' \in Setups
    BY <1>1, ExportFrame, SourceFrame
  <1>4. FoundInv' /\ ReadInv' /\ (OfProject(kept.files))' = OfProject(kept.files)
    BY <1>1, ReadFrame DEF AfterRead
  <1>5. archive' = [rollouts |-> archive.rollouts, origin |-> archive.origin,
                    index |-> archive.index, sidecars |-> new,
                    history |-> archive.history]
    BY <1>2 DEF IInv, ArchiveInv
  <1>6. /\ archive'.rollouts = archive.rollouts /\ archive'.origin = archive.origin
        /\ archive'.index = archive.index /\ archive'.history = archive.history
        /\ archive' = [rollouts |-> archive'.rollouts, origin |-> archive'.origin,
                       index |-> archive'.index, sidecars |-> archive'.sidecars,
                       history |-> archive'.history]
    BY <1>5
  <1>7. ArchiveInv'
    <2>1. ArchivedRollouts' /\ ArchivedPrompts' /\ ArchivedEntries'
      BY <1>1, <1>6, ArchivedRolloutsFrame
         DEF IInv, ArchiveInv, ArchivedPrompts, ArchivedEntries
    <2> QED
      BY <1>6, <2>1 DEF ArchiveInv
  <1>8. RolloutsWritten'
    BY <1>1, <1>4, <1>6 DEF IInv, WrittenInv, RolloutsWritten
  <1>9. IndexWritten'
    <2>1. \A written, read : Holds(written, read)' <=> Holds(written, read)
      BY <1>1, HoldsFrame
    <2>2. IndexWritten
      BY <1>1 DEF IInv, WrittenInv
    <2> QED
      BY <1>1, <1>6, <2>1, <2>2 DEF IndexWritten
  <1>10. WrittenInv'
    BY <1>1, <1>8, <1>9 DEF WrittenInv, WithSessions
  <1> QED
    BY <1>3, <1>4, <1>7, <1>10 DEF IInv

(* The prompts of the threads are written.                                  *)
LEMMA HistoryIInv ==
    ASSUME IInv, exportHistory, UNCHANGED <<target, pending, runs, primed>>
    PROVE  IInv'
  <1> DEFINE new == AnonymizedTexts(Subsequence(source.history, OwnPrompts))
  <1>1. /\ pc \in ExportSteps /\ pc = "history" /\ found' = found /\ lines' = lines
        /\ pc' = "exported" /\ pc' \in ExportSteps
        /\ setup' = setup /\ source' = source /\ kept' = kept
        /\ target' = target /\ primed' = primed /\ threadIDs' = threadIDs
        /\ archive' = [archive EXCEPT !.history = new]
    BY DEF exportHistory, ExportSteps
  <1>2. TargetInv' /\ MergeInv' /\ SidecarInv' /\ SourceInv' /\ setup' \in Setups
    BY <1>1, ExportFrame, SourceFrame
  <1>3. FoundInv' /\ ReadInv' /\ (OfProject(kept.files))' = OfProject(kept.files)
    BY <1>1, ReadFrame DEF AfterRead
  <1>4. /\ IsSequence(source.history)
        /\ \A i \in DOMAIN source.history : IsPrompt(source.history[i])
        /\ kept.history = source.history
    BY <1>1 DEF IInv, SourceInv, IsHome
  <1>5. OwnPrompts \in SUBSET (DOMAIN source.history)
    BY DEF OwnPrompts
  <1>6. /\ IsSequence(new)
        /\ \A k \in DOMAIN new : \E p \in OwnPrompts :
              new[k] = [source.history[p] EXCEPT !.text = ApplyPlaceholders(@)]
        /\ \A p \in OwnPrompts : Holds(new, source.history[p])
    BY <1>4, <1>5, AnonymizedLines
  <1>7. ASSUME NEW k \in DOMAIN new
        PROVE  IsPrompt(new[k]) /\ new[k].session # "none"
    <2>1. PICK p \in OwnPrompts :
              new[k] = [source.history[p] EXCEPT !.text = ApplyPlaceholders(@)]
      BY <1>6
    <2>2. source.history[p].session # "none"
      BY <1>4 DEF OwnPrompts, IsPrompt
    <2>3. PICK session, second, text :
              source.history[p] = [session |-> session, second |-> second, text |-> text]
      BY <1>4 DEF OwnPrompts, IsPrompt
    <2> HIDE DEF new
    <2>4. new[k] = [session |-> session, second |-> second, text |-> ApplyPlaceholders(text)]
      BY <2>1, <2>3
    <2> QED
      BY <2>2, <2>3, <2>4 DEF IsPrompt
  <1> HIDE DEF new
  <1>8. /\ archive' = [rollouts |-> archive.rollouts, origin |-> archive.origin,
                       index |-> archive.index, sidecars |-> archive.sidecars,
                       history |-> new]
    BY <1>1 DEF IInv, ArchiveInv
  <1>9. /\ archive'.rollouts = archive.rollouts /\ archive'.origin = archive.origin
        /\ archive'.index = archive.index /\ archive'.history = new
        /\ archive' = [rollouts |-> archive'.rollouts, origin |-> archive'.origin,
                       index |-> archive'.index, sidecars |-> archive'.sidecars,
                       history |-> archive'.history]
    BY <1>8
  <1>10. ArchiveInv'
    <2>1. ArchivedRollouts' /\ ArchivedEntries'
      BY <1>1, <1>9, ArchivedRolloutsFrame DEF IInv, ArchiveInv, ArchivedEntries
    <2>2. ArchivedPrompts'
      BY <1>6, <1>7, <1>9 DEF ArchivedPrompts
    <2> QED
      BY <1>9, <2>1, <2>2 DEF ArchiveInv
  <1>11. ASSUME setup.selected.sessions PROVE RolloutsWritten' /\ IndexWritten'
    <2>1. RolloutsWritten /\ IndexWritten
      BY <1>1, <1>11 DEF IInv, WrittenInv, WithSessions
    <2>2. \A written, read : Holds(written, read)' <=> Holds(written, read)
      BY <1>1, HoldsFrame
    <2>3. RolloutsWritten'
      BY <1>1, <1>3, <1>9, <2>1 DEF RolloutsWritten
    <2>4. IndexWritten'
      BY <1>1, <1>9, <2>1, <2>2 DEF IndexWritten
    <2> QED
      BY <2>3, <2>4
  <1>12. HistoryWritten'
    <2>1. ASSUME NEW i \in DOMAIN kept.history,
                 kept.history[i] # Malformed, kept.history[i].session \in threadIDs
          PROVE  Holds(new, kept.history[i])
      <3>1. i \in OwnPrompts
        BY <1>4, <2>1 DEF OwnPrompts
      <3> QED
        BY <1>4, <1>6, <3>1
    <2>2. \A written, read : Holds(written, read)' <=> Holds(written, read)
      BY <1>1, HoldsFrame
    <2> QED
      BY <1>1, <1>9, <2>1, <2>2 DEF HistoryWritten
  <1>13. WrittenInv'
    BY <1>1, <1>11, <1>12 DEF WrittenInv, WithSessions
  <1> QED
    BY <1>2, <1>3, <1>10, <1>13 DEF IInv

(***************************************************************************)
(* Codex during the export                                                 *)
(***************************************************************************)

(* Rollout files, each of the thread of its name.                           *)
AreFiles(files) ==
    /\ IsMap(files) /\ OfItsThread(files)
    /\ \A f \in DOMAIN files : IsFile(f) /\ IsRollout(files[f])

(* A home with other files is a home.                                       *)
LEMMA HomeWithFiles ==
    ASSUME NEW home, IsHome(home), NEW new, AreFiles(new)
    PROVE  /\ IsHome([home EXCEPT !.files = new])
           /\ [home EXCEPT !.files = new] =
                 [files |-> new, packed |-> home.packed, history |-> home.history,
                  index |-> home.index, dbs |-> home.dbs, listed |-> home.listed]
  <1>1. PICK files, packed, history, index, dbs, listed :
            home = [files |-> files, packed |-> packed, history |-> history,
                    index |-> index, dbs |-> dbs, listed |-> listed]
    BY DEF IsHome
  <1>2. [home EXCEPT !.files = new] =
              [files |-> new, packed |-> packed, history |-> history,
               index |-> index, dbs |-> dbs, listed |-> listed]
    BY <1>1
  <1>3. /\ IsMap(files) /\ \A f \in DOMAIN files : IsFile(f) /\ IsRollout(files[f])
        /\ \A f \in packed : IsFile(f)
        /\ IsSequence(history) /\ \A i \in DOMAIN history : IsPrompt(history[i])
        /\ IsSequence(index) /\ \A i \in DOMAIN index : IsEntry(index[i])
        /\ IsMap(dbs) /\ \A g \in DOMAIN dbs : g \in Nat /\ IsDatabase(dbs[g])
    BY <1>1 DEF IsHome
  <1>4. IsHome([home EXCEPT !.files = new])
    BY <1>2, <1>3 DEF AreFiles, IsHome
  <1> QED
    BY <1>1, <1>2, <1>4

(* So is one with other files compressed,                                   *)
LEMMA HomeWithPacked ==
    ASSUME NEW home, IsHome(home), NEW new, \A f \in new : IsFile(f)
    PROVE  /\ IsHome([home EXCEPT !.packed = new])
           /\ [home EXCEPT !.packed = new] =
                 [files |-> home.files, packed |-> new, history |-> home.history,
                  index |-> home.index, dbs |-> home.dbs, listed |-> home.listed]
  <1>1. PICK files, packed, history, index, dbs, listed :
            home = [files |-> files, packed |-> packed, history |-> history,
                    index |-> index, dbs |-> dbs, listed |-> listed]
    BY DEF IsHome
  <1>2. [home EXCEPT !.packed = new] =
              [files |-> files, packed |-> new, history |-> history,
               index |-> index, dbs |-> dbs, listed |-> listed]
    BY <1>1
  <1>3. /\ IsMap(files) /\ \A f \in DOMAIN files : IsFile(f) /\ IsRollout(files[f])
        /\ \A f \in packed : IsFile(f)
        /\ IsSequence(history) /\ \A i \in DOMAIN history : IsPrompt(history[i])
        /\ IsSequence(index) /\ \A i \in DOMAIN index : IsEntry(index[i])
        /\ IsMap(dbs) /\ \A g \in DOMAIN dbs : g \in Nat /\ IsDatabase(dbs[g])
    BY <1>1 DEF IsHome
  <1>4. IsHome([home EXCEPT !.packed = new])
    BY <1>2, <1>3 DEF AreFiles, IsHome
  <1> QED
    BY <1>1, <1>2, <1>4

(* with another history,                                                    *)
LEMMA HomeWithHistory ==
    ASSUME NEW home, IsHome(home), NEW new, IsSequence(new), \A i \in DOMAIN new : IsPrompt(new[i])
    PROVE  /\ IsHome([home EXCEPT !.history = new])
           /\ [home EXCEPT !.history = new] =
                 [files |-> home.files, packed |-> home.packed, history |-> new,
                  index |-> home.index, dbs |-> home.dbs, listed |-> home.listed]
  <1>1. PICK files, packed, history, index, dbs, listed :
            home = [files |-> files, packed |-> packed, history |-> history,
                    index |-> index, dbs |-> dbs, listed |-> listed]
    BY DEF IsHome
  <1>2. [home EXCEPT !.history = new] =
              [files |-> files, packed |-> packed, history |-> new,
               index |-> index, dbs |-> dbs, listed |-> listed]
    BY <1>1
  <1>3. /\ IsMap(files) /\ \A f \in DOMAIN files : IsFile(f) /\ IsRollout(files[f])
        /\ \A f \in packed : IsFile(f)
        /\ IsSequence(history) /\ \A i \in DOMAIN history : IsPrompt(history[i])
        /\ IsSequence(index) /\ \A i \in DOMAIN index : IsEntry(index[i])
        /\ IsMap(dbs) /\ \A g \in DOMAIN dbs : g \in Nat /\ IsDatabase(dbs[g])
    BY <1>1 DEF IsHome
  <1>4. IsHome([home EXCEPT !.history = new])
    BY <1>2, <1>3 DEF AreFiles, IsHome
  <1> QED
    BY <1>1, <1>2, <1>4

(* with another index,                                                      *)
LEMMA HomeWithIndex ==
    ASSUME NEW home, IsHome(home), NEW new, IsSequence(new), \A i \in DOMAIN new : IsEntry(new[i])
    PROVE  /\ IsHome([home EXCEPT !.index = new])
           /\ [home EXCEPT !.index = new] =
                 [files |-> home.files, packed |-> home.packed, history |-> home.history,
                  index |-> new, dbs |-> home.dbs, listed |-> home.listed]
  <1>1. PICK files, packed, history, index, dbs, listed :
            home = [files |-> files, packed |-> packed, history |-> history,
                    index |-> index, dbs |-> dbs, listed |-> listed]
    BY DEF IsHome
  <1>2. [home EXCEPT !.index = new] =
              [files |-> files, packed |-> packed, history |-> history,
               index |-> new, dbs |-> dbs, listed |-> listed]
    BY <1>1
  <1>3. /\ IsMap(files) /\ \A f \in DOMAIN files : IsFile(f) /\ IsRollout(files[f])
        /\ \A f \in packed : IsFile(f)
        /\ IsSequence(history) /\ \A i \in DOMAIN history : IsPrompt(history[i])
        /\ IsSequence(index) /\ \A i \in DOMAIN index : IsEntry(index[i])
        /\ IsMap(dbs) /\ \A g \in DOMAIN dbs : g \in Nat /\ IsDatabase(dbs[g])
    BY <1>1 DEF IsHome
  <1>4. IsHome([home EXCEPT !.index = new])
    BY <1>2, <1>3 DEF AreFiles, IsHome
  <1> QED
    BY <1>1, <1>2, <1>4

(* and with other databases.                                                *)
LEMMA HomeWithDatabases ==
    ASSUME NEW home, IsHome(home), NEW new, IsMap(new),
           \A g \in DOMAIN new : g \in Nat /\ IsDatabase(new[g])
    PROVE  /\ IsHome([home EXCEPT !.dbs = new])
           /\ [home EXCEPT !.dbs = new] =
                 [files |-> home.files, packed |-> home.packed, history |-> home.history,
                  index |-> home.index, dbs |-> new, listed |-> home.listed]
  <1>1. PICK files, packed, history, index, dbs, listed :
            home = [files |-> files, packed |-> packed, history |-> history,
                    index |-> index, dbs |-> dbs, listed |-> listed]
    BY DEF IsHome
  <1>2. [home EXCEPT !.dbs = new] =
              [files |-> files, packed |-> packed, history |-> history,
               index |-> index, dbs |-> new, listed |-> listed]
    BY <1>1
  <1>3. /\ IsMap(files) /\ \A f \in DOMAIN files : IsFile(f) /\ IsRollout(files[f])
        /\ \A f \in packed : IsFile(f)
        /\ IsSequence(history) /\ \A i \in DOMAIN history : IsPrompt(history[i])
        /\ IsSequence(index) /\ \A i \in DOMAIN index : IsEntry(index[i])
        /\ IsMap(dbs) /\ \A g \in DOMAIN dbs : g \in Nat /\ IsDatabase(dbs[g])
    BY <1>1 DEF IsHome
  <1>4. IsHome([home EXCEPT !.dbs = new])
    BY <1>2, <1>3 DEF AreFiles, IsHome
  <1> QED
    BY <1>1, <1>2, <1>4

(* Archiving a thread, or bringing it back, keeps files of their threads.   *)
LEMMA RenamedFiles ==
    ASSUME NEW home, IsHome(home), OfItsThread(home.files), NEW file \in DOMAIN home.files
    PROVE  /\ IsHome(Renamed(home, file)) /\ AreFiles(Renamed(home, file).files)
           /\ Renamed(home, file) =
                 [home EXCEPT !.files = Renamed(home, file).files]
           /\ \E to : /\ IsFile(to) /\ to.name = file.name
                      /\ Renamed(home, file).files = Over([f \in {to} |-> home.files[file]],
                                                          Without(home.files, {file}))
  <1>1. PICK to : to = [file EXCEPT !.root = IF @ = "sessions" THEN "archived" ELSE "sessions"]
    OBVIOUS
  <1>2. IsFile(to) /\ to.name = file.name
    <2>1. IsFile(file)
      BY DEF IsHome
    <2>2. PICK root, name : file = [root |-> root, name |-> name]
      BY <2>1 DEF IsFile
    <2>3. \/ to = [root |-> "archived", name |-> name]
          \/ to = [root |-> "sessions", name |-> name]
      BY <1>1, <2>2
    <2> QED
      BY <2>2, <2>3 DEF IsFile
  <1> DEFINE files == Over([f \in {to} |-> home.files[file]], Without(home.files, {file}))
  <1>3. /\ DOMAIN files = {to} \cup (DOMAIN home.files \ {file})
        /\ files[to] = home.files[file]
        /\ \A f \in DOMAIN home.files \ {file, to} : files[f] = home.files[f]
        /\ IsMap(files)
    BY DEF Over, Without, IsMap
  <1>4. Renamed(home, file) = [home EXCEPT !.files = files]
    BY <1>1 DEF Renamed
  <1> HIDE DEF files
  <1>5. AreFiles(files)
    <2>1. ASSUME NEW f \in DOMAIN files
          PROVE  IsFile(f) /\ IsRollout(files[f]) /\ ThreadIDOf(files[f]) \in IDs(f.name)
      <3>1. CASE f = to
        BY <1>2, <1>3, <3>1 DEF IsHome, OfItsThread
      <3>2. CASE f # to
        BY <1>3, <3>2 DEF IsHome, OfItsThread
      <3> QED
        BY <3>1, <3>2
    <2> QED
      BY <1>3, <2>1 DEF AreFiles, OfItsThread
  <1>6. Renamed(home, file).files = files /\ IsHome(Renamed(home, file))
    <2>1. /\ IsHome([home EXCEPT !.files = files])
          /\ [home EXCEPT !.files = files] =
                [files |-> files, packed |-> home.packed, history |-> home.history,
                 index |-> home.index, dbs |-> home.dbs, listed |-> home.listed]
      BY ONLY IsHome(home), <1>5, HomeWithFiles
    <2>2. [home EXCEPT !.files = files].files = files
      BY ONLY <2>1
    <2> QED
      BY ONLY <1>4, <2>1, <2>2
  <1> QED
    BY <1>2, <1>4, <1>5, <1>6 DEF files

(* So does compression.                                                     *)
LEMMA CompressedFiles ==
    ASSUME NEW home, IsHome(home), OfItsThread(home.files), NEW file \in DOMAIN home.files
    PROVE  /\ IsHome(Compressed(home, file)) /\ OfItsThread(Compressed(home, file).files)
           /\ \E files, packed : Compressed(home, file) =
                 [files |-> files, packed |-> packed, history |-> home.history,
                  index |-> home.index, dbs |-> home.dbs, listed |-> home.listed]
  <1>1. CASE file \in home.packed
    <2>1. PICK files : files = Without(home.files, {file})
      OBVIOUS
    <2>2. AreFiles(files)
      BY <2>1 DEF Without, AreFiles, IsMap, IsHome, OfItsThread
    <2>3. Compressed(home, file) = [home EXCEPT !.files = files]
      BY <1>1, <2>1 DEF Compressed
    <2>4. /\ IsHome([home EXCEPT !.files = files])
          /\ [home EXCEPT !.files = files] =
                [files |-> files, packed |-> home.packed, history |-> home.history,
                 index |-> home.index, dbs |-> home.dbs, listed |-> home.listed]
      BY ONLY IsHome(home), <2>2, HomeWithFiles
    <2>5. Compressed(home, file).files = files
      BY ONLY <2>3, <2>4
    <2>6. OfItsThread(files)
      BY <2>2 DEF AreFiles
    <2> QED
      BY ONLY <2>3, <2>4, <2>5, <2>6
  <1>2. CASE file \notin home.packed
    <2>1. PICK packed : packed = home.packed \cup {file}
      OBVIOUS
    <2>2. \A f \in packed : IsFile(f)
      BY <2>1 DEF IsHome
    <2>3. Compressed(home, file) = [home EXCEPT !.packed = packed]
      BY <1>2, <2>1 DEF Compressed
    <2>4. /\ IsHome([home EXCEPT !.packed = packed])
          /\ [home EXCEPT !.packed = packed] =
                 [files |-> home.files, packed |-> packed, history |-> home.history,
                  index |-> home.index, dbs |-> home.dbs, listed |-> home.listed]
      BY ONLY IsHome(home), <2>2, HomeWithPacked
    <2>5. /\ IsHome(Compressed(home, file))
          /\ Compressed(home, file) =
                 [files |-> home.files, packed |-> packed, history |-> home.history,
                  index |-> home.index, dbs |-> home.dbs, listed |-> home.listed]
      BY ONLY <2>3, <2>4
    <2>6. Compressed(home, file).files = home.files
      BY <2>5
    <2> QED
      BY <2>5, <2>6
  <1> QED
    BY <1>1, <1>2

(* A prompt that goes on in a rollout leaves it of its thread.              *)
LEMMA RolloutContinued ==
    ASSUME NEW r, IsRollout(r), NEW turn, IsLine(turn), turn.id = ""
    PROVE  IsRollout(Append(r, turn)) /\ ThreadIDOf(Append(r, turn)) = ThreadIDOf(r)
  <1> DEFINE n == Len(r)
             new == Append(r, turn)
             S == {r[i] : i \in 1..n} \cup {turn}
             named(s) == {i \in Meta(s) : s[i].id # ""}
  <1>1. IsSequence(r) /\ n \in Nat /\ DOMAIN r = 1..n /\ \A i \in 1..n : IsLine(r[i])
    BY DEF IsRollout, IsSequence
  <1>0. n \in Nat
    BY <1>1
  <1>2. r \in Seq(S) /\ Len(r) = n
    <2>1. r \in [1..n -> {r[i] : i \in 1..n}]
      BY DEF IsRollout, IsSequence
    <2>2. r \in [1..n -> S]
      BY <2>1
    <2>3. r \in Seq(S)
      <3> HIDE DEF n, S
      <3> QED
        BY ONLY <1>0, <2>2
    <2> QED
      BY <2>3
  <1>3. turn \in S
    OBVIOUS
  <1> HIDE DEF S
  <1>4. /\ new \in [1..(n + 1) -> S] /\ n + 1 \in Nat
        /\ \A i \in 1..n : new[i] = r[i]
        /\ new[n + 1] = turn
    <2> HIDE DEF n
    <2>1. new \in Seq(S) /\ Len(new) = n + 1
      BY ONLY <1>0, <1>2, <1>3
    <2>2. new \in [1..(n + 1) -> S] /\ n + 1 \in Nat
      <3> HIDE DEF new
      <3> QED
        BY ONLY <1>0, <2>1
    <2>3. \A i \in 1..n : new[i] = r[i]
      BY ONLY <1>0, <1>2, <1>3
    <2>4. new[n + 1] = turn
      BY ONLY <1>0, <1>2, <1>3
    <2> QED
      BY ONLY <2>2, <2>3, <2>4
  <1> HIDE DEF n, new
  <1>5. new = [i \in 1..(n + 1) |-> new[i]]
    BY <1>4
  <1>6. IsSequence(new) /\ DOMAIN new = 1..(n + 1)
    BY <1>1, <1>4, <1>5, SequenceOf
  <1>7. \A i \in 1..(n + 1) : i \in 1..n \/ i = n + 1
    BY ONLY <1>0
  <1>8. \A i \in 1..n : i \in 1..(n + 1)
    BY ONLY <1>0
  <1>9. IsRollout(new)
    BY <1>1, <1>4, <1>6, <1>7 DEF IsRollout
  <1>10. named(new) = named(r) /\ named(r) \subseteq 1..n
    BY <1>1, <1>4, <1>6, <1>7, <1>8 DEF Meta
  <1>11. CASE named(r) = {}
    BY <1>9, <1>10, <1>11 DEF ThreadIDOf, new
  <1>12. CASE named(r) # {}
    <2> DEFINE first == Min(named(r))
    <2>1. named(r) \subseteq Nat
      <3>1. 1..n \subseteq Nat
        BY ONLY <1>0
      <3> QED
        BY ONLY <1>10, <3>1
    <2>2. \E x \in named(r) : \A y \in named(r) : x <= y
      <3> HIDE DEF named
      <3> QED
        BY <1>12, <2>1, LeastNatural
    <2>3. first \in named(r)
      <3> HIDE DEF named
      <3> QED
        BY <2>2 DEF Min
    <2>4. first \in 1..n
      BY <1>10, <2>3
    <2>5. ThreadIDOf(r) = r[first].id /\ ThreadIDOf(new) = new[first].id
      BY <1>10, <1>12 DEF ThreadIDOf
    <2> HIDE DEF first
    <2> QED
      BY <1>4, <1>9, <2>4, <2>5 DEF new
  <1> QED
    BY <1>11, <1>12

(* A home is one with a thread that went on.                                *)
LEMMA ContinuedFiles ==
    ASSUME NEW home, IsHome(home), OfItsThread(home.files), NEW file \in DOMAIN home.files
    PROVE  /\ IsHome(Continued(home, file)) /\ OfItsThread(Continued(home, file).files)
           /\ \E files : Continued(home, file) =
                 [files |-> files, packed |-> home.packed, history |-> home.history,
                  index |-> home.index, dbs |-> home.dbs, listed |-> home.listed]
  <1>1. PICK turn : turn = [type |-> "turn_context", id |-> "",
                            cwd |-> setup.from.project, text |-> <<>>]
    OBVIOUS
  <1>2. IsLine(turn) /\ turn.id = ""
    BY <1>1 DEF IsLine
  <1>3. PICK rollout : rollout = Append(home.files[file], turn)
    OBVIOUS
  <1>4. IsRollout(home.files[file])
    BY DEF IsHome
  <1>5. IsRollout(rollout) /\ ThreadIDOf(rollout) = ThreadIDOf(home.files[file])
    BY ONLY <1>2, <1>3, <1>4, RolloutContinued
  <1>6. PICK files : files = [home.files EXCEPT ![file] = rollout]
    OBVIOUS
  <1>7. /\ DOMAIN files = DOMAIN home.files
        /\ files[file] = rollout
        /\ \A f \in DOMAIN home.files \ {file} : files[f] = home.files[f]
        /\ IsMap(files)
    BY <1>6 DEF IsMap, IsHome
  <1>8. AreFiles(files)
    <2>1. ASSUME NEW f \in DOMAIN files
          PROVE  IsFile(f) /\ IsRollout(files[f]) /\ ThreadIDOf(files[f]) \in IDs(f.name)
      <3>1. CASE f = file
        BY <1>5, <1>7, <3>1 DEF IsHome, OfItsThread
      <3>2. CASE f # file
        BY <1>7, <3>2 DEF IsHome, OfItsThread
      <3> QED
        BY <3>1, <3>2
    <2> QED
      BY <1>7, <2>1 DEF AreFiles, OfItsThread
  <1>9. Continued(home, file) = [home EXCEPT !.files = files]
    <2>1. PICK h : h = home
      OBVIOUS
    <2>2. PICK a, packed, history, index, dbs, listed :
              h = [files |-> a, packed |-> packed, history |-> history,
                   index |-> index, dbs |-> dbs, listed |-> listed]
      BY <2>1 DEF IsHome
    <2> QED
      BY <1>1, <1>3, <1>6, <2>1, <2>2 DEF Continued
  <1>10. /\ IsHome([home EXCEPT !.files = files])
         /\ [home EXCEPT !.files = files] =
                [files |-> files, packed |-> home.packed, history |-> home.history,
                 index |-> home.index, dbs |-> home.dbs, listed |-> home.listed]
    BY ONLY IsHome(home), <1>8, HomeWithFiles
  <1>11. Continued(home, file).files = files
    BY ONLY <1>9, <1>10
  <1>12. OfItsThread(files)
    BY <1>8 DEF AreFiles
  <1> QED
    BY ONLY <1>9, <1>10, <1>11, <1>12

(* Whatever Codex does to a file while the export runs, what it left alone   *)
(* is there as it was.                                                      *)
LEMMA CodexRunsIInv ==
    ASSUME IInv, CodexRuns, UNCHANGED <<target, pending, runs, primed>>
    PROVE  IInv'
  <1>1. /\ pc \in ExportSteps /\ pc \notin {"export", "failed", "exported"} /\ pc' = pc
        /\ found' = found /\ lines' = lines /\ setup' = setup /\ archive' = archive
        /\ target' = target /\ primed' = primed /\ threadIDs' = threadIDs
    BY DEF CodexRuns, ExportSteps, Exporting
  <1>2. /\ IsHome(source) /\ OfItsThread(source.files)
        /\ kept = [files |-> kept.files, packed |-> kept.packed,
                   history |-> source.history, index |-> source.index,
                   dbs |-> source.dbs, listed |-> source.listed]
        /\ \A f \in DOMAIN kept.files :
              f \in DOMAIN source.files /\ source.files[f] = kept.files[f]
        /\ target = setup.target /\ ~primed
    BY <1>1 DEF IInv, SourceInv
  <1>3. PICK file \in DOMAIN source.files :
            /\ source' \in {Renamed(source, file), Compressed(source, file),
                            Continued(source, file)}
            /\ kept' = [kept EXCEPT !.files = Untouched(@, source'.files)]
    BY DEF CodexRuns
  <1>4. /\ IsHome(source') /\ OfItsThread(source'.files)
        /\ \E files, packed : source' =
                 [files |-> files, packed |-> packed, history |-> source.history,
                  index |-> source.index, dbs |-> source.dbs, listed |-> source.listed]
    <2>1. CASE source' = Renamed(source, file)
      <3>1. PICK files : files = Renamed(source, file).files
        OBVIOUS
      <3>2. /\ IsHome(Renamed(source, file)) /\ AreFiles(files)
            /\ Renamed(source, file) = [source EXCEPT !.files = files]
        BY ONLY <1>2, <3>1, RenamedFiles, file \in DOMAIN source.files
      <3>3. [source EXCEPT !.files = files] =
                [files |-> files, packed |-> source.packed, history |-> source.history,
                 index |-> source.index, dbs |-> source.dbs, listed |-> source.listed]
        BY ONLY <1>2, <3>2, HomeWithFiles
      <3>4. OfItsThread(files)
        BY <3>2 DEF AreFiles
      <3> QED
        BY ONLY <2>1, <3>1, <3>2, <3>3, <3>4
    <2>2. CASE source' = Compressed(source, file)
      <3>1. /\ IsHome(Compressed(source, file)) /\ OfItsThread(Compressed(source, file).files)
            /\ \E files, packed : Compressed(source, file) =
                 [files |-> files, packed |-> packed, history |-> source.history,
                  index |-> source.index, dbs |-> source.dbs, listed |-> source.listed]
        BY ONLY <1>2, CompressedFiles, file \in DOMAIN source.files
      <3> QED
        BY ONLY <2>2, <3>1
    <2>3. CASE source' = Continued(source, file)
      <3>1. /\ IsHome(Continued(source, file)) /\ OfItsThread(Continued(source, file).files)
            /\ \E files : Continued(source, file) =
                 [files |-> files, packed |-> source.packed, history |-> source.history,
                  index |-> source.index, dbs |-> source.dbs, listed |-> source.listed]
        BY ONLY <1>2, ContinuedFiles, file \in DOMAIN source.files
      <3> QED
        BY ONLY <2>3, <3>1
    <2> QED
      BY ONLY <1>3, <2>1, <2>2, <2>3
  <1>5. /\ source'.history = source.history /\ source'.index = source.index
        /\ source'.dbs = source.dbs /\ source'.listed = source.listed
    BY ONLY <1>4
  <1>6. PICK some : some = Untouched(kept.files, source'.files)
    OBVIOUS
  <1>7. /\ DOMAIN some \subseteq DOMAIN kept.files
        /\ \A f \in DOMAIN some : /\ some[f] = kept.files[f]
                                  /\ f \in DOMAIN source'.files /\ source'.files[f] = some[f]
    BY <1>6 DEF Untouched
  <1>8. kept' = [files |-> some, packed |-> kept.packed,
                 history |-> source.history, index |-> source.index,
                 dbs |-> source.dbs, listed |-> source.listed]
    <2>1. PICK a, b : kept = [files |-> a, packed |-> b,
                   history |-> source.history, index |-> source.index,
                   dbs |-> source.dbs, listed |-> source.listed]
      BY <1>2
    <2>2. kept' = [kept EXCEPT !.files = some]
      BY <1>3, <1>6
    <2> QED
      BY ONLY <2>1, <2>2
  <1>9. /\ kept'.files = some /\ kept'.history = source'.history
        /\ kept'.index = kept.index /\ kept'.history = kept.history
        /\ kept'.dbs = kept.dbs
        /\ kept' = [files |-> kept'.files, packed |-> kept'.packed,
                    history |-> source'.history, index |-> source'.index,
                    dbs |-> source'.dbs, listed |-> source'.listed]
    <2>1. /\ kept.index = source.index /\ kept.history = source.history
          /\ kept.dbs = source.dbs
      BY ONLY <1>2
    <2>2. /\ kept'.files = some /\ kept'.history = source.history
          /\ kept'.index = source.index /\ kept'.dbs = source.dbs
          /\ kept'.packed = kept.packed
      BY ONLY <1>8
    <2> QED
      BY ONLY <1>5, <1>8, <2>1, <2>2
  <1>10. /\ (OfProject(kept.files))' \subseteq OfProject(kept.files)
         /\ \A f \in (OfProject(kept.files))' : kept'.files[f] = kept.files[f]
    <2>1. \A r : identityMatchesProject(r)' <=> identityMatchesProject(r)
      BY <1>1 DEF identityMatchesProject
    <2> QED
      BY <1>7, <1>9, <2>1 DEF OfProject
  <1>11. (projectThreadIDs(kept))' = projectThreadIDs(kept)
    BY <1>1, <1>9 DEF projectThreadIDs, rowsOfProject
  <1>12. TargetInv' /\ MergeInv' /\ SidecarInv' /\ setup' \in Setups
    BY <1>1, ExportFrame
  <1>13. \A name : IDs(name)' = IDs(name)
    BY <1>1, SameSetup
  <1>14. SourceInv'
    <2>1. OfItsThread(source.files)'
      BY <1>4, <1>13 DEF OfItsThread
    <2> QED
      BY <1>1, <1>2, <1>4, <1>7, <1>9, <2>1 DEF SourceInv
  <1>15. FoundInv'
    BY <1>1, <1>7, <1>9, <1>10, <1>13 DEF IInv, FoundInv
  <1>16. ReadInv'
    BY <1>1, <1>10, <1>11, <1>13 DEF IInv, ReadInv
  <1>17. WrittenInv'
    <2>1. RolloutsWritten => RolloutsWritten'
      BY <1>1, <1>10 DEF RolloutsWritten
    <2>2. \A written, read : Holds(written, read)' <=> Holds(written, read)
      BY <1>1, HoldsFrame
    <2>3. IndexWritten => IndexWritten'
      BY <1>1, <1>9, <2>2 DEF IndexWritten
    <2> QED
      BY <1>1, <2>1, <2>3 DEF IInv, WrittenInv, WithSessions
  <1>18. ArchiveInv'
    BY <1>1, ArchiveFrame
  <1> QED
    BY <1>12, <1>14, <1>15, <1>16, <1>17, <1>18 DEF IInv

(***************************************************************************)
(* The import                                                              *)
(***************************************************************************)

ImportSteps == {"carried", "stopped", "merge history", "merge index", "databases", "imported"}

(* The import changes neither the archive nor what the export left.         *)
LEMMA ImportFrame ==
    ASSUME IInv, setup' = setup, archive' = archive, pc' \in ImportSteps
    PROVE  /\ setup' \in Setups
           /\ SourceInv' /\ FoundInv' /\ ReadInv' /\ WrittenInv' /\ ArchiveInv'
           /\ IncomingPrompts' = IncomingPrompts /\ IncomingEntries' = IncomingEntries
           /\ ArchivedThreads' = ArchivedThreads /\ rolloutsStaged' = rolloutsStaged
           /\ \A files : OfItsThread(files)' <=> OfItsThread(files)
  <1>1. ArchiveInv' /\ \A files : OfItsThread(files)' <=> OfItsThread(files)
    BY ArchiveFrame, SameSetup
  <1>2. SourceInv' /\ FoundInv' /\ ReadInv' /\ WrittenInv'
    BY DEF SourceInv, FoundInv, ReadInv, WrittenInv, WithSessions, ImportSteps, ExportSteps,
           AfterRead
  <1>3. IncomingPrompts' = IncomingPrompts /\ IncomingEntries' = IncomingEntries
    BY DEF IncomingPrompts, IncomingEntries, ResolvedLines, Resolved, codexImportResolutions
  <1>4. ArchivedThreads' = ArchivedThreads /\ rolloutsStaged' = rolloutsStaged
    BY DEF ArchivedThreads, rolloutsStaged
  <1> QED
    BY <1>1, <1>2, <1>3, <1>4 DEF IInv

(* What comes in is prompts, and index lines, that parse.                   *)
LEMMA IncomingLines ==
    ASSUME ArchiveInv
    PROVE  /\ IsSequence(IncomingPrompts) /\ DOMAIN IncomingPrompts = DOMAIN archive.history
           /\ \A i \in DOMAIN IncomingPrompts :
                 IsPrompt(IncomingPrompts[i]) /\ IncomingPrompts[i] # Malformed
           /\ IsSequence(IncomingEntries) /\ DOMAIN IncomingEntries = DOMAIN archive.index
           /\ \A i \in DOMAIN IncomingEntries :
                 IsEntry(IncomingEntries[i]) /\ IncomingEntries[i] # Malformed
  <1>1. ASSUME NEW chunk, IsSequence(chunk)
        PROVE  /\ IsSequence(ResolvedLines(chunk)) /\ DOMAIN ResolvedLines(chunk) = DOMAIN chunk
               /\ \A i \in DOMAIN chunk :
                     ResolvedLines(chunk)[i] = [chunk[i] EXCEPT !.text = Resolved(@)]
    <2> DEFINE out == ResolvedLines(chunk)
    <2>1. DOMAIN chunk = 1..Len(chunk) /\ Len(chunk) \in Nat
      BY <1>1 DEF IsSequence
    <2>2. out = [i \in DOMAIN chunk |-> [chunk[i] EXCEPT !.text = Resolved(@)]]
      BY DEF ResolvedLines
    <2> HIDE DEF out
    <2>3. out = [i \in 1..Len(chunk) |-> out[i]]
      BY <2>1, <2>2
    <2>4. IsSequence(out)
      BY <2>1, <2>3, SequenceOf
    <2> QED
      BY <2>2, <2>4 DEF out
  <1>2. ASSUME NEW i \in DOMAIN archive.history
        PROVE  IsPrompt(IncomingPrompts[i]) /\ IncomingPrompts[i] # Malformed
    <2>1. archive.history[i].session # "none"
      BY DEF ArchiveInv, ArchivedPrompts
    <2>2. PICK session, second, text :
              archive.history[i] = [session |-> session, second |-> second, text |-> text]
      BY DEF ArchiveInv, ArchivedPrompts, IsPrompt
    <2>3. IncomingPrompts[i] = [archive.history[i] EXCEPT !.text = Resolved(@)]
      BY <1>1 DEF IncomingPrompts, ArchiveInv, ArchivedPrompts
    <2>4. IncomingPrompts[i] = [session |-> session, second |-> second, text |-> Resolved(text)]
      BY ONLY <2>2, <2>3
    <2> QED
      BY ONLY <2>1, <2>2, <2>4 DEF IsPrompt, Malformed
  <1>3. ASSUME NEW i \in DOMAIN archive.index
        PROVE  IsEntry(IncomingEntries[i]) /\ IncomingEntries[i] # Malformed
    <2>1. PICK id, text : archive.index[i] = [id |-> id, text |-> text]
      BY DEF ArchiveInv, ArchivedEntries
    <2>2. IncomingEntries[i] = [archive.index[i] EXCEPT !.text = Resolved(@)]
      BY <1>1 DEF IncomingEntries, ArchiveInv, ArchivedEntries
    <2>3. IncomingEntries[i] = [id |-> id, text |-> Resolved(text)]
      BY ONLY <2>1, <2>2
    <2>4. DOMAIN IncomingEntries[i] = {"id", "text"}
      BY ONLY <2>3
    <2>5. DOMAIN Malformed = {"session", "second", "text"}
      BY DEF Malformed
    <2> QED
      BY ONLY <2>3, <2>4, <2>5 DEF IsEntry
  <1>4. IsSequence(archive.history) /\ IsSequence(archive.index)
    BY DEF ArchiveInv, ArchivedPrompts, ArchivedEntries
  <1>5. /\ IsSequence(IncomingPrompts) /\ DOMAIN IncomingPrompts = DOMAIN archive.history
        /\ IsSequence(IncomingEntries) /\ DOMAIN IncomingEntries = DOMAIN archive.index
    BY <1>1, <1>4 DEF IncomingPrompts, IncomingEntries
  <1> QED
    BY <1>2, <1>3, <1>5

(* An import that stops, or is yet to begin, leaves what there was.         *)
LEMMA StoppedIInv ==
    ASSUME IInv, setup' = setup, archive' = archive, target' = target, primed' = primed,
           pc' \in {"carried", "stopped"}
    PROVE  IInv'
  <1>1. /\ setup' \in Setups
        /\ SourceInv' /\ FoundInv' /\ ReadInv' /\ WrittenInv' /\ ArchiveInv'
        /\ IncomingPrompts' = IncomingPrompts /\ IncomingEntries' = IncomingEntries
        /\ ArchivedThreads' = ArchivedThreads
        /\ \A files : OfItsThread(files)' <=> OfItsThread(files)
    BY ImportFrame DEF ImportSteps
  <1>2. TargetInv'
    BY <1>1 DEF IInv, TargetInv
  <1>3. MergeInv'
    BY <1>1 DEF IInv, MergeInv
  <1>4. ThreadsOnDisk' = ThreadsOnDisk
    BY DEF ThreadsOnDisk
  <1>5. HasTheRows(target.dbs) => HasTheRows(target.dbs)'
    BY <1>1 DEF HasTheRows
  <1>6. SidecarInv'
    BY <1>1, <1>4, <1>5 DEF IInv, SidecarInv
  <1> QED
    BY <1>1, <1>2, <1>3, <1>6 DEF IInv

(* Carrying the archive over is such a step.                                *)
LEMMA CarryOverIInv ==
    ASSUME IInv, CarryOver
    PROVE  IInv'
  BY StoppedIInv DEF CarryOver

(* Staged rollouts are those of the archive but for the paths, each of its   *)
(* thread.                                                                  *)
LEMMA StagedFiles ==
    ASSUME ArchiveInv
    PROVE  /\ DOMAIN StagedRollouts = DOMAIN archive.origin
           /\ \A f \in DOMAIN archive.origin :
                 /\ IsFile(f) /\ IsRollout(StagedRollouts[f])
                 /\ ThreadIDOf(StagedRollouts[f]) = ThreadIDOf(archive.origin[f])
                 /\ ThreadIDOf(archive.origin[f]) \in IDs(f.name) \ {""}
  <1> DEFINE staged == StagedRollouts
  <1>1. /\ DOMAIN archive.rollouts = DOMAIN archive.origin
        /\ \A f \in DOMAIN archive.origin :
              /\ IsFile(f) /\ IsRollout(archive.origin[f]) /\ IsRollout(archive.rollouts[f])
              /\ ThreadIDOf(archive.origin[f]) \in IDs(f.name) \ {""}
              /\ DOMAIN archive.rollouts[f] = DOMAIN archive.origin[f]
              /\ \A i \in DOMAIN archive.origin[f] :
                    /\ archive.rollouts[f][i].type = archive.origin[f][i].type
                    /\ archive.rollouts[f][i].id = archive.origin[f][i].id
    BY DEF ArchiveInv, ArchivedRollouts
  <1>2. DOMAIN staged = DOMAIN archive.origin
    BY <1>1 DEF StagedRollouts
  <1>3. ASSUME NEW f \in DOMAIN archive.origin
        PROVE  IsRollout(staged[f]) /\ ThreadIDOf(staged[f]) = ThreadIDOf(archive.origin[f])
    <2> DEFINE r == archive.rollouts[f]
               o == archive.origin[f]
               s == staged[f]
    <2>1. s = [i \in DOMAIN r |-> [r[i] EXCEPT !.cwd = Resolved(@), !.text = Resolved(@)]]
      BY <1>1 DEF StagedRollouts
    <2>2. /\ IsSequence(r) /\ IsSequence(o) /\ DOMAIN r = DOMAIN o
          /\ \A i \in DOMAIN o : IsLine(r[i]) /\ r[i].type = o[i].type /\ r[i].id = o[i].id
      BY <1>1 DEF IsRollout
    <2> HIDE DEF r, o, s, staged
    <2>3. \A i \in DOMAIN o : /\ IsLine(s[i]) /\ s[i].type = r[i].type /\ s[i].id = r[i].id
      <3> TAKE i \in DOMAIN o
      <3>1. PICK l, a, b : l = r[i] /\ a = Resolved(r[i].cwd) /\ b = Resolved(r[i].text)
        OBVIOUS
      <3>2. s[i] = [l EXCEPT !.cwd = a, !.text = b]
        BY <2>1, <2>2, <3>1
      <3>3. IsLine(l)
        BY <2>2, <3>1
      <3>4. LET new == [l EXCEPT !.cwd = a, !.text = b]
            IN IsLine(new) /\ new.type = l.type /\ new.id = l.id
        BY ONLY <3>3, LineRewritten
      <3> QED
        BY ONLY <3>1, <3>2, <3>4
    <2>4. DOMAIN s = DOMAIN o
      BY <2>1, <2>2
    <2>5. IsSequence(s)
      <3>1. Len(o) \in Nat /\ DOMAIN o = 1..Len(o)
        BY <2>2 DEF IsSequence
      <3>2. s = [i \in 1..Len(o) |-> s[i]]
        BY <2>1, <2>2, <3>1
      <3> QED
        BY <3>1, <3>2, SequenceOf
    <2>6. IsRollout(s)
      BY <2>3, <2>4, <2>5 DEF IsRollout
    <2>7. ThreadIDOf(s) = ThreadIDOf(o)
      <3>1. \A i \in DOMAIN o : s[i].type = o[i].type /\ s[i].id = o[i].id
        BY <2>2, <2>3
      <3> QED
        BY ONLY <2>2, <2>4, <3>1, ThreadByTypesAndIds
    <2> QED
      BY <2>6, <2>7 DEF s, o, staged
  <1> QED
    BY <1>1, <1>2, <1>3

(* Where the archive is accepted its threads are on disk.                   *)
LEMMA StageIInv ==
    ASSUME IInv, Stage
    PROVE  IInv'
  <1>1. /\ setup' = setup /\ archive' = archive /\ primed' = primed
        /\ pc' \in {"merge history", "stopped"}
    BY DEF Stage
  <1>2. CASE target' = target /\ pc' = "stopped"
    BY <1>1, <1>2, StoppedIInv
  <1>3. CASE /\ target' = [target EXCEPT !.files = Over(StagedRollouts, @)]
             /\ pc' = "merge history"
    <2>1. PICK staged : staged = StagedRollouts
      OBVIOUS
    <2>2. /\ DOMAIN staged = DOMAIN archive.origin
          /\ \A f \in DOMAIN archive.origin :
                 /\ IsFile(f) /\ IsRollout(staged[f])
                 /\ ThreadIDOf(staged[f]) = ThreadIDOf(archive.origin[f])
                 /\ ThreadIDOf(archive.origin[f]) \in IDs(f.name) \ {""}
      BY <2>1, StagedFiles DEF IInv
    <2>3. PICK files : files = Over(staged, target.files)
      OBVIOUS
    <2>4. /\ DOMAIN files = DOMAIN archive.origin \cup DOMAIN target.files
          /\ \A f \in DOMAIN archive.origin : files[f] = staged[f]
          /\ \A f \in DOMAIN target.files \ DOMAIN archive.origin : files[f] = target.files[f]
          /\ IsMap(files)
      BY <2>2, <2>3 DEF Over, IsMap
    <2>5. IsHome(target) /\ OfItsThread(target.files)
      BY DEF IInv, TargetInv
    <2>6. AreFiles(files)
      <3>1. ASSUME NEW f \in DOMAIN files
            PROVE  IsFile(f) /\ IsRollout(files[f]) /\ ThreadIDOf(files[f]) \in IDs(f.name)
        <4>1. CASE f \in DOMAIN archive.origin
          BY <2>2, <2>4, <4>1
        <4>2. CASE f \in DOMAIN target.files \ DOMAIN archive.origin
          BY <2>4, <2>5, <4>2 DEF IsHome, OfItsThread
        <4> QED
          BY <2>4, <4>1, <4>2
      <3> QED
        BY <2>4, <3>1 DEF AreFiles, OfItsThread
    <2>7. target' = [target EXCEPT !.files = files]
      BY <1>3, <2>1, <2>3
    <2>8. /\ IsHome(target')
          /\ target' = [files |-> files, packed |-> target.packed, history |-> target.history,
                        index |-> target.index, dbs |-> target.dbs, listed |-> target.listed]
      BY ONLY <2>5, <2>6, <2>7, HomeWithFiles
    <2>9. /\ target'.files = files /\ target'.history = target.history
          /\ target'.index = target.index /\ target'.dbs = target.dbs
      BY ONLY <2>8
    <2>10. /\ setup' \in Setups
           /\ SourceInv' /\ FoundInv' /\ ReadInv' /\ WrittenInv' /\ ArchiveInv'
           /\ IncomingPrompts' = IncomingPrompts /\ IncomingEntries' = IncomingEntries
           /\ ArchivedThreads' = ArchivedThreads
           /\ \A some : OfItsThread(some)' <=> OfItsThread(some)
      BY <1>1, ImportFrame DEF ImportSteps
    <2>11. TargetInv'
      BY <2>6, <2>8, <2>9, <2>10 DEF TargetInv, AreFiles
    <2>12. MergeInv'
      BY <1>1, <1>3, <2>9, <2>10 DEF IInv, MergeInv
    <2>13. ArchivedThreads \subseteq ThreadsOnDisk'
      BY <2>2, <2>4, <2>9 DEF ArchivedThreads, ThreadsOnDisk
    <2>14. HasTheRows(target.dbs) => HasTheRows(target.dbs)'
      BY <2>9, <2>10 DEF HasTheRows
    <2>15. SidecarInv'
      BY <1>1, <1>3, <2>10, <2>13, <2>14 DEF IInv, SidecarInv
    <2> QED
      BY <2>10, <2>11, <2>12, <2>15 DEF IInv
  <1> QED
    BY <1>2, <1>3 DEF Stage

(* A history that grows by lines that are added once, and by torn ones.     *)
LEMMA HistoryGrows ==
    ASSUME IInv, setup' = setup, archive' = archive, primed' = primed,
           NEW some, IsSequence(some), \A k \in DOMAIN some : IsPrompt(some[k]),
           \A i \in DOMAIN IncomingPrompts :
               AddsOnce(IncomingPrompts[i], target.history, some),
           target' = [target EXCEPT !.history = @ \o some],
           pc' \in {"carried", "stopped", "merge index"},
           pc' = "merge index" =>
               /\ pc = "merge history"
               /\ \A i \in DOMAIN IncomingPrompts :
                     Places(target.history \o some, IncomingPrompts[i]) # {}
    PROVE  IInv'
  <1>1. PICK history : history = target.history \o some
    OBVIOUS
  <1>2. IsHome(target) /\ OfItsThread(target.files)
    BY DEF IInv, TargetInv
  <1>3. /\ IsSequence(target.history)
        /\ \A i \in DOMAIN target.history : IsPrompt(target.history[i])
    BY <1>2 DEF IsHome
  <1>4. IsSequence(history)
    BY ONLY <1>1, <1>3, IsSequence(some), Appended
  <1>5. \A i \in DOMAIN history : IsPrompt(history[i])
    BY ONLY <1>1, <1>3, IsSequence(some), \A k \in DOMAIN some : IsPrompt(some[k]),
            PromptsAppended
  <1>6. target' = [target EXCEPT !.history = history]
    BY <1>1
  <1>7. /\ IsHome(target')
        /\ target' = [files |-> target.files, packed |-> target.packed, history |-> history,
                      index |-> target.index, dbs |-> target.dbs, listed |-> target.listed]
    BY ONLY <1>2, <1>4, <1>5, <1>6, HomeWithHistory
  <1>8. /\ target'.files = target.files /\ target'.history = history
        /\ target'.index = target.index /\ target'.dbs = target.dbs
    BY ONLY <1>7
  <1>9. /\ setup' \in Setups
        /\ SourceInv' /\ FoundInv' /\ ReadInv' /\ WrittenInv' /\ ArchiveInv'
        /\ IncomingPrompts' = IncomingPrompts /\ IncomingEntries' = IncomingEntries
        /\ ArchivedThreads' = ArchivedThreads
        /\ \A files : OfItsThread(files)' <=> OfItsThread(files)
    BY ImportFrame DEF ImportSteps
  <1>10. TargetInv'
    BY <1>2, <1>7, <1>8, <1>9 DEF TargetInv
  <1>11. ASSUME NEW i \in DOMAIN IncomingPrompts
         PROVE  KeptLine(IncomingPrompts[i], setup.target.history, history)
    <2>1. KeptLine(IncomingPrompts[i], setup.target.history, target.history)
      BY DEF IInv, MergeInv
    <2>2. AddsOnce(IncomingPrompts[i], target.history, some)
      OBVIOUS
    <2> QED
      BY ONLY <1>1, <1>3, <2>1, <2>2, IsSequence(some), AppendKeepsLine
  <1>12. MergeInv'
    BY <1>1, <1>8, <1>9, <1>11 DEF IInv, MergeInv
  <1>13. ThreadsOnDisk' = ThreadsOnDisk
    BY <1>8 DEF ThreadsOnDisk
  <1>14. HasTheRows(target.dbs) => HasTheRows(target.dbs)'
    BY <1>8, <1>9 DEF HasTheRows
  <1>15. SidecarInv'
    BY <1>9, <1>13, <1>14 DEF IInv, SidecarInv
  <1> QED
    BY <1>9, <1>10, <1>12, <1>15 DEF IInv

(* Prompts are merged, whole or in part.                                    *)
LEMMA MergeHistoryIInv ==
    ASSUME IInv, appendUniqueHistory
    PROVE  IInv'
  <1>1. PICK new : new = AppendLines(target.history, IncomingPrompts, historyKey)
    OBVIOUS
  <1>2. /\ setup' = setup /\ archive' = archive /\ primed' = primed
        /\ pc = "merge history" /\ pc' \in {"merge index", "stopped"}
        /\ \/ target' = [target EXCEPT !.history = @ \o new] /\ pc' = "merge index"
           \/ pc' = "stopped" /\ \E some \in CutShort(new) :
                                    target' = [target EXCEPT !.history = @ \o some]
           \/ pc' = "stopped" /\ target' = target
    BY <1>1 DEF appendUniqueHistory, IncomingPrompts
  <1>3. /\ IsSequence(target.history)
        /\ \A i \in DOMAIN target.history : IsPrompt(target.history[i])
    BY DEF IInv, TargetInv, IsHome
  <1>4. /\ IsSequence(IncomingPrompts)
        /\ \A i \in DOMAIN IncomingPrompts :
              IsPrompt(IncomingPrompts[i]) /\ IncomingPrompts[i] # Malformed
    BY IncomingLines DEF IInv
  <1>5. new = Subsequence(IncomingPrompts, New(target.history, IncomingPrompts))
    <2>1. \A i \in DOMAIN IncomingPrompts : 1..(i - 1) \subseteq DOMAIN IncomingPrompts
      BY <1>4 DEF IsSequence
    <2> QED
      BY ONLY <1>1, <1>3, <1>4, <2>1, KeysTellPrompts
  <1>6. Fresh(target.history, IncomingPrompts, new)
    BY ONLY <1>4, <1>5, NewIsFresh
  <1>7. /\ IsSequence(new)
        /\ \A k \in DOMAIN new : IsPrompt(new[k])
    BY <1>4, <1>6 DEF Fresh
  <1>8. /\ \A line : AddsOnce(line, target.history, new)
        /\ \A i \in DOMAIN IncomingPrompts : Places(target.history \o new, IncomingPrompts[i]) # {}
    BY ONLY <1>3, <1>6, FreshCompletes
  <1>9. CASE target' = [target EXCEPT !.history = @ \o new] /\ pc' = "merge index"
    BY <1>2, <1>7, <1>8, <1>9, HistoryGrows
  <1>10. CASE pc' = "stopped" /\ \E some \in CutShort(new) :
                                    target' = [target EXCEPT !.history = @ \o some]
    <2>1. PICK some \in CutShort(new) : target' = [target EXCEPT !.history = @ \o some]
      BY <1>10
    <2>2. /\ IsSequence(some)
          /\ \A k \in DOMAIN some : \/ some[k] = Malformed
                                    \/ k \in DOMAIN new /\ some[k] = new[k]
      BY ONLY <1>7, <2>1, CutIs
    <2>3. \A k \in DOMAIN some : IsPrompt(some[k])
      BY <1>7, <2>2 DEF IsPrompt, Malformed
    <2>4. \A i \in DOMAIN IncomingPrompts :
              AddsOnce(IncomingPrompts[i], target.history, some)
      BY ONLY <1>4, <1>7, <1>8, <2>1, CutAddsOnce
    <2> QED
      BY <1>2, <1>10, <2>1, <2>2, <2>3, <2>4, HistoryGrows
  <1>11. CASE pc' = "stopped" /\ target' = target
    BY <1>2, <1>11, StoppedIInv
  <1> QED
    BY <1>2, <1>9, <1>10, <1>11

(* So are index lines; then the databases are to be done.                   *)
LEMMA MergeIndexIInv ==
    ASSUME IInv, appendUniqueExact
    PROVE  IInv'
  <1>1. PICK new : new = AppendLines(target.index, IncomingEntries, LAMBDA line : line)
    OBVIOUS
  <1>2. /\ setup' = setup /\ archive' = archive /\ primed' = primed
        /\ pc = "merge index" /\ pc' \in {"databases", "stopped"}
        /\ \/ /\ target' = [target EXCEPT !.index = @ \o new] /\ pc' = "databases"
              /\ rolloutsStaged => pending' = DOMAIN target.dbs
           \/ pc' = "stopped" /\ \E some \in CutShort(new) \cup {<<>>} :
                                    target' = [target EXCEPT !.index = @ \o some]
    BY <1>1 DEF appendUniqueExact, IncomingEntries
  <1>3. /\ IsHome(target) /\ OfItsThread(target.files)
        /\ IsSequence(target.index) /\ \A i \in DOMAIN target.index : IsEntry(target.index[i])
    BY DEF IInv, TargetInv, IsHome
  <1>4. /\ IsSequence(IncomingEntries)
        /\ \A i \in DOMAIN IncomingEntries :
              IsEntry(IncomingEntries[i]) /\ IncomingEntries[i] # Malformed
    BY IncomingLines DEF IInv
  <1>5. new = Subsequence(IncomingEntries, New(target.index, IncomingEntries))
    BY ONLY <1>1, EntriesAreTheirKeys
  <1>6. Fresh(target.index, IncomingEntries, new)
    BY ONLY <1>4, <1>5, NewIsFresh
  <1>7. IsSequence(new) /\ \A k \in DOMAIN new : IsEntry(new[k])
    BY <1>4, <1>6 DEF Fresh
  <1>8. /\ \A line : AddsOnce(line, target.index, new)
        /\ \A i \in DOMAIN IncomingEntries : Places(target.index \o new, IncomingEntries[i]) # {}
    BY ONLY <1>3, <1>6, FreshCompletes
  <1>9. PICK some :
            /\ target' = [target EXCEPT !.index = @ \o some]
            /\ IsSequence(some) /\ \A k \in DOMAIN some : IsEntry(some[k])
            /\ \A i \in DOMAIN IncomingEntries :
                  AddsOnce(IncomingEntries[i], target.index, some)
            /\ pc' = "databases" => some = new
    <2>1. CASE target' = [target EXCEPT !.index = @ \o new] /\ pc' = "databases"
      BY <1>7, <1>8, <2>1
    <2>2. CASE pc' = "stopped" /\ \E part \in CutShort(new) \cup {<<>>} :
                                    target' = [target EXCEPT !.index = @ \o part]
      <3>1. PICK part \in CutShort(new) \cup {<<>>} :
                target' = [target EXCEPT !.index = @ \o part]
        BY <2>2
      <3>2. CASE part \in CutShort(new)
        <4>1. /\ IsSequence(part)
              /\ \A k \in DOMAIN part : \/ part[k] = Malformed
                                        \/ k \in DOMAIN new /\ part[k] = new[k]
          BY ONLY <1>7, <3>2, CutIs
        <4>2. \A k \in DOMAIN part : IsEntry(part[k])
          BY <1>7, <4>1 DEF IsEntry
        <4>3. \A i \in DOMAIN IncomingEntries :
                  AddsOnce(IncomingEntries[i], target.index, part)
          BY ONLY <1>4, <1>7, <1>8, <3>2, CutAddsOnce
        <4> QED
          BY <2>2, <3>1, <4>1, <4>2, <4>3
      <3>3. CASE part = <<>>
        <4>1. IsSequence(part) /\ DOMAIN part = {}
          BY <3>3 DEF IsSequence
        <4>2. \A line : AddsOnce(line, target.index, part)
          BY <4>1 DEF AddsOnce
        <4> QED
          BY <2>2, <3>1, <4>1, <4>2
      <3> QED
        BY <3>1, <3>2, <3>3
    <2> QED
      BY <1>2, <2>1, <2>2
  <1>10. PICK index : index = target.index \o some
    OBVIOUS
  <1>11. IsSequence(index)
    BY ONLY <1>3, <1>9, <1>10, Appended
  <1>12. \A i \in DOMAIN index : IsEntry(index[i])
    BY ONLY <1>3, <1>9, <1>10, EntriesAppended
  <1>13. target' = [target EXCEPT !.index = index]
    BY <1>9, <1>10
  <1>14. /\ IsHome(target')
         /\ target' = [files |-> target.files, packed |-> target.packed,
                       history |-> target.history, index |-> index, dbs |-> target.dbs,
                       listed |-> target.listed]
    BY ONLY <1>3, <1>11, <1>12, <1>13, HomeWithIndex
  <1>15. /\ target'.files = target.files /\ target'.history = target.history
         /\ target'.index = index /\ target'.dbs = target.dbs
    BY ONLY <1>14
  <1>16. /\ setup' \in Setups
         /\ SourceInv' /\ FoundInv' /\ ReadInv' /\ WrittenInv' /\ ArchiveInv'
         /\ IncomingPrompts' = IncomingPrompts /\ IncomingEntries' = IncomingEntries
         /\ ArchivedThreads' = ArchivedThreads /\ rolloutsStaged' = rolloutsStaged
         /\ \A files : OfItsThread(files)' <=> OfItsThread(files)
    BY <1>2, ImportFrame DEF ImportSteps
  <1>17. TargetInv'
    BY <1>3, <1>14, <1>15, <1>16 DEF TargetInv
  <1>18. ASSUME NEW i \in DOMAIN IncomingEntries
         PROVE  KeptLine(IncomingEntries[i], setup.target.index, index)
    <2>1. KeptLine(IncomingEntries[i], setup.target.index, target.index)
      BY DEF IInv, MergeInv
    <2>2. AddsOnce(IncomingEntries[i], target.index, some)
      BY <1>9
    <2> QED
      BY ONLY <1>3, <1>9, <1>10, <2>1, <2>2, AppendKeepsLine
  <1>19. MergeInv'
    BY <1>2, <1>8, <1>9, <1>10, <1>15, <1>16, <1>18 DEF IInv, MergeInv
  <1>20. ThreadsOnDisk' = ThreadsOnDisk
    BY <1>15 DEF ThreadsOnDisk
  <1>21. HasTheRows(target.dbs) => HasTheRows(target.dbs)'
    BY <1>15, <1>16 DEF HasTheRows
  <1>22. pc' = "databases" /\ rolloutsStaged => DOMAIN target'.dbs \ pending' = {}
    BY <1>2, <1>15
  <1>23. SidecarInv'
    BY <1>2, <1>16, <1>20, <1>21, <1>22 DEF IInv, SidecarInv
  <1> QED
    BY <1>16, <1>17, <1>19, <1>23 DEF IInv

(* A database whose rows take their sidecars is one, and armed when it is    *)
(* reset.                                                                   *)
LEMMA DatabaseUpdated ==
    ASSUME NEW db, IsDatabase(db), NEW new, new = [db EXCEPT !.rows = WithSidecars(@)]
    PROVE  /\ IsDatabase(new) /\ IsDatabase(Rearmed(new))
           /\ DOMAIN new.rows = DOMAIN db.rows /\ Rearmed(new).rows = new.rows
           /\ Armed(Rearmed(new))
  <1>1. PICK rows, status, watermark :
            db = [rows |-> rows, status |-> status, watermark |-> watermark]
    BY DEF IsDatabase
  <1>2. PICK updated : updated = WithSidecars(rows)
    OBVIOUS
  <1>3. new = [rows |-> updated, status |-> status, watermark |-> watermark]
    BY ONLY <1>1, <1>2, new = [db EXCEPT !.rows = WithSidecars(@)]
  <1>4. Rearmed(new) = [rows |-> updated, status |-> "pending", watermark |-> "none"]
    <2>1. PICK half : half = [new EXCEPT !.status = "pending"]
      OBVIOUS
    <2>2. half = [rows |-> updated, status |-> "pending", watermark |-> watermark]
      BY ONLY <1>3, <2>1
    <2>3. [half EXCEPT !.watermark = "none"]
              = [rows |-> updated, status |-> "pending", watermark |-> "none"]
      BY ONLY <2>2
    <2>4. Rearmed(new) = [[new EXCEPT !.status = "pending"] EXCEPT !.watermark = "none"]
      BY ONLY <1>3 DEF Rearmed
    <2> QED
      BY ONLY <2>1, <2>3, <2>4
  <1>5. \A id \in DOMAIN rows : rows[id] = [cwd |-> rows[id].cwd, side |-> rows[id].side]
    BY <1>1 DEF IsDatabase
  <1>6. /\ DOMAIN updated = DOMAIN rows /\ IsMap(updated)
        /\ \A id \in DOMAIN rows : id \notin DOMAIN archive.sidecars => updated[id] = rows[id]
        /\ \A id \in DOMAIN rows : id \in DOMAIN archive.sidecars =>
              updated[id] = [rows[id] EXCEPT !.side = archive.sidecars[id]]
    BY <1>2 DEF WithSidecars, IsMap
  <1>7. ASSUME NEW id \in DOMAIN rows
        PROVE  /\ updated[id] = [cwd |-> updated[id].cwd, side |-> updated[id].side]
               /\ id \in DOMAIN archive.sidecars => updated[id].side = archive.sidecars[id]
    <2>1. PICK cwd, side : rows[id] = [cwd |-> cwd, side |-> side]
      BY <1>5
    <2>2. CASE id \in DOMAIN archive.sidecars
      <3>1. updated[id] = [cwd |-> cwd, side |-> archive.sidecars[id]]
        BY <1>6, <2>1, <2>2
      <3> QED
        BY <3>1
    <2>3. CASE id \notin DOMAIN archive.sidecars
      BY <1>6, <2>1, <2>3
    <2> QED
      BY <2>2, <2>3
  <1>8. IsDatabase(new) /\ IsDatabase(Rearmed(new))
    BY <1>3, <1>4, <1>6, <1>7 DEF IsDatabase
  <1>9. Armed(Rearmed(new))
    BY <1>4, <1>6, <1>7 DEF Armed
  <1> QED
    BY <1>1, <1>3, <1>4, <1>6, <1>8, <1>9

(* A database that is committed is armed when rollouts were staged.          *)
LEMMA UpdateIInv ==
    ASSUME IInv, updateStateDatabase
    PROVE  IInv'
  <1>1. /\ setup' = setup /\ archive' = archive /\ primed' = primed
        /\ pc = "databases"
    BY DEF updateStateDatabase
  <1>2. CASE pc' = "stopped" /\ target' = target
    BY <1>1, <1>2, StoppedIInv
  <1>3. CASE \E g \in pending :
                 LET updated == [target.dbs[g] EXCEPT !.rows = WithSidecars(@)]
                 IN /\ target' = [target EXCEPT !.dbs[g] =
                                     IF rolloutsStaged THEN Rearmed(updated) ELSE updated]
                    /\ \/ pending' = pending \ {g} /\ UNCHANGED pc
                       \/ pending' = {} /\ pc' = "stopped"
    <2>1. PICK g \in pending :
              LET updated == [target.dbs[g] EXCEPT !.rows = WithSidecars(@)]
              IN /\ target' = [target EXCEPT !.dbs[g] =
                                  IF rolloutsStaged THEN Rearmed(updated) ELSE updated]
                 /\ \/ pending' = pending \ {g} /\ UNCHANGED pc
                    \/ pending' = {} /\ pc' = "stopped"
      BY <1>3
    <2>2. PICK updated : updated = [target.dbs[g] EXCEPT !.rows = WithSidecars(@)]
      OBVIOUS
    <2>3. PICK db : db = IF rolloutsStaged THEN Rearmed(updated) ELSE updated
      OBVIOUS
    <2>4. PICK dbs : dbs = [target.dbs EXCEPT ![g] = db]
      OBVIOUS
    <2>5. /\ IsHome(target) /\ OfItsThread(target.files)
          /\ IsMap(target.dbs)
          /\ \A h \in DOMAIN target.dbs : h \in Nat /\ IsDatabase(target.dbs[h])
      BY DEF IInv, TargetInv, IsHome
    <2>6. g \in DOMAIN target.dbs =>
              /\ IsDatabase(db) /\ DOMAIN db.rows = DOMAIN target.dbs[g].rows
              /\ rolloutsStaged => Armed(db)
      <3> SUFFICES ASSUME g \in DOMAIN target.dbs
                   PROVE  /\ IsDatabase(db) /\ DOMAIN db.rows = DOMAIN target.dbs[g].rows
                          /\ rolloutsStaged => Armed(db)
        OBVIOUS
      <3>1. IsDatabase(target.dbs[g])
        BY <2>5
      <3>2. /\ IsDatabase(updated) /\ IsDatabase(Rearmed(updated))
            /\ DOMAIN updated.rows = DOMAIN target.dbs[g].rows
            /\ Rearmed(updated).rows = updated.rows
            /\ Armed(Rearmed(updated))
        BY ONLY <2>2, <3>1, DatabaseUpdated
      <3> QED
        BY ONLY <2>3, <3>2
    <2>7. /\ DOMAIN dbs = DOMAIN target.dbs /\ IsMap(dbs)
          /\ g \in DOMAIN dbs => dbs[g] = db
          /\ \A h \in DOMAIN dbs : h # g => dbs[h] = target.dbs[h]
      BY <2>4, <2>5 DEF IsMap
    <2>8. \A h \in DOMAIN dbs : h \in Nat /\ IsDatabase(dbs[h])
      BY <2>5, <2>6, <2>7
    <2>9. target' = [target EXCEPT !.dbs = dbs]
      <3>1. PICK t : t = target
        OBVIOUS
      <3>2. PICK files, packed, history, index, b, listed :
                t = [files |-> files, packed |-> packed, history |-> history,
                     index |-> index, dbs |-> b, listed |-> listed]
        BY <2>5, <3>1 DEF IsHome
      <3>3. target' = [t EXCEPT !.dbs[g] = db]
        BY <2>1, <2>2, <2>3, <3>1
      <3> QED
        BY ONLY <2>4, <3>1, <3>2, <3>3
    <2>10. /\ IsHome(target')
           /\ target' = [files |-> target.files, packed |-> target.packed,
                         history |-> target.history, index |-> target.index, dbs |-> dbs,
                         listed |-> target.listed]
      BY ONLY <2>5, <2>7, <2>8, <2>9, HomeWithDatabases
    <2>11. /\ target'.files = target.files /\ target'.history = target.history
           /\ target'.index = target.index /\ target'.dbs = dbs
      BY ONLY <2>10
    <2>12. (pc' = "databases" /\ pending' = pending \ {g}) \/ pc' = "stopped"
      BY <1>1, <2>1
    <2>13. /\ setup' \in Setups
           /\ SourceInv' /\ FoundInv' /\ ReadInv' /\ WrittenInv' /\ ArchiveInv'
           /\ IncomingPrompts' = IncomingPrompts /\ IncomingEntries' = IncomingEntries
           /\ ArchivedThreads' = ArchivedThreads /\ rolloutsStaged' = rolloutsStaged
           /\ \A files : OfItsThread(files)' <=> OfItsThread(files)
      BY <1>1, <2>12, ImportFrame DEF ImportSteps
    <2>14. TargetInv'
      BY <2>5, <2>10, <2>11, <2>13 DEF TargetInv
    <2>15. MergeInv'
      BY <1>1, <2>11, <2>12, <2>13 DEF IInv, MergeInv
    <2>16. ThreadsOnDisk' = ThreadsOnDisk
      BY <2>11 DEF ThreadsOnDisk
    <2>17. HasTheRows(target.dbs) => HasTheRows(target.dbs)'
      <3>1. \A h \in DOMAIN dbs : DOMAIN dbs[h].rows = DOMAIN target.dbs[h].rows
        BY <2>6, <2>7
      <3> QED
        BY <2>7, <2>11, <2>13, <3>1 DEF HasTheRows
    <2>18. pc' = "databases" /\ rolloutsStaged => \A h \in DOMAIN dbs \ pending' : Armed(dbs[h])
      <3>1. rolloutsStaged => \A h \in DOMAIN target.dbs \ pending : Armed(target.dbs[h])
        BY <1>1 DEF IInv, SidecarInv
      <3>2. pc' = "databases" => pending' = pending \ {g}
        BY <2>12
      <3> QED
        BY ONLY <2>6, <2>7, <3>1, <3>2
    <2>19. \A other : Armed(other)' <=> Armed(other)
      BY <1>1 DEF Armed
    <2>20. SidecarInv'
      BY <1>1, <2>11, <2>12, <2>13, <2>16, <2>17, <2>18, <2>19 DEF IInv, SidecarInv
    <2> QED
      BY <2>13, <2>14, <2>15, <2>20 DEF IInv
  <1> QED
    BY <1>2, <1>3 DEF updateStateDatabase

(* The import ends when every database is committed.                        *)
LEMMA FinalizedIInv ==
    ASSUME IInv, Finalized
    PROVE  IInv'
  <1>1. /\ setup' = setup /\ archive' = archive /\ primed' = primed /\ target' = target
        /\ pc = "databases" /\ pc' = "imported" /\ pending = {} /\ pending' = {}
    BY DEF Finalized
  <1>2. /\ setup' \in Setups
        /\ SourceInv' /\ FoundInv' /\ ReadInv' /\ WrittenInv' /\ ArchiveInv'
        /\ IncomingPrompts' = IncomingPrompts /\ IncomingEntries' = IncomingEntries
        /\ ArchivedThreads' = ArchivedThreads /\ rolloutsStaged' = rolloutsStaged
        /\ \A files : OfItsThread(files)' <=> OfItsThread(files)
    BY <1>1, ImportFrame DEF ImportSteps
  <1>3. TargetInv'
    BY <1>1, <1>2 DEF IInv, TargetInv
  <1>4. MergeInv'
    BY <1>1, <1>2 DEF IInv, MergeInv
  <1>5. ThreadsOnDisk' = ThreadsOnDisk
    BY <1>1 DEF ThreadsOnDisk
  <1>6. HasTheRows(target.dbs) => HasTheRows(target.dbs)'
    BY <1>1, <1>2 DEF HasTheRows
  <1>7. \A db : Armed(db)' <=> Armed(db)
    BY <1>1 DEF Armed
  <1>8. SidecarInv'
    BY <1>1, <1>2, <1>5, <1>6, <1>7 DEF IInv, SidecarInv
  <1> QED
    BY <1>2, <1>3, <1>4, <1>8 DEF IInv

(***************************************************************************)
(* Codex between two imports                                               *)
(***************************************************************************)

(* A start of Codex leaves a database, and a backfill the threads on disk.  *)
LEMMA BackfilledDatabase ==
    ASSUME NEW db, IsDatabase(db)
    PROVE  /\ IsDatabase(Backfilled(db))
           /\ db.status = "pending" /\ db.watermark = "none" =>
                 ThreadsOnDisk \subseteq DOMAIN Backfilled(db).rows
           /\ DOMAIN db.rows \subseteq DOMAIN Backfilled(db).rows
  <1> DEFINE new == [id \in ThreadsOnDisk |-> NewRow]
  <1>1. PICK rows, status, watermark :
            db = [rows |-> rows, status |-> status, watermark |-> watermark]
    BY DEF IsDatabase
  <1>2. /\ IsMap(rows)
        /\ \A id \in DOMAIN rows : rows[id] = [cwd |-> rows[id].cwd, side |-> rows[id].side]
    BY <1>1 DEF IsDatabase
  <1>3. PICK filled : filled = Over(rows, new)
    OBVIOUS
  <1>4. /\ DOMAIN filled = DOMAIN rows \cup ThreadsOnDisk /\ IsMap(filled)
        /\ \A id \in DOMAIN filled : filled[id] = rows[id] \/ filled[id] = NewRow
        /\ \A id \in DOMAIN rows : filled[id] = rows[id]
    BY <1>3 DEF Over, IsMap
  <1>5. NewRow = [cwd |-> NewRow.cwd, side |-> NewRow.side]
    BY DEF NewRow
  <1>6. \A id \in DOMAIN filled :
            filled[id] = [cwd |-> filled[id].cwd, side |-> filled[id].side]
    <2> TAKE id \in DOMAIN filled
    <2>1. CASE id \in DOMAIN rows
      BY <1>2, <1>4, <2>1
    <2>2. CASE id \notin DOMAIN rows
      <3>1. filled[id] = NewRow
        BY <1>3, <1>4, <2>2 DEF Over
      <3> QED
        BY ONLY <1>5, <3>1
    <2> QED
      BY <2>1, <2>2
  <1>7. PICK after : after = IF status = "pending" /\ watermark = "none" THEN filled ELSE rows
    OBVIOUS
  <1>8. Backfilled(db) = [rows |-> after, status |-> "complete", watermark |-> "last"]
    BY <1>1, <1>3, <1>7 DEF Backfilled
  <1>9. IsMap(after) /\ \A id \in DOMAIN after :
                            after[id] = [cwd |-> after[id].cwd, side |-> after[id].side]
    BY ONLY <1>2, <1>4, <1>6, <1>7
  <1>10. IsDatabase(Backfilled(db))
    BY ONLY <1>8, <1>9 DEF IsDatabase
  <1> QED
    BY <1>1, <1>4, <1>7, <1>8, <1>10

(* The database that Codex starts with after an import has the threads.     *)
LEMMA CodexStartsIInv ==
    ASSUME IInv, CodexStarts
    PROVE  IInv'
  <1>1. /\ setup' = setup /\ archive' = archive /\ pc \in Idle /\ pc' = "carried"
        /\ primed' = (primed \/ pc = "imported")
    BY DEF CodexStarts
  <1>2. PICK g \in 1..MaxGeneration :
            /\ \A other \in DOMAIN target.dbs : other <= g
            /\ LET db == IF g \in DOMAIN target.dbs THEN target.dbs[g] ELSE NoDatabase
               IN target' = [target EXCEPT !.dbs = Over([h \in {g} |-> Backfilled(db)], @)]
    BY DEF CodexStarts
  <1>3. PICK db : db = IF g \in DOMAIN target.dbs THEN target.dbs[g] ELSE NoDatabase
    OBVIOUS
  <1>4. PICK dbs : dbs = Over([h \in {g} |-> Backfilled(db)], target.dbs)
    OBVIOUS
  <1>5. target' = [target EXCEPT !.dbs = dbs]
    BY <1>2, <1>3, <1>4
  <1>6. /\ IsHome(target) /\ OfItsThread(target.files)
        /\ IsMap(target.dbs)
        /\ \A h \in DOMAIN target.dbs : h \in Nat /\ IsDatabase(target.dbs[h])
    BY DEF IInv, TargetInv, IsHome
  <1>7. IsDatabase(db)
    <2>1. IsDatabase(NoDatabase)
      BY DEF IsDatabase, NoDatabase, IsMap
    <2> QED
      BY <1>3, <1>6, <2>1
  <1>8. /\ IsDatabase(Backfilled(db))
        /\ db.status = "pending" /\ db.watermark = "none" =>
              ThreadsOnDisk \subseteq DOMAIN Backfilled(db).rows
        /\ DOMAIN db.rows \subseteq DOMAIN Backfilled(db).rows
    BY <1>7, BackfilledDatabase
  <1>9. /\ DOMAIN dbs = {g} \cup DOMAIN target.dbs /\ IsMap(dbs)
        /\ dbs[g] = Backfilled(db)
        /\ \A h \in DOMAIN target.dbs \ {g} : dbs[h] = target.dbs[h]
    BY <1>4 DEF Over, IsMap
  <1>10. g \in Nat /\ \A h \in DOMAIN dbs : h \in Nat /\ IsDatabase(dbs[h])
    <2>1. g \in Nat
      BY GenerationsAssumption
    <2> QED
      BY <1>6, <1>8, <1>9, <2>1
  <1>11. /\ IsHome(target')
         /\ target' = [files |-> target.files, packed |-> target.packed,
                       history |-> target.history, index |-> target.index, dbs |-> dbs,
                       listed |-> target.listed]
    BY ONLY <1>5, <1>6, <1>9, <1>10, HomeWithDatabases
  <1>12. /\ target'.files = target.files /\ target'.history = target.history
         /\ target'.index = target.index /\ target'.dbs = dbs
    BY ONLY <1>11
  <1>13. /\ setup' \in Setups
         /\ SourceInv' /\ FoundInv' /\ ReadInv' /\ WrittenInv' /\ ArchiveInv'
         /\ IncomingPrompts' = IncomingPrompts /\ IncomingEntries' = IncomingEntries
         /\ ArchivedThreads' = ArchivedThreads
         /\ \A files : OfItsThread(files)' <=> OfItsThread(files)
    BY <1>1, ImportFrame DEF ImportSteps
  <1>14. TargetInv'
    BY <1>6, <1>11, <1>12, <1>13 DEF TargetInv
  <1>15. MergeInv'
    BY <1>1, <1>12, <1>13 DEF IInv, MergeInv
  <1>16. ThreadsOnDisk' = ThreadsOnDisk
    BY <1>12 DEF ThreadsOnDisk
  <1>17. primed' => ArchivedThreads \subseteq ThreadsOnDisk
    BY <1>1 DEF IInv, SidecarInv
  <1>18. ASSUME primed' PROVE ArchivedThreads \subseteq DOMAIN dbs[g].rows
    <2>1. CASE db.status = "pending" /\ db.watermark = "none"
      BY <1>8, <1>9, <1>17, <1>18, <2>1
    <2>2. CASE ~(db.status = "pending" /\ db.watermark = "none")
      <3>1. g \in DOMAIN target.dbs /\ db = target.dbs[g]
        BY <1>3, <2>2 DEF NoDatabase
      <3>2. CASE primed
        <4>1. HasTheRows(target.dbs)
          BY <3>2 DEF IInv, SidecarInv
        <4>2. PICK newest \in DOMAIN target.dbs :
                  /\ \A other \in DOMAIN target.dbs : other <= newest
                  /\ ArchivedThreads \subseteq DOMAIN target.dbs[newest].rows
          BY <4>1 DEF HasTheRows
        <4>3. newest = g
          <5>1. newest <= g /\ g <= newest
            BY <1>2, <3>1, <4>2
          <5>2. newest \in Nat
            BY <1>6
          <5> QED
            BY ONLY <1>10, <5>1, <5>2
        <4> QED
          BY <1>8, <1>9, <3>1, <4>2, <4>3
      <3>3. CASE pc = "imported"
        <4>1. ~rolloutsStaged
          <5> SUFFICES ASSUME rolloutsStaged PROVE FALSE
            OBVIOUS
          <5>1. Armed(target.dbs[g])
            BY <3>1, <3>3 DEF IInv, SidecarInv
          <5> QED
            BY <2>2, <3>1, <5>1 DEF Armed
        <4>2. DOMAIN archive.origin = {}
          BY <4>1 DEF rolloutsStaged, IInv, ArchiveInv, ArchivedRollouts
        <4> QED
          BY <4>2 DEF ArchivedThreads
      <3> QED
        BY <1>1, <1>18, <3>2, <3>3
    <2> QED
      BY <2>1, <2>2
  <1>19. primed' => HasTheRows(target.dbs)'
    BY <1>2, <1>9, <1>10, <1>12, <1>13, <1>18 DEF HasTheRows
  <1>20. SidecarInv'
    BY <1>1, <1>13, <1>16, <1>17, <1>19 DEF IInv, SidecarInv
  <1> QED
    BY <1>13, <1>14, <1>15, <1>20 DEF IInv

(* A thread that Codex archives stays on disk, and a prompt that it takes   *)
(* from a copy was not there.                                               *)
LEMMA CodexUsedIInv ==
    ASSUME IInv, CodexUsed
    PROVE  IInv'
  <1>1. /\ setup' = setup /\ archive' = archive /\ primed' = primed /\ pc' = "carried"
    BY DEF CodexUsed
  <1>2. /\ IsHome(target) /\ OfItsThread(target.files) /\ setup \in Setups
    BY DEF IInv, TargetInv
  <1>3. ASSUME NEW file \in DOMAIN target.files, target' = Renamed(target, file)
        PROVE  IInv'
    <2>1. PICK files : files = Renamed(target, file).files
      OBVIOUS
    <2>2. /\ IsHome(Renamed(target, file)) /\ AreFiles(files)
          /\ Renamed(target, file) = [target EXCEPT !.files = files]
          /\ \E to : /\ IsFile(to) /\ to.name = file.name
                     /\ files = Over([f \in {to} |-> target.files[file]],
                                     Without(target.files, {file}))
      BY ONLY <1>2, <2>1, RenamedFiles, file \in DOMAIN target.files
    <2>3. /\ IsHome(target')
          /\ target' = [files |-> files, packed |-> target.packed, history |-> target.history,
                        index |-> target.index, dbs |-> target.dbs, listed |-> target.listed]
      <3>1. target' = [target EXCEPT !.files = files]
        BY ONLY <1>3, <2>2
      <3> QED
        BY ONLY <1>2, <2>2, <3>1, HomeWithFiles
    <2>4. /\ target'.files = files /\ target'.history = target.history
          /\ target'.index = target.index /\ target'.dbs = target.dbs
      BY ONLY <2>3
    <2>5. /\ setup' \in Setups
          /\ SourceInv' /\ FoundInv' /\ ReadInv' /\ WrittenInv' /\ ArchiveInv'
          /\ IncomingPrompts' = IncomingPrompts /\ IncomingEntries' = IncomingEntries
          /\ ArchivedThreads' = ArchivedThreads
          /\ \A some : OfItsThread(some)' <=> OfItsThread(some)
      BY <1>1, ImportFrame DEF ImportSteps
    <2>6. TargetInv'
      BY <2>2, <2>3, <2>4, <2>5 DEF TargetInv, AreFiles
    <2>7. MergeInv'
      BY <1>1, <2>4, <2>5 DEF IInv, MergeInv
    <2>8. ThreadsOnDisk \subseteq ThreadsOnDisk'
      <3>1. PICK to : /\ to.name = file.name
                      /\ files = Over([f \in {to} |-> target.files[file]],
                                      Without(target.files, {file}))
        BY <2>2
      <3>2. /\ DOMAIN files = {to} \cup (DOMAIN target.files \ {file})
            /\ files[to] = target.files[file]
            /\ \A f \in DOMAIN target.files \ {file, to} : files[f] = target.files[f]
        BY <3>1 DEF Over, Without
      <3>3. ASSUME NEW f \in DOMAIN target.files
            PROVE  \E h \in DOMAIN files : ThreadIDOf(files[h]) = ThreadIDOf(target.files[f])
        <4>1. CASE f = file
          BY <3>2, <4>1
        <4>2. CASE f # file /\ f = to
          <5>1. /\ ThreadIDOf(target.files[f]) \in IDs(f.name)
                /\ ThreadIDOf(target.files[file]) \in IDs(f.name)
            BY <1>2, <3>1, <4>2 DEF OfItsThread
          <5>2. ThreadIDOf(target.files[f]) = ThreadIDOf(target.files[file])
            BY <1>2, <5>1, OneID
          <5> QED
            BY <3>2, <5>2
        <4>3. CASE f # file /\ f # to
          BY <3>2, <4>3
        <4> QED
          BY <4>1, <4>2, <4>3
      <3> QED
        BY <2>4, <3>3 DEF ThreadsOnDisk
    <2>9. HasTheRows(target.dbs) => HasTheRows(target.dbs)'
      BY <2>4, <2>5 DEF HasTheRows
    <2>10. SidecarInv'
      BY <1>1, <2>5, <2>8, <2>9 DEF IInv, SidecarInv
    <2> QED
      BY <2>5, <2>6, <2>7, <2>10 DEF IInv
  <1>4. ASSUME archive.history # <<>>, NEW prompt, prompt = IncomingPrompts[1],
               \A i \in DOMAIN target.history : target.history[i] # prompt,
               target' = [target EXCEPT !.history = Append(@, prompt)]
        PROVE  IInv'
    <2>1. PICK some : some = <<prompt>>
      OBVIOUS
    <2>2. IsSequence(some) /\ DOMAIN some = {1} /\ some[1] = prompt
      BY <2>1 DEF IsSequence
    <2>3. /\ IsSequence(archive.history)
          /\ IsSequence(IncomingPrompts) /\ DOMAIN IncomingPrompts = DOMAIN archive.history
          /\ \A i \in DOMAIN IncomingPrompts : IsPrompt(IncomingPrompts[i])
      BY IncomingLines DEF IInv, ArchiveInv, ArchivedPrompts
    <2>4. 1 \in DOMAIN archive.history
      <3>1. PICK n \in Nat : archive.history = [i \in 1..n |-> archive.history[i]]
        BY <2>3 DEF IsSequence
      <3>2. n # 0
        <4> SUFFICES ASSUME n = 0 PROVE FALSE
          OBVIOUS
        <4>1. DOMAIN archive.history = {}
          BY <3>1
        <4> QED
          BY <1>4, <3>1, <4>1
      <3>3. 1 \in 1..n
        BY ONLY <3>1, <3>2, n \in Nat
      <3> QED
        BY <3>1, <3>3
    <2>5. \A k \in DOMAIN some : IsPrompt(some[k])
      BY <1>4, <2>2, <2>3, <2>4
    <2>6. \A line : AddsOnce(line, target.history, some)
      BY <1>4, <2>2 DEF AddsOnce, Places
    <2>7. IsSequence(target.history)
      BY <1>2 DEF IsHome
    <2>8. Append(target.history, prompt) = target.history \o some
      <3> DEFINE h == target.history
                 S == {h[i] : i \in 1..Len(h)} \cup {prompt}
      <3>1. h \in [1..Len(h) -> {h[i] : i \in 1..Len(h)}] /\ Len(h) \in Nat
        BY <2>7 DEF IsSequence
      <3>2. h \in [1..Len(h) -> S] /\ prompt \in S
        BY <3>1
      <3>3. h \in Seq(S)
        <4>1. PICK n \in Nat : h \in [1..n -> S]
          BY <3>1, <3>2
        <4> HIDE DEF h, S
        <4> QED
          BY ONLY <4>1, n \in Nat
      <3> HIDE DEF h, S
      <3>4. Append(h, prompt) = h \o some
        BY ONLY <2>1, <3>2, <3>3
      <3> QED
        BY <3>4 DEF h
    <2>9. target' = [target EXCEPT !.history = @ \o some]
      BY <1>4, <2>8
    <2> QED
      BY <1>1, <2>2, <2>5, <2>6, <2>9, HistoryGrows
  <1>5. \/ \E file \in DOMAIN target.files : target' = Renamed(target, file)
        \/ /\ archive.history # <<>>
           /\ \E prompt : /\ prompt = IncomingPrompts[1]
                          /\ \A i \in DOMAIN target.history : target.history[i] # prompt
                          /\ target' = [target EXCEPT !.history = Append(@, prompt)]
    BY DEF CodexUsed, IncomingPrompts
  <1> QED
    BY ONLY <1>3, <1>4, <1>5

(***************************************************************************)
(* The theorems                                                            *)
(***************************************************************************)

(* Every step keeps the invariant.                                          *)
LEMMA NextIInv ==
    ASSUME IInv, [Next]_transferVars
    PROVE  IInv'
  <1>1. CASE Export /\ UNCHANGED <<target, pending, runs, primed>>
    BY <1>1, BeginIInv, WalkSessionsIInv, WalkArchivedIInv, ClassifyIInv, ReadIInv,
       IdentifyIInv, WriteRolloutsIInv, IndexIInv, SidecarIInv, HistoryIInv DEF Export
  <1>2. CASE CodexRuns /\ UNCHANGED <<target, pending, runs, primed>>
    BY <1>2, CodexRunsIInv
  <1>3. CASE CarryOver
    BY <1>3, CarryOverIInv
  <1>4. CASE Import
    BY <1>4, StageIInv, MergeHistoryIInv, MergeIndexIInv, UpdateIInv, FinalizedIInv DEF Import
  <1>5. CASE CodexStarts
    BY <1>5, CodexStartsIInv
  <1>6. CASE CodexUsed
    BY <1>6, CodexUsedIInv
  <1>7. CASE UNCHANGED transferVars
    <2>1. /\ setup' = setup /\ source' = source /\ pc' = pc /\ found' = found
          /\ lines' = lines /\ threadIDs' = threadIDs /\ archive' = archive /\ kept' = kept
          /\ target' = target /\ pending' = pending /\ primed' = primed
      BY <1>7 DEF transferVars, exportVars
    <2>2. /\ \A name : IDs(name)' = IDs(name)
          /\ \A files : OfItsThread(files)' <=> OfItsThread(files)
          /\ OfProject(kept.files)' = OfProject(kept.files)
          /\ projectThreadIDs(kept)' = projectThreadIDs(kept)
      BY <2>1, SameSetup DEF OfProject, identityMatchesProject, projectThreadIDs, rowsOfProject
    <2>3. SourceInv'
      BY <2>1, <2>2 DEF IInv, SourceInv
    <2>4. FoundInv'
      BY <2>1, <2>2 DEF IInv, FoundInv
    <2>5. ReadInv'
      BY <2>1, <2>2 DEF IInv, ReadInv
    <2>6. WrittenInv'
      <3>1. \A written, read : Holds(written, read)' <=> Holds(written, read)
        BY <2>1, HoldsFrame
      <3>2. /\ RolloutsWritten => RolloutsWritten'
            /\ IndexWritten => IndexWritten'
            /\ HistoryWritten => HistoryWritten'
        BY <2>1, <2>2, <3>1 DEF RolloutsWritten, IndexWritten, HistoryWritten
      <3> QED
        BY <2>1, <3>2 DEF IInv, WrittenInv, WithSessions
    <2>7. ArchiveInv'
      BY <2>1, ArchiveFrame
    <2>8. TargetInv'
      BY <2>1, <2>2 DEF IInv, TargetInv
    <2>9. IncomingPrompts' = IncomingPrompts /\ IncomingEntries' = IncomingEntries
      BY <2>1 DEF IncomingPrompts, IncomingEntries, ResolvedLines, Resolved,
                  codexImportResolutions
    <2>10. MergeInv'
      BY <2>1, <2>9 DEF IInv, MergeInv
    <2>11. /\ ArchivedThreads' = ArchivedThreads /\ ThreadsOnDisk' = ThreadsOnDisk
           /\ (rolloutsStaged' <=> rolloutsStaged)
           /\ \A db : Armed(db)' <=> Armed(db)
      BY <2>1 DEF ArchivedThreads, ThreadsOnDisk, rolloutsStaged, Armed
    <2>12. HasTheRows(target.dbs) => HasTheRows(target.dbs)'
      BY <2>1, <2>11 DEF HasTheRows
    <2>13. SidecarInv'
      BY <2>1, <2>11, <2>12 DEF IInv, SidecarInv
    <2> QED
      BY <2>1, <2>3, <2>4, <2>5, <2>6, <2>7, <2>8, <2>10, <2>13 DEF IInv
  <1> QED
    BY <1>1, <1>2, <1>3, <1>4, <1>5, <1>6, <1>7 DEF Next

(* The invariant holds throughout, whatever the homes hold, however often   *)
(* the archive is imported and wherever an import stops.                    *)
THEOREM TransferInvariant == Spec => []IInv
  <1>1. InitTransfer => IInv
    BY InitIInv
  <1>2. IInv /\ [Next]_transferVars => IInv'
    BY NextIInv
  <1> QED
    BY <1>1, <1>2, PTL DEF Spec

(* An export that succeeds has every rollout of the project that Codex left  *)
(* alone meanwhile, with all of its lines, and every prompt and index line  *)
(* of its threads, those that only a database knows included                *)
(* (export_import_stats.go:1322).                                           *)
THEOREM ExportCompletes == Spec => []ExportIsComplete
  <1>1. IInv => ExportIsComplete
    <2> SUFFICES ASSUME IInv, pc = "exported"
                 PROVE  /\ setup.selected.sessions => RolloutsWritten /\ IndexWritten
                        /\ setup.selected.history => HistoryWritten
                        /\ ProjectThreads(kept) \subseteq threadIDs
      BY DEF ExportIsComplete, RolloutsWritten, IndexWritten, HistoryWritten
    <2>1. /\ setup.selected.sessions => RolloutsWritten /\ IndexWritten
          /\ setup.selected.history => HistoryWritten
      BY DEF IInv, WrittenInv, WithSessions
    <2>2. ProjectThreads(kept) \subseteq threadIDs
      BY DEF IInv, ReadInv, AfterRead, ProjectThreads
    <2> QED
      BY <2>1, <2>2
  <1> QED
    BY <1>1, TransferInvariant, PTL

(* However often the archive is imported and wherever an import stopped, a  *)
(* success leaves each of its prompts and index lines there: where it stood  *)
(* before the first import, or once (export_import_stats.go:726, 759, 799). *)
THEOREM LinesMergeOnce == Spec => []MergedOnce
  <1>1. IInv => MergedOnce
    <2> SUFFICES ASSUME IInv, pc = "imported"
                 PROVE  /\ Merged(archive.history, setup.target.history, target.history)
                        /\ Merged(archive.index, setup.target.index, target.index)
      BY DEF MergedOnce
    <2>1. ASSUME NEW incoming, NEW before, NEW after,
                 \A i \in DOMAIN incoming :
                     /\ KeptLine(ResolvedLines(incoming)[i], before, after)
                     /\ Places(after, ResolvedLines(incoming)[i]) # {}
          PROVE  Merged(incoming, before, after)
      <3>1. ASSUME NEW i \in DOMAIN incoming,
                   NEW line, line = ResolvedLines(incoming)[i]
            PROVE  IF Places(before, line) = {} THEN Cardinality(Places(after, line)) = 1
                   ELSE Places(after, line) = Places(before, line)
        <4>1. KeptLine(line, before, after) /\ Places(after, line) # {}
          BY <2>1, <3>1
        <4>2. CASE Places(before, line) = {}
          <5>1. PICK k : Places(after, line) = {k}
            BY <4>1, <4>2 DEF KeptLine
          <5>2. Cardinality({k}) = 1
            BY FS_Singleton
          <5> QED
            BY <4>2, <5>1, <5>2
        <4>3. CASE Places(before, line) # {}
          BY <4>1, <4>3 DEF KeptLine
        <4> QED
          BY <4>2, <4>3
      <3> QED
        BY <3>1 DEF Merged
    <2>2. /\ DOMAIN IncomingPrompts = DOMAIN archive.history
          /\ DOMAIN IncomingEntries = DOMAIN archive.index
      BY IncomingLines DEF IInv
    <2>3. /\ \A i \in DOMAIN archive.history :
                /\ KeptLine(IncomingPrompts[i], setup.target.history, target.history)
                /\ Places(target.history, IncomingPrompts[i]) # {}
          /\ \A i \in DOMAIN archive.index :
                /\ KeptLine(IncomingEntries[i], setup.target.index, target.index)
                /\ Places(target.index, IncomingEntries[i]) # {}
      BY <2>2 DEF IInv, MergeInv
    <2> QED
      BY <2>1, <2>3 DEF IncomingPrompts, IncomingEntries
  <1> QED
    BY <1>1, TransferInvariant, PTL

(* Import, start Codex, import again: the newest database then has the      *)
(* sidecar of every thread of the archive, whatever its gate said before    *)
(* and whatever failed in between (export_import_stats.go:664, 958).        *)
THEOREM SidecarsArrive == Spec => []SidecarsReachTheRows
  <1>1. IInv => SidecarsReachTheRows
    <2> SUFFICES ASSUME IInv, pc = "imported", primed,
                        NEW id \in DOMAIN archive.sidecars,
                        NEW file \in DOMAIN archive.origin,
                        ThreadIDOf(archive.origin[file]) = id
                 PROVE  LET newest == target.dbs[Max(DOMAIN target.dbs)].rows
                        IN id \in DOMAIN newest /\ newest[id].side = archive.sidecars[id]
      BY DEF SidecarsReachTheRows
    <2>1. PICK g \in DOMAIN target.dbs :
              /\ \A other \in DOMAIN target.dbs : other <= g
              /\ ArchivedThreads \subseteq DOMAIN target.dbs[g].rows
      BY DEF IInv, SidecarInv, HasTheRows
    <2>2. DOMAIN target.dbs \subseteq Nat
      BY DEF IInv, TargetInv, IsHome
    <2>3. Max(DOMAIN target.dbs) = g
      <3> DEFINE D == DOMAIN target.dbs
      <3>1. D \subseteq Nat /\ g \in D /\ \A other \in D : g >= other
        BY <2>1, <2>2
      <3> HIDE DEF D
      <3>2. Max(D) \in D /\ \A other \in D : Max(D) >= other
        BY ONLY <3>1 DEF Max
      <3>3. Max(D) \in Nat /\ g \in Nat /\ Max(D) >= g /\ g >= Max(D)
        BY ONLY <3>1, <3>2
      <3>4. Max(D) = g
        BY ONLY <3>3
      <3> QED
        BY <3>4 DEF D
    <2>4. id \in DOMAIN target.dbs[g].rows
      BY <2>1 DEF ArchivedThreads
    <2>5. rolloutsStaged
      BY DEF rolloutsStaged, IInv, ArchiveInv, ArchivedRollouts
    <2>6. Armed(target.dbs[g])
      BY <2>1, <2>5 DEF IInv, SidecarInv
    <2>7. target.dbs[g].rows[id].side = archive.sidecars[id]
      BY <2>4, <2>6 DEF Armed
    <2> QED
      BY <2>3, <2>4, <2>7
  <1> QED
    BY <1>1, TransferInvariant, PTL
=============================================================================
