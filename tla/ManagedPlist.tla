---------------------------- MODULE ManagedPlist ----------------------------
(***************************************************************************)
(* The string under one key of a managed-preference property list           *)
(* (internal/tool/codex/requirements.go, plistTopLevelString), in both of   *)
(* its formats.                                                             *)
(*                                                                         *)
(* An XML list is the sequence of items its decoder meets: an element with  *)
(* all it contains is one item, the opening and closing tags of plist and   *)
(* dict are items of their own. A binary list is its trailer and, of each   *)
(* object, where it starts, its type and its length.                        *)
(***************************************************************************)
EXTENDS Naturals, Sequences, FiniteSets

CONSTANTS
    Word,           \* machine integers are below this (2^64 in the code)
    HeaderLength,   \* "bplist00"
    MaxIntSize      \* the widest offset or reference (8 bytes)

ASSUME PlistAssumption ==
    /\ Word \in Nat \ {0}
    /\ HeaderLength \in Nat
    /\ MaxIntSize \in Nat \ {0}

NotFound == [ok |-> TRUE, found |-> FALSE, value |-> "unset"]
Found(value) == [ok |-> TRUE, found |-> TRUE, value |-> value]
Malformed == [ok |-> FALSE, found |-> FALSE, value |-> "unset"]

Least(set) == CHOOSE i \in set : \A j \in set : i <= j

(*************************** The XML format *******************************)

\* Items: <<"open", name>>, <<"end">>, <<"key", name>>, <<"string", value>>,
\* <<"element">> (a value of another type), <<"comment">> (comments, blanks,
\* processing instructions), <<"directive">>, <<"text">>, <<"broken">>.
Tag(item) == item[1]

\* What the decoder passes over between two elements.
IsSkipped(item) == Tag(item) \in {"comment", "directive"}

\* Its items are a sequence.
IsXML(items) == Len(items) \in Nat /\ DOMAIN items = 1..Len(items)

(* nextXMLElementOrEnd: the position of the next start or end element, 0    *)
(* when the document ends, breaks or has text first.                        *)
NextElementOrEnd(doc, from) ==
    LET stops == {i \in from..Len(doc) : ~IsSkipped(doc[i])}
        Element(at) == IF Tag(doc[at]) \in {"text", "broken"} THEN 0 ELSE at
    IN IF stops = {} THEN 0 ELSE Element(Least(stops))

IsOpen(doc, at, name) == at # 0 /\ doc[at] = <<"open", name>>

(* A bug to catch: the answer is given as soon as the dictionary ends.      *)
EndsWithDict(doc, from) == TRUE

(* requireXMLDocumentEnd: the closing plist, then nothing but comments.     *)
EndsAfter(doc, from) ==
    LET close == NextElementOrEnd(doc, from) IN
    /\ close # 0 /\ Tag(doc[close]) = "end"
    /\ \A i \in (close + 1)..Len(doc) : Tag(doc[i]) = "comment"

(* One entry of the dictionary, or its end, from position i on, with the    *)
(* answers of the walk from later positions. A key that is there twice      *)
(* answers with its last value.                                             *)
EntryFrom(doc, key, walk, i) ==
    LET Merge(value, rest) ==
            IF ~rest.ok \/ rest.found THEN rest ELSE Found(value)
        Entry(k, v) ==
            IF v = 0 \/ Tag(doc[v]) = "end" THEN Malformed
            ELSE IF doc[k][2] # key THEN walk[v + 1]
            ELSE IF Tag(doc[v]) # "string" THEN Malformed
            ELSE Merge(doc[v][2], walk[v + 1])
        At(k) ==
            CASE k = 0 -> Malformed
              [] k # 0 /\ Tag(doc[k]) = "end" ->
                    IF EndsAfter(doc, k + 1) THEN NotFound ELSE Malformed
              [] k # 0 /\ Tag(doc[k]) = "key" -> Entry(k, NextElementOrEnd(doc, k + 1))
              [] OTHER -> Malformed
    IN At(NextElementOrEnd(doc, i))

(* The dictionary is walked to its end before anything is answered.         *)
DictString(doc, from, key) ==
    LET walk[i \in 1..(Len(doc) + 1)] == EntryFrom(doc, key, walk, i)
    IN walk[from]

xmlPlistTopLevelString(doc, key) ==
    LET Dict(root, dict) ==
            IF IsOpen(doc, root, "plist") /\ IsOpen(doc, dict, "dict")
            THEN DictString(doc, dict + 1, key) ELSE Malformed
        Root(root) == Dict(root, NextElementOrEnd(doc, root + 1))
    IN Root(NextElementOrEnd(doc, 1))

(************************** The binary format *****************************)

Times(a, b) == (a * b) % Word
Plus(a, b) == (a + b) % Word

(* The trailer is refused unless the offset table lies before it.           *)
TrailerOk(p) ==
    /\ p.offsetSize \in 1..MaxIntSize
    /\ p.refSize \in 1..MaxIntSize
    /\ p.numObjects <= p.objectsEnd
    /\ p.topObject < p.numObjects
    /\ p.offsetTable <= p.objectsEnd
    /\ Times(p.numObjects, p.offsetSize) <= p.objectsEnd - p.offsetTable

\* Where object ref's entry of the offset table starts.
EntryAt(p, ref) == Plus(p.offsetTable, Times(ref, p.offsetSize))

(* A bug to catch: the product, which may wrap, instead of the quotient.    *)
SliceOkByProduct(p, start, count, width) ==
    /\ start <= p.objectsEnd
    /\ Times(count, width) <= p.objectsEnd - start

\* The range count elements of width bytes from start, or a refusal.
SliceOk(p, start, count, width) ==
    /\ start <= p.objectsEnd
    /\ count <= (p.objectsEnd - start) \div width

SliceEnd(start, count, width) == Plus(start, Times(count, width))

(* object: the object's type, count and body, when the marker at offset and *)
(* a length that follows it (wide, 0 for none) lie in the object area.      *)
ObjectOk(p, ref) ==
    /\ ref < p.numObjects
    /\ LET o == p.objects[ref] IN
       /\ o.offset >= HeaderLength /\ o.offset < p.objectsEnd
       /\ o.wide # 0 => /\ o.offset + 1 < p.objectsEnd
                        /\ o.wide <= MaxIntSize
                        /\ SliceOk(p, o.offset + 2, 1, o.wide)

BodyOf(o) == IF o.wide = 0 THEN Plus(o.offset, 1) ELSE Plus(o.offset, 2 + o.wide)

StringOk(p, ref) ==
    /\ ObjectOk(p, ref)
    /\ LET o == p.objects[ref] IN
       /\ o.type = "ascii" => SliceOk(p, BodyOf(o), o.count, 1)
       /\ o.type = "utf16" => SliceOk(p, BodyOf(o), o.count, 2)

IsString(o) == o.type \in {"ascii", "utf16"}

StringAt(p, ref) == StringOk(p, ref) /\ IsString(p.objects[ref])

TopDictOk(p) ==
    /\ TrailerOk(p) /\ ObjectOk(p, p.topObject)
    /\ p.objects[p.topObject].type = "dict"
    /\ SliceOk(p, BodyOf(p.objects[p.topObject]), p.objects[p.topObject].count,
               2 * p.refSize)

(* The top dictionary's references: its keys' first, then its values'. The  *)
(* walk stops at the first key that matches, or at the first bad object.    *)
binaryPlistTopLevelString(p, key) ==
    LET count == p.objects[p.topObject].count
        stops == {i \in 1..count :
                     ~StringAt(p, p.refs[i]) \/ p.objects[p.refs[i]].text = key}
        ValueAt(i) ==
            IF StringAt(p, p.refs[i]) /\ StringAt(p, p.refs[count + i])
            THEN Found(p.objects[p.refs[count + i]].text) ELSE Malformed
    IN IF ~TopDictOk(p) THEN Malformed
       ELSE IF stops = {} THEN NotFound ELSE ValueAt(Least(stops))

plistTopLevelString(doc, key) ==
    IF doc.binary THEN binaryPlistTopLevelString(doc.plist, key)
    ELSE xmlPlistTopLevelString(doc.items, key)

(* Every range of bytes the binary reader indexes once its checks passed:   *)
(* its start, the end as computed, and the length as meant.                 *)
Range(start, end, length) == <<start, end, length>>

ElementWidth(p, o) ==
    CASE o.type = "ascii" -> 1 [] o.type = "utf16" -> 2 [] OTHER -> 2 * p.refSize

BodyOk(p, o) == SliceOk(p, BodyOf(o), o.count, ElementWidth(p, o))

EntryRanges(p) ==
    {Range(EntryAt(p, ref), Plus(EntryAt(p, ref), p.offsetSize), p.offsetSize) :
        ref \in 0..(p.numObjects - 1)}

BodyRanges(p) ==
    {Range(BodyOf(p.objects[r]),
           SliceEnd(BodyOf(p.objects[r]), p.objects[r].count, ElementWidth(p, p.objects[r])),
           p.objects[r].count * ElementWidth(p, p.objects[r])) :
        r \in {r \in 0..(p.numObjects - 1) : ObjectOk(p, r) /\ BodyOk(p, p.objects[r])}}

IndexedRanges(p) == IF TrailerOk(p) THEN EntryRanges(p) \cup BodyRanges(p) ELSE {}
(* What the reader decodes is unsigned; the file fits the machine: MaxIntSize *)
(* times its length does not wrap (8 times the length of a file, in a word  *)
(* of 64 bits).                                                             *)
IsBinary(p) ==
    /\ {p.objectsEnd, p.offsetSize, p.refSize, p.numObjects, p.topObject,
        p.offsetTable} \subseteq Nat
    /\ \A r \in 0..(p.numObjects - 1) :
          {p.objects[r].offset, p.objects[r].count, p.objects[r].wide} \subseteq Nat

FitsTheWord(p) == MaxIntSize * p.objectsEnd < Word
=============================================================================
