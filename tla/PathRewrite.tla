---------------------------- MODULE PathRewrite ----------------------------
(***************************************************************************)
(* The byte rewriting every mover and the archive share                     *)
(* (internal/rewrite/rewrite.go, internal/archive/sink.go and resolve.go).  *)
(* Data is a sequence of bytes, of which only a few are told apart.         *)
(***************************************************************************)
EXTENDS Integers, Sequences, SequencesExt, FiniteSetsExt

Slash == "/"
Dot == "."
Backslash == "\\"

(* Whatever is none of these stands for a letter, a digit, _ or -.          *)
isPathContinuationByte(byte) ==
    byte \notin {Slash, Dot, Backslash, " ", "\"", "{", "}"}

(* A bug to catch: only the byte after the first dot is looked at.          *)
firstDotDecides(data, dotIndex) ==
    dotIndex < Len(data) /\ isPathContinuationByte(data[dotIndex + 1])

(* A run of dots introduces an extension when a path byte follows it.       *)
isExtensionDotAt(data, dotIndex) ==
    LET rest == {i \in dotIndex..Len(data) : data[i] # Dot}
    IN rest # {} /\ isPathContinuationByte(data[Min(rest)])

OccursAt(data, path, i) ==
    /\ path # <<>>
    /\ i + Len(path) - 1 <= Len(data)
    /\ SubSeq(data, i, i + Len(path) - 1) = path

\* The check on the right of a match that both loops make.
BoundedAt(data, path, i) ==
    LET next == i + Len(path) IN
    /\ OccursAt(data, path, i)
    /\ next <= Len(data) => IF data[next] = Dot THEN ~isExtensionDotAt(data, next)
                            ELSE ~isPathContinuationByte(data[next])

(* Past the whole match on a hit, one byte further otherwise.               *)
ReplacePathInBytes(data, oldPath, newPath) ==
    LET from[i \in 1..(Len(data) + Len(oldPath) + 1)] ==
            IF i > Len(data) THEN [data |-> <<>>, count |-> 0]
            ELSE IF BoundedAt(data, oldPath, i)
            THEN LET tail == from[i + Len(oldPath)]
                 IN [data |-> newPath \o tail.data, count |-> tail.count + 1]
            ELSE LET tail == from[i + 1]
                 IN [data |-> <<data[i]>> \o tail.data, count |-> tail.count]
    IN from[1]

countBoundedPath(data, path) ==
    LET from[i \in 1..(Len(data) + Len(path) + 1)] ==
            IF i > Len(data) THEN 0
            ELSE IF BoundedAt(data, path, i) THEN 1 + from[i + Len(path)]
            ELSE from[i + 1]
    IN from[1]

ContainsBoundedPath(data, path) == ReplacePathInBytes(data, path, path).count > 0

EscapeSlashes(path) ==
    FlattenSeq([i \in DOMAIN path |->
                   IF path[i] = Slash THEN <<Backslash, Slash>> ELSE <<path[i]>>])

HasEscapedSlash(data) ==
    \E i \in 1..(Len(data) - 1) : data[i] = Backslash /\ data[i + 1] = Slash

ReplacePathInBytesWithJSONEscape(data, oldPath, newPath) ==
    LET first == ReplacePathInBytes(data, oldPath, newPath)
        second == ReplacePathInBytes(first.data, EscapeSlashes(oldPath),
                                     EscapeSlashes(newPath))
    IN IF HasEscapedSlash(first.data)
       THEN [data |-> second.data, count |-> first.count + second.count]
       ELSE first

CountPathInBytesWithJSONEscape(data, path) ==
    countBoundedPath(data, path) +
    (IF HasEscapedSlash(data) THEN countBoundedPath(data, EscapeSlashes(path)) ELSE 0)

HasPrefix(value, prefix) ==
    Len(prefix) <= Len(value) /\ SubSeq(value, 1, Len(prefix)) = prefix

IsBoundaryDescendant(parent, candidate) ==
    /\ parent # <<>>
    /\ HasPrefix(candidate, parent)
    /\ LET next == Len(parent) + 1 IN
       \/ candidate = parent
       \/ parent[Len(parent)] = Slash
       \/ candidate[next] = Dot /\ ~isExtensionDotAt(candidate, next)
       \/ candidate[next] # Dot /\ ~isPathContinuationByte(candidate[next])

\* Used only where IsBoundaryDescendant holds.
ReplaceBoundedPrefix(value, oldPath, newPath) ==
    newPath \o SubSeq(value, Len(oldPath) + 1, Len(value))

(****************************** The archive *******************************)

LongerFirst(set, Measure(_)) ==
    CHOOSE s \in SetToSeqs(set) :
        \A i, j \in DOMAIN s : i < j => Len(Measure(s[i])) >= Len(Measure(s[j]))

(* A bug to catch: the placeholders in the other order.                     *)
shortestFirst(data, placeholders) ==
    FoldLeft(LAMBDA text, p : ReplacePathInBytes(text, p.original, p.key).data,
             data, Reverse(LongerFirst(placeholders, LAMBDA p : p.original)))

(* Every placeholder's original becomes its key, longest original first.    *)
applyPlaceholders(data, placeholders) ==
    FoldLeft(LAMBDA text, p : ReplacePathInBytes(text, p.original, p.key).data,
             data, LongerFirst(placeholders, LAMBDA p : p.original))

(* A key found where a brace opens gives its value; other braces stay.      *)
ResolvePlaceholdersStream(data, resolutions) ==
    LET at(i) == {r \in resolutions : r.key[1] = "{" /\ OccursAt(data, r.key, i)}
        longest(i) == CHOOSE r \in at(i) : \A s \in at(i) : Len(s.key) <= Len(r.key)
        from[i \in 1..(Len(data) + 1)] ==
            IF i > Len(data) THEN <<>>
            ELSE IF at(i) # {}
            THEN longest(i).value \o from[i + Len(longest(i).key)]
            ELSE <<data[i]>> \o from[i + 1]
    IN from[1]
=============================================================================
