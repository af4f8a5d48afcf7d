----------------------------- MODULE KeyLayout ------------------------------
(***************************************************************************)
(* The layout of a credential's key: generateTumblerMap cuts it into       *)
(* segments at random boundaries (packages/core/src/tumbler-map.ts), the   *)
(* client concatenates segments of the lengths it was given (key-gen.ts),  *)
(* and the server slices the key at its own positions (validate.ts).       *)
(*                                                                         *)
(* Each random draw is one step.  A character of a segment is the pair of  *)
(* the segment and the offset in the value derived for it: padOrTruncate   *)
(* and its client twin return a prefix of the same endless string.         *)
(***************************************************************************)
EXTENDS Integers, SequencesExt

CONSTANTS
  LayoutOptions,    \* [keyLength, minTumblers, maxTumblers] asked for; Unset if absent
  Unset,
  MinSegment,       \* MIN_SEGMENT_LENGTH
  ChecksumLength    \* CHECKSUM_LENGTH

MinKey == MinSegment + ChecksumLength    \* MIN_KEY_LENGTH
MaxKey == 512                            \* MAX_KEY_LENGTH
MaxTumblers == 8                         \* MAX_TUMBLERS

ASSUME LayoutAssumption ==
  /\ MinSegment \in Nat \ {0} /\ ChecksumLength \in Nat \ {0}
  /\ Unset \notin Int
  /\ \A o \in LayoutOptions :
       {o.keyLength, o.minTumblers, o.maxTumblers} \subseteq Int \cup {Unset}

VARIABLES
  drawing,    \* idle, cutting, cut; refused or threw when no map is made
  asked,      \* the options
  pieces,     \* number of segments: the rotating ones and the static anchor
  cuts,       \* the boundaries drawn so far; at the end, all of them
  rotating    \* rotating[i]: the type of segment i

layoutVars == <<drawing, asked, pieces, cuts, rotating>>

LayoutInit ==
  /\ drawing = "idle" /\ asked \in LayoutOptions
  /\ pieces = 0 /\ cuts = <<>> /\ rotating = <<>>

(* validateProvisionOptions: each option that is given, by itself.         *)
validateProvisionOptions(o) ==
  /\ o.keyLength # Unset => o.keyLength \in MinKey..MaxKey
  /\ o.minTumblers # Unset => o.minTumblers >= 1
  /\ o.maxTumblers # Unset => o.maxTumblers <= MaxTumblers
  /\ (o.minTumblers # Unset /\ o.maxTumblers # Unset) => o.minTumblers <= o.maxTumblers

Given(v, default) == IF v = Unset THEN default ELSE v
WithDefaults(o) == [keyLength |-> Given(o.keyLength, 64),
                    minTumblers |-> Given(o.minTumblers, 2),
                    maxTumblers |-> Given(o.maxTumblers, 5)]

(* As a bug: the room is checked for the fewest segments.                  *)
validateOptions_Fewest(o) ==
  /\ o.keyLength \in MinKey..MaxKey
  /\ o.minTumblers >= 1 /\ o.maxTumblers <= MaxTumblers
  /\ o.minTumblers <= o.maxTumblers
  /\ o.keyLength >= (o.minTumblers + 1) * MinSegment + ChecksumLength

(* validateOptions: with the defaults, and room for the most segments.     *)
validateOptions(o) ==
  /\ o.keyLength \in MinKey..MaxKey
  /\ o.minTumblers >= 1 /\ o.maxTumblers <= MaxTumblers
  /\ o.minTumblers <= o.maxTumblers
  /\ o.keyLength >= (o.maxTumblers + 1) * MinSegment + ChecksumLength

Options == WithDefaults(asked)
checksumStart == Options.keyLength - ChecksumLength

-----------------------------------------------------------------------------
(* provision and generateTumblerMap up to the number of segments.          *)
drawCount ==
  /\ drawing = "idle"
  /\ \/ /\ ~validateProvisionOptions(asked)
        /\ drawing' = "refused" /\ UNCHANGED <<pieces, cuts>>
     \/ /\ validateProvisionOptions(asked) /\ ~validateOptions(Options)
        /\ drawing' = "threw" /\ UNCHANGED <<pieces, cuts>>
     \/ /\ validateProvisionOptions(asked) /\ validateOptions(Options)
        /\ \E n \in Options.minTumblers..Options.maxTumblers : pieces' = n + 1
        /\ cuts' = <<0>>
        /\ drawing' = "cutting"
  /\ UNCHANGED <<asked, rotating>>

Larger(a, b)  == IF a > b THEN a ELSE b
Smaller(a, b) == IF a < b THEN a ELSE b

(* The i-th boundary leaves room for the segment before it and for those   *)
(* that follow.                                                            *)
Clamped(ideal) ==
  LET i == Len(cuts)
  IN  Larger(cuts[i] + MinSegment,
             Smaller(checksumStart - (pieces - i) * MinSegment, ideal))

(* randomNonOverlappingSegments: the next boundary, up to a fifth of a     *)
(* segment away from its even share.                                       *)
drawBoundary ==
  LET base == checksumStart \div pieces
      most == base \div 5
  IN  /\ drawing = "cutting" /\ Len(cuts) < pieces
      /\ \E jitter \in -most..most :
           cuts' = Append(cuts, Clamped(Len(cuts) * base + jitter))
      /\ UNCHANGED <<drawing, asked, pieces, rotating>>

(* Array.prototype.sort on numbers: each entry at its rank, equal ones in  *)
(* their order.                                                            *)
Place(s, i) == 1 + Cardinality({j \in DOMAIN s : s[j] < s[i] \/ (s[j] = s[i] /\ j < i)})
Ascending(s) == [n \in DOMAIN s |-> s[CHOOSE i \in DOMAIN s : Place(s, i) = n]]

(* The boundaries are shuffled and sorted; one rotating segment is HOTP,   *)
(* the others are either.                                                  *)
drawTypes ==
  /\ drawing = "cutting" /\ Len(cuts) = pieces
  /\ cuts' = Append(Ascending(cuts), checksumStart)
  /\ \E required \in 2..pieces, ts \in [2..pieces -> {"totp", "hotp"}] :
       /\ ts[required] = "hotp"
       /\ rotating' = <<"static">> \o [i \in 1..(pieces - 1) |-> ts[i + 1]]
  /\ drawing' = "cut"
  /\ UNCHANGED <<asked, pieces>>

LayoutNext == drawCount \/ drawBoundary \/ drawTypes

LayoutSpec == LayoutInit /\ [][LayoutNext]_layoutVars

-----------------------------------------------------------------------------
(* deriveSegmentValue, of a given length.                                  *)
segmentValue(i, length) == [o \in 1..length |-> <<i, o>>]

(* toProvisionPayload.                                                     *)
segmentLength(i) == cuts[i + 1] - cuts[i]

(* generateKeyFromClientPayload, without the checksum.                     *)
clientBody == FlattenSeq([i \in 1..pieces |-> segmentValue(i, segmentLength(i))])

(* validateTSKKey compares each slice with what it derives.                *)
sliceMatches(i) ==
  SubSeq(clientBody, cuts[i] + 1, cuts[i + 1]) = segmentValue(i, cuts[i + 1] - cuts[i])

(* Whatever is drawn, and whatever options the checks let through, the     *)
(* segments cover the key up to the checksum without a gap or an overlap,  *)
(* each is at least MIN_SEGMENT_LENGTH long, and one is counter-based, so  *)
(* that validateTSKKey accepts the map.                                    *)
LayoutCovers ==
  drawing = "cut" =>
    /\ Len(cuts) = pieces + 1 /\ cuts[1] = 0 /\ cuts[pieces + 1] = checksumStart
    /\ \A i \in 1..pieces : cuts[i + 1] - cuts[i] >= MinSegment
    /\ \E i \in 1..pieces : rotating[i] = "hotp"

(* The key the client puts together from lengths alone is the one the      *)
(* server expects at its positions, to the last character.                 *)
AssemblyAgrees ==
  drawing = "cut" =>
    /\ Len(clientBody) = checksumStart
    /\ \A i \in 1..pieces : sliceMatches(i)

(* Every layout the options admit covers the key, and the client and the   *)
(* server read it alike.                                                   *)
LayoutSound == LayoutCovers /\ AssemblyAgrees

(***************************************************************************)
(* The inductive invariant: the boundaries drawn so far are a segment      *)
(* apart or more, and leave room for the segments still to come.           *)
(***************************************************************************)
Apart == \A i, j \in DOMAIN cuts : i < j => cuts[i] + MinSegment <= cuts[j]
Room  == \A i \in DOMAIN cuts : cuts[i] + (pieces - i + 1) * MinSegment <= checksumStart

LayoutInv ==
  /\ drawing \in {"idle", "cutting", "cut", "refused", "threw"}
  /\ asked \in LayoutOptions /\ pieces \in Nat /\ cuts \in Seq(Int)
  /\ drawing = "cutting" => /\ checksumStart \in Int /\ pieces >= 2
                            /\ Len(cuts) \in 1..pieces /\ cuts[1] = 0
                            /\ Apart /\ Room
  /\ drawing = "cut" => Apart /\ LayoutCovers
=============================================================================
