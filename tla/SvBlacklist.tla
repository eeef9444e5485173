----------------------------- MODULE SvBlacklist -----------------------------
(* Satellites that must not be used: the three forms in which the framework, *)
(* the adapter and the modem name them, and what turns one into another.     *)
EXTENDS Integers, FiniteSets

CONSTANTS
    Width,        \* bits of a mask
    SbasLength    \* satellites of the first range of SBAS

(* A mask is a uint64_t at most.                                             *)
ASSUME SvBlacklistAssumption ==
    Width \in 1..64 /\ SbasLength \in 1..(Width - 1)

(* The satellite that is bit 0 of the mask of its constellation              *)
First == [glo |-> 65, bds |-> 201, qzss |-> 193, gal |-> 301, navic |-> 401]
SbasFirst  == 120
SbasFirst2 == 183

SvTypes == DOMAIN First                \* GPS cannot be disabled
Blacklistable == SvTypes \cup {"sbas"}

(* Masks are sets of bits.                                                   *)
AllBits == 0..(Width - 1)
NoMask == [t \in Blacklistable |-> {}]

-----------------------------------------------------------------------------
(* setBlocklistedSource: the framework counts from one.  A source that is    *)
(* not valid stays in the list.                                              *)
FromFramework(source) ==
    IF source.type \in SvTypes /\ source.id > 0
    THEN [source EXCEPT !.id = @ + First[source.type] - 1]
    ELSE source

ValidForFramework(source) == source.type \in SvTypes

(* What the framework is told of a satellite that is seen: convertGnssSvid   *)
ToFramework(sv) ==
    IF sv.type \in SvTypes \ {"qzss"}
    THEN [sv EXCEPT !.id = @ - First[sv.type] + 1]
    ELSE sv

(* BUG: the second range of SBAS follows on the first.                       *)
BugOneRange(source) ==
    IF source.id = 0 THEN AllBits
    ELSE LET first == IF source.type = "sbas" THEN SbasFirst ELSE First[source.type] IN
         IF source.id \in first..(first + Width - 1) THEN {source.id - first} ELSE {}

(* The bits of one source.  SV 0 stands for the whole constellation.  Beyond *)
(* the second range of SBAS the shift is longer than the mask: the processor *)
(* takes the count modulo its width.                                         *)
BitsOf(source) ==
    LET second == source.type = "sbas" /\ source.id >= SbasFirst2
        first == IF second THEN SbasFirst2
                 ELSE IF source.type = "sbas" THEN SbasFirst ELSE First[source.type]
        length == IF source.type = "sbas" /\ ~second THEN SbasLength ELSE Width
    IN  IF source.id = 0 THEN AllBits
        ELSE IF source.id \in first..(first + length - 1)
        THEN {(source.id - first + (IF second THEN SbasLength ELSE 0)) % Width}
        ELSE {}

(* A source of another constellation is skipped.                             *)
convertToGnssSvIdConfig(list) ==
    [t \in Blacklistable |-> UNION {BitsOf(source) : source \in {s \in list : s.type = t}}]

convertGnssSvIdMaskToList(bits, first, t) ==
    IF bits = AllBits THEN {[type |-> t, id |-> 0]}
    ELSE {[type |-> t, id |-> first + b] : b \in bits}

convertFromGnssSvIdConfig(mask) ==
    (UNION {convertGnssSvIdMaskToList(mask[t], First[t], t) : t \in SvTypes})
    \cup convertGnssSvIdMaskToList({b \in mask.sbas : b < SbasLength}, SbasFirst, "sbas")
    \cup convertGnssSvIdMaskToList({b - SbasLength : b \in {c \in mask.sbas : c >= SbasLength}},
                                   SbasFirst2, "sbas")

-----------------------------------------------------------------------------
(* Constellations are enabled (on) and disabled (off) by several users.  A   *)
(* configuration that is not set is the default of the modem.                *)

DefaultTypes == [set |-> FALSE, on |-> {}, off |-> {}]

gnssCombineSvTypeConfigs(a, b) ==
    LET off == a.off \cup b.off
    IN  [set |-> a.set \/ b.set, on |-> (a.on \cup b.on) \ off, off |-> off]

(* All satellites of a disabled constellation are blacklisted.               *)
combineBlacklistSvs(mask, types) ==
    [t \in Blacklistable |-> IF t \in types.off THEN AllBits ELSE mask[t]]

-----------------------------------------------------------------------------
(* The satellites a mask stands for; the second range of SBAS ends with the  *)
(* mask.                                                                     *)
Satellites ==
    {[type |-> t, id |-> First[t] + b] : t \in SvTypes, b \in AllBits}
    \cup {[type |-> "sbas", id |-> SbasFirst + b] : b \in 0..(SbasLength - 1)}
    \cup {[type |-> "sbas", id |-> SbasFirst2 + b] : b \in 0..(Width - SbasLength - 1)}

Reported == {sv \in Satellites : sv.type # "sbas"}

(* The conversions lose nothing: what convertToGnssSvIdConfig makes of a     *)
(* satellite is that satellite again in convertFromGnssSvIdConfig, and one   *)
(* the framework was told of (convertGnssSvid) and blacklists is the one     *)
(* that is left out.  QZSS satellites are told by another number than the    *)
(* one setBlocklistedSource takes, and are never left out.                   *)
SatellitesNamed ==
    /\ \A sv \in Satellites : convertFromGnssSvIdConfig(convertToGnssSvIdConfig({sv})) = {sv}
    /\ \A sv \in Reported :
          BitsOf(FromFramework(ToFramework(sv))) = IF sv.type = "qzss" THEN {} ELSE BitsOf(sv)
=============================================================================
