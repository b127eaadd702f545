--------------------------- MODULE ReservedNames ---------------------------
(***************************************************************************)
(* The rule against tokens that imitate the brand, kept twice: by the SDK  *)
(* over a string (packages/sdk/src/reservedNames.ts) before a launch is    *)
(* paid for, and by register_pool over the bytes of the token's metadata   *)
(* (programs/stockfloor/src/reserved_names.rs), when there is a launch     *)
(* already; and the lists of the app, which leave imitations out.          *)
(*                                                                         *)
(* Code points are numbered anew: the ASCII characters that matter, blocks *)
(* of styled ones, and what the table knows, with gaps.                    *)
(***************************************************************************)
EXTENDS Integers, Sequences, FloorMath

LOCAL INSTANCE SequencesExt
LOCAL INSTANCE TLC

CONSTANTS
    CodePoints,        \* code points a name is made of
    Odd,          \* those that are dropped or refused; bound: one in a name
    MaxLength,    \* bound: code points in a name
    MaxBytes      \* Metaplex: bytes of a name

VARIABLES
    name,       \* the name, or the symbol, of a token
    nameStage,  \* "typed", "refused", "launched", "registered", "stranded"
    vetted      \* the SDK has passed it

nameVars == <<name, nameStage, vetted>>

Ascii == <<"p", "P", "l", "i", "1", "n", "t", "0", "x", " ", "-">>
AsciiCount == Len(Ascii)
Broken == 0                  \* bytes that are not UTF-8, dropped by both decoders

\* foldByRule: a block of styled characters, in the order of the ASCII ones.
RuleBlock == 12..22
FoldByRule(cp) == cp - 11

\* The table: <<first, last, character>>, ranges sorted and disjoint.  Both copies come
\* from one run of scripts/gen-reserved-confusables.py.
ProgramConfusables ==
    << <<24, 24, "p">>, <<25, 27, "l">>, <<29, 29, "o">>, <<30, 31, "n">>, <<33, 33, "t">>, <<36, 37, "p">> >>
SdkConfusables == ProgramConfusables

IsBidiControl(cp) == cp = 28

\* The ASCII rule; "" is dropped.
AsciiSkeleton(c) ==
    CASE c \in {"i", "1", "l"} -> "l"
      [] c = "0" -> "o"
      [] c = "P" -> "p"
      [] c \in {"p", "n", "t", "x"} -> c
      [] OTHER -> ""

Reserved == <<"p", "l", "l", "n", "t">>

-----------------------------------------------------------------------------
(* The SDK. *)

\* foldToAscii's search of the table.
\* Mutant: it stops before the last entry left.
BisectShort(cp) ==
    LET find[lo \in 1..Len(SdkConfusables) + 1, hi \in 0..Len(SdkConfusables)] ==
            LET mid == (lo + hi) \div 2
                entry == SdkConfusables[mid]
            IN  IF lo >= hi THEN ""
                ELSE IF entry[2] < cp THEN find[mid + 1, hi]
                ELSE IF entry[1] > cp THEN find[lo, mid - 1]
                ELSE entry[3]
    IN  find[1, Len(SdkConfusables)]
Bisect(cp) ==
    LET find[lo \in 1..Len(SdkConfusables) + 1, hi \in 0..Len(SdkConfusables)] ==
            LET mid == (lo + hi) \div 2
                entry == SdkConfusables[mid]
            IN  IF lo > hi THEN ""
                ELSE IF entry[2] < cp THEN find[mid + 1, hi]
                ELSE IF entry[1] > cp THEN find[lo, mid - 1]
                ELSE entry[3]
    IN  find[1, Len(SdkConfusables)]

SdkFold(cp) ==
    IF cp \in 1..AsciiCount THEN Ascii[cp]
    ELSE IF cp \in RuleBlock THEN Ascii[FoldByRule(cp)]
    ELSE Bisect(cp)

TokenNameSkeleton(text) ==
    SelectSeq([i \in DOMAIN text |-> AsciiSkeleton(SdkFold(text[i]))], LAMBDA c : c # "")

IsReservedTokenName(text) ==
    LET skeleton == TokenNameSkeleton(text)
    IN  \/ \E i \in DOMAIN text : IsBidiControl(text[i])
        \/ \E i \in 0..Len(skeleton) - 5 : SubSeq(skeleton, i + 1, i + 5) = Reserved

-----------------------------------------------------------------------------
(* The program. *)

ProgramFold(cp) ==
    LET entries == {i \in DOMAIN ProgramConfusables : cp \in ProgramConfusables[i][1]..ProgramConfusables[i][2]}
    IN  CASE cp \in 1..AsciiCount -> Ascii[cp]
          [] cp \in RuleBlock -> Ascii[FoldByRule(cp)]
          [] OTHER -> IF entries = {} THEN "" ELSE ProgramConfusables[CHOOSE i \in entries : TRUE][3]

Slide(window, c) == IF Len(window) < 5 THEN Append(window, c) ELSE Append(Tail(window), c)

\* field_scan: a window of five characters moves over the bytes.
FieldScan(bytes) ==
    LET See(scan, cp) ==
            LET c == AsciiSkeleton(ProgramFold(cp))
                moved == Slide(scan.window, c)
            IN  IF scan.hit \/ IsBidiControl(cp) THEN [scan EXCEPT !.hit = TRUE]
                ELSE IF c = "" THEN scan
                ELSE [window |-> moved, hit |-> moved = Reserved]
    IN  FoldLeft(See, [window |-> <<>>, hit |-> FALSE], bytes).hit

-----------------------------------------------------------------------------

Utf8Length(text) == FoldLeft(LAMBDA n, cp : n + (IF cp \in 0..AsciiCount THEN 1 ELSE 3), 0, text)
Blank(text) == \A i \in DOMAIN text : text[i] # Broken /\ SdkFold(text[i]) = " "

Init == name = <<>> /\ nameStage = "typed" /\ vetted = FALSE

Type ==
    /\ nameStage = "typed" /\ Len(name) < MaxLength
    /\ \E cp \in CodePoints :
          /\ cp \in Odd => \A i \in DOMAIN name : name[i] \notin Odd
          /\ name' = Append(name, cp)
    /\ UNCHANGED <<nameStage, vetted>>

\* validateTokenMetadata, which the form and the command ask before anything is sent.
\* What they are given is a string.
Check ==
    /\ nameStage = "typed" /\ ~vetted /\ \A i \in DOMAIN name : name[i] # Broken
    /\ IF Blank(name) \/ Utf8Length(name) > MaxBytes \/ IsReservedTokenName(name)
       THEN nameStage' = "refused" /\ UNCHANGED vetted
       ELSE nameStage' = "launched" /\ vetted' = TRUE
    /\ UNCHANGED name

\* Another client creates the launch unasked; Metaplex takes no longer name.
LaunchUnvetted ==
    /\ nameStage = "typed" /\ Utf8Length(name) <= MaxBytes
    /\ nameStage' = "launched" /\ UNCHANGED <<name, vetted>>

\* register_pool's check_token_name.
Register ==
    /\ nameStage = "launched"
    /\ nameStage' = IF FieldScan(name) THEN "stranded" ELSE "registered"
    /\ UNCHANGED <<name, vetted>>

Next == Type \/ Check \/ LaunchUnvetted \/ Register

-----------------------------------------------------------------------------

TypeOK ==
    /\ name \in Seq(CodePoints) /\ vetted \in BOOLEAN
    /\ nameStage \in {"typed", "refused", "launched", "registered", "stranded"}

\* "Any change to the table must be made there too": a name the SDK has passed is never
\* refused by register_pool, when the launch is created and paid for.
NoneStranded == [][vetted => nameStage' # "stranded"]_nameVars

\* What is registered is listed: lists hide only launches older than the check, and no
\* imitation is registered by whatever client.
RegisteredIsListable == nameStage = "registered" => ~IsReservedTokenName(name)
=============================================================================
