----------------------------- MODULE ImageFiles -----------------------------
(***************************************************************************)
(* inspectImage (upload/image.ts): a file is taken when the container of   *)
(* its format is well-formed from end to end.  A file is a sequence of     *)
(* blocks, whose own bytes and lengths are left out:                       *)
(*   head  IHDR; a JPEG frame header; VP8, VP8L or VP8X; a GIF extension    *)
(*   data  IDAT; a scan; a GIF frame; any other WebP chunk                  *)
(*   end   IEND; EOI; the GIF trailer                                      *)
(*   junk  bytes that are no block of the format, or run past the end      *)
(***************************************************************************)
EXTENDS Integers, Sequences, SequencesExt

CONSTANT MaxBlocks    \* bound: blocks of a file

VARIABLES
    file,     \* the format of the signature, the size a RIFF header declares, the blocks
    taken     \* the number of blocks when the file was well-formed first, 0 before

vars == <<file, taken>>

Formats == {"png", "jpeg", "gif", "webp"}
Blocks == {"head", "data", "end", "junk"}

\* Blocks are read up to the first end, which must be the last thing in the file.
EndsOnce(blocks) ==
    /\ blocks # <<>> /\ Last(blocks) = "end"
    /\ \A i \in 1..(Len(blocks) - 1) : blocks[i] \notin {"end", "junk"}

PngSize(blocks) == EndsOnce(blocks) /\ blocks[1] = "head" /\ Contains(blocks, "data")
JpegSize(blocks) == EndsOnce(blocks) /\ Contains(blocks, "head")
\* Mutant: the trailer need not be the last byte.
GifSizeAny(blocks) == \E i \in 1..Len(blocks) : EndsOnce(SubSeq(blocks, 1, i)) /\ Contains(SubSeq(blocks, 1, i), "data")
\* The size stands in the file's header, before the blocks.
GifSize(blocks) == EndsOnce(blocks) /\ Contains(blocks, "data")
\* No end: the declared size must match, and the chunks must fill it.
WebpSize(blocks, declared) ==
    declared = Len(blocks) /\ blocks # <<>> /\ blocks[1] = "head" /\ ~Contains(blocks, "junk")

InspectImage(f) ==
    CASE f.format = "png" -> PngSize(f.blocks)
      [] f.format = "jpeg" -> JpegSize(f.blocks)
      [] f.format = "gif" -> GifSize(f.blocks)
      [] f.format = "webp" -> WebpSize(f.blocks, f.declared)

Init ==
    /\ file \in [format : Formats, declared : 1..MaxBlocks, blocks : {<<>>}]
    /\ file.format # "webp" => file.declared = MaxBlocks
    /\ taken = 0

Grow(block) ==
    /\ Len(file.blocks) < MaxBlocks
    /\ file' = [file EXCEPT !.blocks = Append(@, block)]
    /\ taken' = IF taken = 0 /\ InspectImage(file') THEN Len(file'.blocks) ELSE taken

Next == \E block \in Blocks : Grow(block)

-----------------------------------------------------------------------------

\* "The file ends where the format says it ends (no payload appended after an image
\* header)" (image.ts:171-172): a file that was well-formed is no longer so with anything
\* behind it, be it junk, further blocks or another image.
NothingAppended == taken # 0 /\ InspectImage(file) => Len(file.blocks) = taken

=============================================================================
