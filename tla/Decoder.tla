------------------------------ MODULE Decoder -------------------------------
(***************************************************************************)
(* How the text of a file is decoded (utf8.go, crawler_files.go).  Each    *)
(* crawl opens the file, chooses a decoder from its beginning, seeks to    *)
(* the offset and reads from there, so what a decoder learns from the      *)
(* first bytes it reads is lost to a crawl that resumes.                   *)
(*                                                                         *)
(* A character is what the encodings tell apart: plain ASCII, an accented  *)
(* letter, one that takes four bytes in UTF-8, and U+FFFD.  Characters are *)
(* written whole, and each is a line.  Decoded wrongly it becomes "?".     *)
(***************************************************************************)
EXTENDS Naturals, Sequences, SequencesExt, FiniteSetsExt

CONSTANTS Names,       \* what the rule may give as encoding
          ProbeLen,    \* utf8ProbeLen
          MaxChars     \* bound on the length of the file

ASSUME DecoderAssumption == ProbeLen \in Nat /\ MaxChars \in Nat

(* An operator whose name has an underscore is the one it is named after    *)
(* with a plausible bug: the property below must notice it.                *)

VARIABLES windows,        \* runtime.GOOS == "windows"
          charset, bom,   \* how the file is encoded, and if it begins with a BOM
          encoding,       \* rules[0].Encoding
          chars,          \* the characters of the file
          offset,         \* SourceState.Offset
          text,           \* what the crawls have made of them
          first           \* history: how many the first crawl got

format == <<windows, charset, bom, encoding>>
decodeVars == <<format, chars, offset, text, first>>

Bom == [c \in {"utf-8", "utf-16le", "utf-16be", "utf-32le", "utf-32be"} |->
          CASE c = "utf-8"    -> <<"EF", "BB", "BF">>
            [] c = "utf-16le" -> <<"FF", "FE">>
            [] c = "utf-16be" -> <<"FE", "FF">>
            [] c = "utf-32le" -> <<"FF", "FE", "00", "00">>
            [] c = "utf-32be" -> <<"00", "00", "FE", "FF">>]

Utf16 == {"utf-16le", "utf-16be"}
Utf32 == {"utf-32le", "utf-32be"}

\* The encodings that htmlindex.Get knows, of those above.
Known == {"utf-8", "windows-1252"} \cup Utf16

UTFMax == 4

Char == {"ascii", "accent", "long", "fffd"}

Width(c) == CASE charset \in Utf32 \/ c = "long"      -> 4
              [] charset \in Utf16 /\ c # "long"      -> 2
              [] charset = "utf-8" /\ c = "accent"    -> 2
              [] charset = "utf-8" /\ c = "fffd"      -> 3
              [] OTHER                                -> 1

BomLen == IF bom THEN Len(Bom[charset]) ELSE 0
End(k) == FoldLeft(LAMBDA n, c : n + Width(c), BomLen, SubSeq(chars, 1, k))
Size == End(Len(chars))

\* Type correctness.
DecodeTypeOK == /\ windows \in BOOLEAN
                /\ charset \in {"windows-1252"} \cup DOMAIN Bom
                /\ bom \in BOOLEAN
                /\ encoding \in Names
                /\ chars \in Seq(Char) /\ Len(chars) <= MaxChars
                /\ offset \in 0 .. Size
                /\ text \in Seq(Char \cup {"?"}) /\ Len(text) <= Len(chars)
                /\ first \in 0 .. Len(text)

DecodeInit == /\ windows \in BOOLEAN
              /\ \/ charset \in DOMAIN Bom /\ bom = TRUE
                 \/ charset \in {"utf-8", "utf-16le", "windows-1252"} /\ bom = FALSE
              /\ encoding \in Names
              /\ chars = <<>>
              /\ offset = 0
              /\ text = <<>>
              /\ first = 0

\* The program that logs.
Write(c) == /\ Len(chars) < MaxChars
            /\ charset = "windows-1252" => c \in {"ascii", "accent"}
            /\ chars' = Append(chars, c)
            /\ UNCHANGED <<format, offset, text, first>>

-----------------------------------------------------------------------------
(* Utf8Reader.                                                             *)

\* An encoding that is not known is replaced by the default.
Name == IF encoding \in Known THEN encoding ELSE ""

Start == IF bom THEN Bom[charset] ELSE <<>>

BomOrder_Utf16First == <<"utf-8", "utf-16le", "utf-16be", "utf-32le", "utf-32be">>

\* UTF-32LE before UTF-16LE, whose BOM begins in the same way.
BomOrder == <<"utf-8", "utf-32le", "utf-32be", "utf-16le", "utf-16be">>

Boms == {i \in DOMAIN BomOrder : IsPrefix(Bom[BomOrder[i]], Start)}
FirstBom == BomOrder[Min(Boms)]

\* unicode.BOMOverride: a BOM of UTF-8 or UTF-16 at the position where the
\* reading begins decides, else the fallback.
BOMOverride(fallback) ==
    LET Found == {c \in {"utf-8"} \cup Utf16 : offset = 0 /\ IsPrefix(Bom[c], Start)}
    IN  IF Found = {} THEN fallback ELSE CHOOSE c \in Found : TRUE

\* What utf8.DecodeRune takes for a rune other than utf8.RuneError.
IsRune(c) == \/ c = "ascii"
             \/ charset = "utf-8" /\ c # "fffd"

NProbe == Min({Size, ProbeLen})
NPos == Max({End(k) : k \in {j \in 0 .. Len(chars) :
                /\ End(j) <= NProbe
                /\ \A i \in 1 .. j : IsRune(chars[i])}})

Probed_NoSlack == NPos >= NProbe

\* The last rune of the probe may be cut.
Probed == NPos >= NProbe \/ NPos >= ProbeLen - UTFMax

DefaultName == IF windows THEN "windows-1252" ELSE "utf-8"

\* What the reader decodes from; "utf-8" is also a file that is read as it is.
Decoding ==
    CASE Boms # {} /\ FirstBom \in Utf16             -> BOMOverride("utf-8")
      [] Boms # {} /\ FirstBom \notin Utf16          -> FirstBom
      [] Boms = {} /\ Name = "" /\ Probed            -> "utf-8"
      [] Boms = {} /\ Name = "" /\ ~Probed           -> BOMOverride(DefaultName)
      [] OTHER                                       -> BOMOverride(Name)

-----------------------------------------------------------------------------

\* ASCII is the same in UTF-8 and in windows-1252.
Decoded(c) == IF \/ Decoding = charset
                 \/ c = "ascii" /\ {Decoding, charset} \subseteq {"utf-8", "windows-1252"}
              THEN c ELSE "?"

CrawlText_NoSeek ==
    /\ offset # Size
    /\ text' = text \o [i \in DOMAIN chars |-> Decoded(chars[i])]
    /\ offset' = Size
    /\ first' = IF offset = 0 THEN Len(chars) ELSE first
    /\ UNCHANGED <<format, chars>>

\* The file is read from the offset to its end; an error leaves all as it is.
CrawlText ==
    /\ offset # Size
    /\ text' = text \o [i \in 1 .. Len(chars) - Len(text) |-> Decoded(chars[Len(text) + i])]
    /\ offset' = Size
    /\ first' = IF offset = 0 THEN Len(chars) ELSE first
    /\ UNCHANGED <<format, chars>>

NothingNew == offset = Size /\ UNCHANGED decodeVars

DecodeNext == CrawlText \/ NothingNew \/ \E c \in Char : Write(c)

DecodeSpec == DecodeInit /\ [][DecodeNext]_decodeVars

-----------------------------------------------------------------------------
(* Properties.                                                             *)

IsRight(i) == text[i] = chars[i]

\* The encoding can be known without a BOM: the rule names it; or the file is
\* UTF-8, with no U+FFFD if the default is another; or it has the default
\* encoding, and the first letter that shows this is early in the probe.
ShowsIn(k) == \A j \in 1 .. k - 1 : chars[j] = "ascii"
Knowable ==
    \/ Name = charset
    \/ Name = "" /\ charset = "utf-8" /\ (windows => "fffd" \notin ToSet(chars))
    \/ Name = "" /\ charset = DefaultName
                 /\ \A k \in 1 .. Len(chars) :
                       ShowsIn(k) /\ chars[k] # "ascii" => End(k - 1) < ProbeLen - UTFMax

\* Whatever the file has grown to between the crawls, its text is decoded
\* right: when its encoding can be known and there is no BOM, and when there is
\* one, where it is not one of UTF-16 or the first crawl reads the text.
DecodedRight ==
    \A i \in 1 .. Len(text) :
        (IF bom THEN charset \notin Utf16 \/ i <= first ELSE Knowable) => IsRight(i)

\* "If file starts with BOM (utf-8 utf-16LE utf-16BE utf-32LE utf-32BE) then
\* BOM is used" (utf8.go:66).
BomIsUsed == bom => \A i \in 1 .. Len(text) : IsRight(i)
=============================================================================
