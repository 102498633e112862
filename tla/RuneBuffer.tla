----------------------------- MODULE RuneBuffer -----------------------------
(***************************************************************************)
(* The line under edit: readline/runebuf.go.  A line is a record of its    *)
(* runes and the cursor, the index of the rune under it counted from 0; a  *)
(* cursor equal to the length is after the last rune.  No operation looks  *)
(* at a rune but to tell a rune of a word from one between words, so a     *)
(* rune is one of the two.  Redrawing the screen is left out.              *)
(***************************************************************************)
EXTENDS Integers, Sequences

(* What IsWordBreak tells apart. *)
Word == "word"
Break == "break"
Runes == {Word, Break}

Line == [text: Seq(Runes), cur: Nat]

(* The cursor points into the line or just behind it. *)
Sound(l) == l.cur \in 0 .. Len(l.text)

(* The least and the greatest index of S, or d when there is none. *)
Least(S, d) ==
  IF \E i \in S : \A j \in S : i <= j
  THEN CHOOSE i \in S : \A j \in S : i <= j
  ELSE d

Greatest(S, d) ==
  IF \E i \in S : \A j \in S : i >= j
  THEN CHOOSE i \in S : \A j \in S : i >= j
  ELSE d

-----------------------------------------------------------------------------
IsBreak(l, i) == l.text[i + 1] = Break

(* Indices at which a word starts after a break, and breaks after a word.  *)
WordStarts(l) == {i \in 1 .. Len(l.text) - 1 : ~IsBreak(l, i) /\ IsBreak(l, i - 1)}
WordEnds(l) == {i \in 1 .. Len(l.text) - 1 : IsBreak(l, i) /\ ~IsBreak(l, i - 1)}

(* The runes from index i up to j go; the cursor is where they were. *)
Cut(l, i, j) ==
  [text |-> SubSeq(l.text, 1, i) \o SubSeq(l.text, j + 1, Len(l.text)),
   cur  |-> i]

-----------------------------------------------------------------------------
At(l, i) == [l EXCEPT !.cur = i]

MoveToLineStart(l) == At(l, 0)
MoveToLineEnd(l) == At(l, Len(l.text))
MoveBackward(l) == IF l.cur = 0 THEN l ELSE At(l, l.cur - 1)
MoveForward(l) == IF l.cur = Len(l.text) THEN l ELSE At(l, l.cur + 1)

MoveToPrevWord(l) ==
  At(l, Greatest({i \in WordStarts(l) : i < l.cur}, 0))

MoveToNextWord(l) ==
  At(l, Least({i \in WordStarts(l) : i > l.cur}, Len(l.text)))

(* On the last rune of the line, when it belongs to a word, the code reads *)
(* the rune after it, which is not there.                                  *)
MoveToEndWordPanics(l) ==
  /\ l.cur = Len(l.text) - 1
  /\ ~IsBreak(l, l.cur)

MoveToEndWord(l) ==
  LET from == IF ~IsBreak(l, l.cur) /\ IsBreak(l, l.cur + 1)
              THEN l.cur + 1 ELSE l.cur
  IN  IF l.cur = Len(l.text)
      THEN l
      ELSE At(l, Least({i - 1 : i \in {e \in WordEnds(l) : e > from}},
                            Len(l.text)))

(* Where a search for a rune can take the cursor, staying included: the    *)
(* rune itself is not modelled, only whether it is one of a word.          *)
MoveTo(l, rune, prevChar, reverse) ==
  LET found == {i \in 0 .. Len(l.text) - 1 :
                  /\ l.text[i + 1] = rune
                  /\ IF reverse THEN i < l.cur ELSE i > l.cur}
      step  == IF ~prevChar THEN 0 ELSE IF reverse THEN 1 ELSE -1
  IN  {l} \cup {At(l, i + step) : i \in found}

-----------------------------------------------------------------------------
WriteRunes(l, s) ==
  [text |-> SubSeq(l.text, 1, l.cur) \o s \o SubSeq(l.text, l.cur + 1, Len(l.text)),
   cur  |-> l.cur + Len(s)]

(* There is no rune to replace behind the last one. *)
ReplacePanics(l) == l.cur = Len(l.text)
Replace(l, rune) == [l EXCEPT !.text[l.cur + 1] = rune]

Set(text) == [text |-> text, cur |-> Len(text)]

(* Erase and Reset *)
Erase == [text |-> << >>, cur |-> 0]

Delete(l) == IF l.cur = Len(l.text) THEN l ELSE Cut(l, l.cur, l.cur + 1)
Backspace(l) == IF l.cur = 0 THEN l ELSE Cut(l, l.cur - 1, l.cur)
KillFront(l) == Cut(l, 0, l.cur)
Kill(l) == Cut(l, l.cur, Len(l.text))

(* The breaks under the cursor and the word after them go, the last break  *)
(* before the next word stays.                                             *)
DeleteWord(l) ==
  LET init  == Least({i \in l.cur .. Len(l.text) - 1 : ~IsBreak(l, i)}, Len(l.text))
      start == Least({i \in WordStarts(l) : i > init}, Len(l.text) + 1)
  IN  Cut(l, l.cur, start - 1)

(* A word that starts the line is not found; then the whole line goes.     *)
\* Mutant: the cursor stays where it was.
BackEscapeWordInPlace(l) ==
  LET start == Greatest({i \in WordStarts(l) : i < l.cur}, 0)
  IN  [Cut(l, start, l.cur) EXCEPT !.cur = l.cur]
BackEscapeWord(l) ==
  LET start == Greatest({i \in WordStarts(l) : i < l.cur}, 0)
  IN  IF l.cur = 0 THEN l
      ELSE IF start = 0 THEN Erase
      ELSE Cut(l, start, l.cur)

(* A line of one rune moves the cursor also from behind it. *)
Transpose(l) ==
  LET at == IF l.cur = 0 THEN 1
            ELSE IF l.cur >= Len(l.text) THEN Len(l.text) - 1 ELSE l.cur
  IN  CASE Len(l.text) = 0 -> l
        [] Len(l.text) = 1 -> At(l, l.cur + 1)
        [] OTHER -> [text |-> [l.text EXCEPT ![at] = l.text[at + 1],
                                             ![at + 1] = l.text[at]],
                     cur  |-> at + 1]
=============================================================================
