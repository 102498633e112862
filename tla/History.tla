------------------------------ MODULE History -------------------------------
(***************************************************************************)
(* The history of the line editor (readline/history.go) and the way the    *)
(* loop of the editor uses it (readline/operation.go): a list of lines     *)
(* that ends in the one under edit, a cursor into the list, edits of older *)
(* lines that last until a line is submitted, and the file that keeps the  *)
(* lines from one session to the next.                                     *)
(***************************************************************************)
EXTENDS Integers, Sequences, SequencesExt

CONSTANTS
  Lines,       \* what the user can make of a line, the empty one apart
  Limit,       \* HistoryLimit
  MaxSubmits   \* bound: lines submitted

ASSUME HistoryAssumption ==
  /\ Limit \in Nat /\ Limit >= 2
  /\ MaxSubmits \in Nat

VARIABLES
  h,         \* the opHistory: its list, and current as an index (0 is nil)
  fd,        \* "closed" between sessions, "open", or "none" if it cannot be opened
  file,      \* the history file: its lines, and what follows the last newline
  text,      \* the line under edit
  vi,        \* the session is in vi mode
  submits    \* lines submitted so far
vars == <<h, fd, file, text, vi, submits>>

(* A text is a sequence of lines written one after the other: of one line, *)
(* or of none, unless the file joins them.                                 *)
Empty == << >>
Typed == {<<l>> : l \in Lines}

(* A hisItem. Of its version only matters whether it is the present one,   *)
(* in which case the edited text is shown.                                 *)
Item(s, live) == [src |-> s, tmp |-> Empty, live |-> live]
Shown(item) == IF item.live THEN item.tmp ELSE item.src

(* Versions begin at 0, also that of a new item. *)
NoHistory == [items |-> << >>, cur |-> 0, bumped |-> FALSE]

IsText(t) == t \in Seq(Lines)
(* current is an element of the list, or nil while the list is empty: New  *)
(* uses it without a look, and the list drops elements (history.go:107).   *)
TypeOK ==
  /\ \A i \in DOMAIN h.items :
       /\ IsText(h.items[i].src) /\ IsText(h.items[i].tmp)
       /\ h.items[i].live \in BOOLEAN
  /\ IF h.items = << >> THEN h.cur = 0 ELSE h.cur \in DOMAIN h.items
  /\ Len(h.items) <= Limit + 1
  /\ h.bumped \in BOOLEAN
  /\ fd \in {"closed", "open", "none"}
  /\ \A i \in DOMAIN file.lines : IsText(file.lines[i])
  /\ IsText(file.tail) /\ IsText(text)
  /\ vi \in BOOLEAN
  /\ submits \in 0 .. MaxSubmits

Init ==
  /\ h = NoHistory /\ fd = "closed"
  /\ file = [lines |-> << >>, tail |-> Empty]
  /\ text = Empty /\ vi = FALSE /\ submits = 0

-----------------------------------------------------------------------------
(***************************************************************************)
(* The operations of opHistory                                             *)
(***************************************************************************)
Newest(s, n) == IF Len(s) <= n THEN s ELSE SubSeq(s, Len(s) - n + 1, Len(s))

(* The oldest items go; current is an element, not a position. *)
\* Mutant: current stays at its position.
CompactInPlace(g) == [g EXCEPT !.items = Newest(@, Limit)]
Compact(g) ==
  LET gone == Len(g.items) - Limit
  IN  IF gone <= 0 THEN g
      ELSE [g EXCEPT !.items = Newest(@, Limit),
                     !.cur = IF @ = 0 THEN 0 ELSE @ - gone]

Push(g, s) ==
  [g EXCEPT !.items = Append(@, Item(s, ~g.bumped)), !.cur = Len(g.items) + 1]

(* historyVer++: the edits of older lines are not shown any more. *)
Bump(g) ==
  [g EXCEPT !.items = [i \in DOMAIN @ |-> [@[i] EXCEPT !.live = FALSE]],
            !.bumped = TRUE]

Update(g, s) ==
  Compact(IF g.cur = 0 THEN Push(g, s)
          ELSE [g EXCEPT !.items[g.cur].tmp = s, !.items[g.cur].live = TRUE])

Commit(g, s) ==
  Compact(IF g.cur = 0 THEN Push(g, s)
          ELSE [g EXCEPT !.items[g.cur].src = s, !.items[g.cur].live = TRUE])

AtBack(g) == [g EXCEPT !.cur = Len(g.items)]
\* Mutant: current stays at the item that was walked to.
RevertInPlace(g) == Bump(g)
Revert(g) == Bump(AtBack(g))
Cleared(g) ==
  Bump([AtBack(g) EXCEPT !.items[Len(g.items)] = Item(Empty, @.live)])

(* The line is that of the item before the one under edit, or no line. *)
\* Mutant: only an empty line is not recorded.
NothingIfEmpty(g, s) == Len(g.items) > 0 /\ s = Empty
Nothing(g, s) ==
  \/ Len(g.items) > 1 /\ g.items[Len(g.items) - 1].src = s
  \/ Len(g.items) > 0 /\ s = Empty

(* An older line that was edited moves to the end with its edits. *)
\* Mutant: the older line moves as it was submitted then.
MovedUnedited(g, s) == IF g.cur # Len(g.items) THEN g.items[g.cur].src ELSE s
Moved(g, s) == IF g.cur # Len(g.items) THEN g.items[g.cur].tmp ELSE s

New(g, s) ==
  IF Nothing(g, s) THEN Cleared(g)
  ELSE Push(Bump(Commit(AtBack(g), Moved(g, s))), Empty)

(* What New appends to the file; without a current item nothing is. *)
\* Mutant: the file has the line also when the list is left alone.
WrittenAnyway(f, g, s) ==
  IF g.items = << >> \/ fd # "open" THEN f
  ELSE [lines |-> Append(f.lines, f.tail \o Moved(g, s)), tail |-> Empty]
Written(f, g, s) ==
  IF Nothing(g, s) \/ g.items = << >> \/ fd # "open" THEN f
  ELSE [lines |-> Append(f.lines, f.tail \o Moved(g, s)), tail |-> Empty]

(* A rewrite writes the lines that are kept, with nothing between them. *)
Rewritten(f, kept) ==
  IF Len(f.lines) > Limit
  THEN [lines |-> << >>, tail |-> FlattenSeq(kept)]
  ELSE f

-----------------------------------------------------------------------------
(***************************************************************************)
(* A session                                                               *)
(***************************************************************************)

(* The lines that are read: empty ones are ignored. *)
NonEmpty(s) ==
  LET kept[n \in 0 .. Len(s)] ==
        IF n = 0 THEN << >>
        ELSE IF s[n] = Empty THEN kept[n - 1] ELSE Append(kept[n - 1], s[n])
  IN  kept[Len(s)]

(* The file is opened and read up to its last newline; empty lines count   *)
(* for the decision to rewrite it.                                         *)
Begin ==
  /\ fd = "closed" /\ fd' = "open" /\ vi' \in BOOLEAN
  /\ LET kept == Newest(NonEmpty(file.lines), Limit)
     IN  /\ h' = [items  |-> [i \in DOMAIN kept |-> Item(kept[i], FALSE)]
                               \o <<Item(Empty, FALSE)>>,
                  cur    |-> Len(kept) + 1,
                  bumped |-> TRUE]
         /\ file' = Rewritten(file, kept)
  /\ UNCHANGED <<text, submits>>

(* It cannot be opened: the history is empty and has no current item. *)
BeginWithoutFile ==
  /\ fd = "closed" /\ fd' = "none" /\ vi' \in BOOLEAN
  /\ h' = NoHistory
  /\ UNCHANGED <<file, text, submits>>

(* The end of the input, or of the process at any time. *)
Leave ==
  /\ fd # "closed" /\ fd' = "closed"
  /\ h' = NoHistory
  /\ text' = Empty
  /\ UNCHANGED <<file, vi, submits>>

(* A key edits the line; the loop ends with Update. *)
Edit(t) ==
  /\ fd # "closed"
  /\ text' = t
  /\ h' = Update(h, t)
  /\ UNCHANGED <<fd, file, vi, submits>>

(* A command of vi's normal mode edits it and skips the end of the loop. *)
ViEdit(t) ==
  /\ fd # "closed" /\ vi /\ t # text
  /\ text' = t
  /\ UNCHANGED <<h, fd, file, vi, submits>>

(* Prev and Next: the other line is shown, and what it shows updated. *)
Walk(to) ==
  /\ fd # "closed"
  /\ LET there == to \in DOMAIN h.items
         shown == IF there THEN Shown(h.items[to]) ELSE text
     IN  /\ text' = shown
         /\ h' = Update(IF there THEN [h EXCEPT !.cur = to] ELSE h, shown)
  /\ UNCHANGED <<fd, file, vi, submits>>

Prev == Walk(h.cur - 1)
Next_ == Walk(h.cur + 1)

(* Enter: the line is delivered and New called, then Update. *)
Submit ==
  /\ fd # "closed" /\ submits < MaxSubmits
  /\ submits' = submits + 1
  /\ h' = Update(New(h, text), Empty)
  /\ file' = Written(file, h, text)
  /\ text' = Empty
  /\ UNCHANGED <<fd, vi>>

Interrupt ==
  /\ fd # "closed"
  /\ h' = Revert(h)
  /\ text' = Empty
  /\ UNCHANGED <<fd, file, vi, submits>>

Next ==
  \/ Begin \/ BeginWithoutFile \/ Leave
  \/ Prev \/ Next_ \/ Submit \/ Interrupt
  \/ \E t \in Typed \cup {Empty} : Edit(t) \/ ViEdit(t)

Spec == Init /\ [][Next]_vars

-----------------------------------------------------------------------------
(* The item under the cursor shows the line under edit, so that walking    *)
(* away and back loses nothing, and New takes the right text of an item.   *)
LineIsCurrentItem ==
  fd = "open" /\ ~vi => Shown(h.items[h.cur]) = text

(* The lines of the list but the last, the one under edit. *)
Sources == [i \in 1 .. Len(h.items) - 1 |-> h.items[i].src]

Promise == INSTANCE Recall WITH
  Text <- Seq(Lines),
  inSession <- (fd = "open" /\ ~vi),
  recall <- IF fd = "open" /\ ~vi THEN Sources ELSE << >>

(* A session in emacs mode implements Recall. *)
ImplementsRecall == Promise!Spec

(* readline.go:33, "readline will persist historys to file where           *)
(* HistoryFile specified": the lines a session can recall are the last     *)
(* lines of the file, which the next session begins with, as long as no    *)
(* rewrite has joined lines of it (history.go:120).                        *)
Joined == file.tail # Empty \/ \E i \in DOMAIN file.lines : Len(file.lines[i]) > 1
FileFollowsList ==
  fd = "open" /\ ~Joined => IsSuffix(NonEmpty(Sources), NonEmpty(file.lines))
=============================================================================
