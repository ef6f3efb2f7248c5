--------------------------- MODULE TerminalProofs ---------------------------
(***************************************************************************)
(* What a user's terminal shows, and what an update does to the program    *)
(* that shows it.                                                          *)
(*                                                                         *)
(* TerminalUi, for any characters and widths, any sessions and any bounds: *)
(* the cursor is on the line and is drawn in its place, the list is the    *)
(* one its title announces, the client scrolls inside its output.  Columns *)
(* is never looked into: that it depends on nothing behind the cursor is   *)
(* all that is needed.                                                     *)
(*                                                                         *)
(* Updater, for any number of updates of any programs, any versions and    *)
(* clock: a program on which no two updates met has a whole binary in      *)
(* place, there is a whole backup until it is replaced, and what replaces  *)
(* it is newer.                                                            *)
(***************************************************************************)
EXTENDS TerminalUi, Updater, FiniteSetTheorems, SequenceTheorems, TLAPS

LEMMA RemoveAtProperties ==
    ASSUME NEW S, NEW s \in Seq(S), NEW k \in 1..Len(s)
    PROVE  /\ RemoveAt(s, k) \in Seq(S)
           /\ Len(RemoveAt(s, k)) = Len(s) - 1
           /\ \A i \in 1..(k - 1) : RemoveAt(s, k)[i] = s[i]
           /\ \A i \in k..(Len(s) - 1) : RemoveAt(s, k)[i] = s[i + 1]
<1> DEFINE a == SubSeq(s, 1, k - 1)
           b == SubSeq(s, k + 1, Len(s))
<1>1. Len(s) \in Nat /\ \A i \in 1..Len(s) : s[i] \in S
  BY LenProperties, ElementOfSeq
<1>2. /\ a \in Seq(S) /\ Len(a) = k - 1
      /\ \A i \in 1..(k - 1) : a[i] = s[i]
  <2>1. \A i \in 1..(k - 1) : s[i] \in S
    BY <1>1
  <2>2. k - 1 \in Int /\ 1 \in Int
    BY <1>1
  <2> QED BY <1>1, <2>1, <2>2, SubSeqProperties
<1>3. /\ b \in Seq(S) /\ Len(b) = Len(s) - k
      /\ \A i \in 1..(Len(s) - k) : b[i] = s[k + i]
  <2>1. \A i \in (k + 1)..Len(s) : s[i] \in S
    BY <1>1
  <2>2. k + 1 \in Int /\ Len(s) \in Int
    BY <1>1
  <2>3. /\ b \in Seq(S) /\ Len(b) = IF k + 1 <= Len(s) THEN Len(s) - (k + 1) + 1 ELSE 0
        /\ \A i \in 1..(Len(s) - (k + 1) + 1) : b[i] = s[(k + 1) + i - 1]
    BY <2>1, <2>2, SubSeqProperties
  <2>4. ASSUME NEW i \in 1..(Len(s) - k) PROVE b[i] = s[k + i]
    <3>1. i \in 1..(Len(s) - (k + 1) + 1) /\ (k + 1) + i - 1 = k + i
      BY <1>1
    <3> QED BY <2>3, <3>1
  <2> QED BY <1>1, <2>3, <2>4
<1> HIDE DEF a, b
<1>4. /\ a \o b \in Seq(S) /\ Len(a \o b) = Len(a) + Len(b)
      /\ \A i \in 1..(Len(a) + Len(b)) : (a \o b)[i] = IF i <= Len(a) THEN a[i] ELSE b[i - Len(a)]
  BY <1>2, <1>3, ConcatProperties
<1>5. RemoveAt(s, k) = a \o b
  BY DEF RemoveAt, a, b
<1>6. Len(a \o b) = Len(s) - 1
  BY <1>1, <1>2, <1>3, <1>4
<1>7. ASSUME NEW i \in 1..(k - 1) PROVE (a \o b)[i] = s[i]
  <2>1. i \in 1..(Len(a) + Len(b)) /\ i <= Len(a)
    BY <1>1, <1>2, <1>3
  <2>2. (a \o b)[i] = IF i <= Len(a) THEN a[i] ELSE b[i - Len(a)]
    BY <1>4, <2>1
  <2> QED BY <1>2, <2>1, <2>2
<1>8. a \o b \in Seq(S)
  BY <1>4
<1>9. ASSUME NEW i \in k..(Len(s) - 1) PROVE (a \o b)[i] = s[i + 1]
  <2>1. i \in 1..(Len(a) + Len(b)) /\ ~(i <= Len(a))
    BY <1>1, <1>2, <1>3
  <2>2. (a \o b)[i] = IF i <= Len(a) THEN a[i] ELSE b[i - Len(a)]
    BY <1>4, <2>1
  <2>3. i - Len(a) \in 1..(Len(s) - k) /\ k + (i - Len(a)) = i + 1
    BY <1>1, <1>2
  <2> QED BY <1>3, <2>1, <2>2, <2>3
<1> QED BY <1>5, <1>6, <1>7, <1>8, <1>9

LEMMA InsertAtProperties ==
    ASSUME NEW S, NEW s \in Seq(S), NEW k \in 1..(Len(s) + 1), NEW x \in S
    PROVE  InsertAt(s, k, x) \in Seq(S) /\ Len(InsertAt(s, k, x)) = Len(s) + 1
<1> DEFINE a == SubSeq(s, 1, k - 1)
           b == SubSeq(s, k, Len(s))
<1>1. Len(s) \in Nat /\ \A i \in 1..Len(s) : s[i] \in S
  BY LenProperties, ElementOfSeq
<1>2. a \in Seq(S) /\ Len(a) = k - 1
  <2>1. \A i \in 1..(k - 1) : s[i] \in S
    BY <1>1
  <2>2. k - 1 \in Int /\ 1 \in Int
    BY <1>1
  <2> QED BY <1>1, <2>1, <2>2, SubSeqProperties
<1>3. b \in Seq(S) /\ Len(b) = Len(s) - k + 1
  <2>1. \A i \in k..Len(s) : s[i] \in S
    BY <1>1
  <2>2. b \in Seq(S) /\ Len(b) = IF k <= Len(s) THEN Len(s) - k + 1 ELSE 0
    BY <1>1, <2>1, SubSeqProperties
  <2> QED BY <1>1, <2>2
<1>4. <<x>> \in Seq(S) /\ Len(<<x>>) = 1
  OBVIOUS
<1> HIDE DEF a, b
<1>5. a \o <<x>> \in Seq(S) /\ Len(a \o <<x>>) = Len(a) + 1
  BY <1>2, <1>4, ConcatProperties
<1> DEFINE ax == a \o <<x>>
<1> HIDE DEF ax
<1>6. ax \in Seq(S) /\ Len(ax) = Len(a) + 1
  BY <1>5 DEF ax
<1>7. ax \o b \in Seq(S) /\ Len(ax \o b) = Len(ax) + Len(b)
  BY <1>3, <1>6, ConcatProperties
<1>8. InsertAt(s, k, x) = ax \o b
  BY DEF InsertAt, a, b, ax
<1> QED BY <1>1, <1>2, <1>3, <1>6, <1>7, <1>8

\* Lines that agree up to n are as wide up to n.
LEMMA SameColumns ==
    ASSUME NEW s, NEW t, NEW n, \A i \in 1..n : s[i] = t[i]
    PROVE  Columns(s, n) = Columns(t, n)
<1>1. [i \in 1..n |-> Width[s[i]]] = [i \in 1..n |-> Width[t[i]]]
  OBVIOUS
<1> QED BY <1>1 DEF Columns

-----------------------------------------------------------------------------
(* The input line.                                                         *)

LineInv ==
    /\ input \in Seq(Chars) /\ cursor \in 0..Len(input)
    /\ ColumnFollows

LEMMA EditKeepsLine == ASSUME LineInv, Edit PROVE LineInv'
<1> USE DEF LineInv
<1>0. Len(input) \in Nat /\ cursor \in Nat
  BY LenProperties
\* What Place writes is in its place.
<1>1. ASSUME NEW s \in Seq(Chars), NEW n \in 0..Len(s), Place(s, n) PROVE LineInv'
  BY <1>1 DEF Place, ColumnFollows
<1>2. ASSUME NEW c \in Chars, Type(c) PROVE LineInv'
  <2>1. /\ InsertAt(input, cursor + 1, c) \in Seq(Chars)
        /\ Len(InsertAt(input, cursor + 1, c)) = Len(input) + 1
    <3>1. cursor + 1 \in 1..(Len(input) + 1)
      BY <1>0
    <3> QED BY <3>1, InsertAtProperties
  <2>2. cursor + 1 \in 0..Len(InsertAt(input, cursor + 1, c))
    BY <1>0, <2>1
  <2>3. Place(InsertAt(input, cursor + 1, c), cursor + 1)
    BY <1>2 DEF Type
  <2> HIDE DEF LineInv
  <2> QED BY <1>1, <2>1, <2>2, <2>3
<1>3. ASSUME Backspace PROVE LineInv'
  <2>1. /\ RemoveAt(input, cursor) \in Seq(Chars)
        /\ Len(RemoveAt(input, cursor)) = Len(input) - 1
    <3>1. cursor \in 1..Len(input)
      BY <1>0, <1>3 DEF Backspace
    <3> QED BY <3>1, RemoveAtProperties
  <2>2. cursor - 1 \in 0..Len(RemoveAt(input, cursor))
    BY <1>0, <1>3, <2>1 DEF Backspace
  <2>3. Place(RemoveAt(input, cursor), cursor - 1)
    BY <1>3 DEF Backspace
  <2> HIDE DEF LineInv
  <2> QED BY <1>1, <2>1, <2>2, <2>3
<1>4. ASSUME Delete PROVE LineInv'
  <2>1. /\ input' \in Seq(Chars) /\ Len(input') = Len(input) - 1
        /\ \A i \in 1..cursor : input'[i] = input[i]
    <3>1. cursor + 1 \in 1..Len(input)
      BY <1>0, <1>4 DEF Delete
    <3>2. /\ RemoveAt(input, cursor + 1) \in Seq(Chars)
          /\ Len(RemoveAt(input, cursor + 1)) = Len(input) - 1
          /\ \A i \in 1..((cursor + 1) - 1) : RemoveAt(input, cursor + 1)[i] = input[i]
      BY <3>1, RemoveAtProperties
    <3> QED BY <1>0, <1>4, <3>2 DEF Delete
  <2>2. cursor' \in 0..Len(input')
    BY <1>0, <1>4, <2>1 DEF Delete
  <2>3. input # <<>>
    BY <1>0, <1>4, EmptySeq DEF Delete
  <2>4. Columns(input', cursor) = Columns(input, cursor)
    BY <2>1, SameColumns
  <2>5. column' = Columns(input', cursor')
    BY <1>4, <2>3, <2>4 DEF Delete, ColumnFollows
  <2> QED BY <2>1, <2>2, <2>5 DEF ColumnFollows
<1>5. ASSUME Left \/ Right \/ Home \/ End PROVE LineInv'
  <2>1. PICK n \in 0..Len(input) : Place(input, n)
    <3>1. /\ Monus(cursor, 1) \in 0..Len(input)
          /\ (IF cursor < Len(input) THEN cursor + 1 ELSE cursor) \in 0..Len(input)
          /\ 0 \in 0..Len(input) /\ Len(input) \in 0..Len(input)
      BY <1>0 DEF Monus
    <3> QED BY <1>5, <3>1 DEF Left, Right, Home, End
  <2> QED BY <1>1, <2>1
<1>6. ASSUME Clear PROVE LineInv'
  BY <1>6 DEF Clear, Empty, ColumnFollows
<1> QED BY <1>2, <1>3, <1>4, <1>5, <1>6 DEF Edit

LEMMA NextKeepsLine == ASSUME LineInv, [Next]_vars PROVE LineInv'
<1>1. ASSUME UNCHANGED line PROVE LineInv'
  <2>1. input' = input /\ cursor' = cursor /\ column' = column
    BY <1>1 DEF line
  <2> QED BY <2>1 DEF LineInv, ColumnFollows
<1>2. CASE Edit
  BY <1>2, EditKeepsLine
<1>3. CASE Enter
  BY <1>3 DEF Enter, Empty, LineInv, ColumnFollows
<1>4. CASE Output \/ FunctionKey \/ Scroll \/ Move \/ HistoryEnds \/ Open \/ LeaveSearch \/ OnDisk
  BY <1>1, <1>4 DEF Output, FunctionKey, Scroll, Move, HistoryEnds, Open, LeaveSearch, OnDisk
<1>5. CASE UNCHANGED vars
  BY <1>1, <1>5 DEF vars, line
<1> QED BY <1>2, <1>3, <1>4, <1>5 DEF Next

(* Wherever the cursor was moved, and whatever was typed before or deleted  *)
(* behind it, it is drawn where the next character goes.                   *)
THEOREM CursorInPlace == Spec => []ColumnFollows
<1>1. Init => LineInv
  <2>1. <<>> \in Seq(Chars) /\ Len(<<>>) = 0 /\ 0 \in 0..0
    OBVIOUS
  <2>2. ASSUME Init PROVE input = <<>> /\ cursor = 0
    BY <2>2 DEF Init
  <2>3. ASSUME Init PROVE LineInv
    BY <2>1, <2>2, <2>3 DEF LineInv, ColumnFollows
  <2> QED BY <2>3
<1>2. LineInv /\ [Next]_vars => LineInv'
  BY NextKeepsLine
<1>3. LineInv => ColumnFollows
  BY DEF LineInv
<1> QED BY <1>1, <1>2, <1>3, PTL DEF Spec

-----------------------------------------------------------------------------
(* Views and the list of sessions.                                         *)

ViewInv ==
    /\ search \in {"", Query} /\ listed \in {"", Query, "unread"}
    /\ TitleMatchesList /\ NeverSelecting

LEMMA LocalKeepsViews ==
    ASSUME ViewInv, LocalKey \/ LocalCommand PROVE ViewInv'
<1> USE DEF ViewInv, TitleMatchesList, NeverSelecting
<1>1. ASSUME RequestHistory \/ SearchHistory PROVE ViewInv'
  BY <1>1 DEF RequestHistory, SearchHistory, Read
<1>2. ASSUME NEW v \in {"Chat", "Tools", "Usage", "Help", "About"}, Show(v) PROVE ViewInv'
  BY <1>2 DEF Show, history
<1>3. ASSUME NEW v, RequestTools(v) PROVE ViewInv'
  BY <1>2, <1>3 DEF RequestTools
<1>4. ASSUME NewChat PROVE ViewInv'
  BY <1>4 DEF NewChat, history
<1>5. ASSUME EnableMulti \/ DisableMulti \/ PerformUpdate \/ Quit \/ ClearOutput \/ OneLine
      PROVE  ViewInv'
  BY <1>5 DEF EnableMulti, DisableMulti, PerformUpdate, Quit, ClearOutput, OneLine, history
<1> HIDE DEF ViewInv
<1> QED BY <1>1, <1>2, <1>3, <1>4, <1>5 DEF LocalKey, LocalCommand

LEMMA NextKeepsViews == ASSUME ViewInv, [Next]_vars PROVE ViewInv'
<1> USE DEF ViewInv, TitleMatchesList, NeverSelecting
<1>1. ASSUME UNCHANGED <<view, search, listed>> PROVE ViewInv'
  BY <1>1
<1>2. ASSUME NEW v \in {"Chat", "Tools", "Usage", "Help", "About"}, Show(v) PROVE ViewInv'
  BY <1>2 DEF Show, history
<1> HIDE DEF ViewInv
<1>3. CASE Enter
  <2>1. ASSUME OneLine \/ Quit \/ ClearOutput PROVE ViewInv'
    BY <1>1, <2>1 DEF OneLine, Quit, ClearOutput, history
  <2>2. ASSUME ClientCommand PROVE ViewInv'
    BY <1>2, <2>1, <2>2 DEF ClientCommand
  <2> QED BY <1>3, <2>1, <2>2, LocalKeepsViews DEF Enter
<1>4. CASE FunctionKey
  <2>1. ASSUME Quit PROVE ViewInv'
    BY <1>1, <2>1 DEF Quit, history
  <2>2. ASSUME ClientKey PROVE ViewInv'
    BY <1>2, <2>2 DEF ClientKey
  <2> QED BY <1>4, <2>1, <2>2, LocalKeepsViews DEF FunctionKey
<1>5. CASE Open
  BY <1>5 DEF Open, Resume, history, ViewInv
<1>6. CASE LeaveSearch
  <2>1. CASE RequestHistory
    BY <2>1, LocalKeepsViews DEF LocalKey
  <2>2. CASE Show("Chat")
    BY <1>2, <2>2
  <2> QED BY <1>6, <2>1, <2>2 DEF LeaveSearch
<1>7. CASE Output \/ Edit \/ Scroll \/ Move \/ HistoryEnds \/ OnDisk
  BY <1>1, <1>7 DEF Output, Edit, Scroll, Move, HistoryEnds, OnDisk, history
<1>8. CASE UNCHANGED vars
  BY <1>1, <1>8 DEF vars, history
<1> QED BY <1>3, <1>4, <1>5, <1>6, <1>7, <1>8 DEF Next

LEMMA ViewsAlways == Spec => []ViewInv
<1>1. Init => ViewInv
  BY DEF Init, ViewInv, TitleMatchesList, NeverSelecting
<1>2. ViewInv /\ [Next]_vars => ViewInv'
  BY NextKeepsViews
<1> QED BY <1>1, <1>2, PTL DEF Spec

(* Whatever commands and keys come one after the other, and whenever the   *)
(* index can or cannot be read, the list of sessions answers its title.    *)
THEOREM TitleIsTrue == Spec => []TitleMatchesList
<1>1. ViewInv => TitleMatchesList
  BY DEF ViewInv
<1> QED BY <1>1, ViewsAlways, PTL

(* No key and no command brings up the screen on which models are chosen.  *)
THEOREM SelectionNeverShown == Spec => []NeverSelecting
<1>1. ViewInv => NeverSelecting
  BY DEF ViewInv
<1> QED BY <1>1, ViewsAlways, PTL

-----------------------------------------------------------------------------
(* Output and scrolling: the client has no list of sessions, whose ends    *)
(* scroll what is behind it.                                               *)

ScrollInv ==
    /\ ui \in {"local", "client"} /\ lines \in Nat /\ scroll \in Nat
    /\ ui = "client" => view # "History"
    /\ ScrollInside

\* What is said last is what is scrolled to; an emptied output is shown from its top.
LEMMA SaidInside ==
    ASSUME lines \in Nat,
           \/ Say(1) \/ Say(2) \/ Restart(0) \/ Restart(1) \/ Restart(2)
           \/ \E n \in 1..MaxLines : Restart(n)
    PROVE  lines' \in Nat /\ scroll' \in Nat /\ scroll' <= Monus(lines', 1)
<1>1. ASSUME NEW n \in {1, 2}, Say(n)
      PROVE  lines' \in Nat /\ scroll' \in Nat /\ scroll' <= Monus(lines', 1)
  BY <1>1 DEF Say, Monus
<1>2. ASSUME NEW n \in Nat, Restart(n)
      PROVE  lines' \in Nat /\ scroll' \in Nat /\ scroll' <= Monus(lines', 1)
  BY <1>2 DEF Restart, Monus
<1>3. \A n \in 1..MaxLines : n \in Nat
  <2>1. MaxLines \in Nat
    BY TerminalAssumption
  <2> QED BY <2>1
<1> QED BY <1>1, <1>2, <1>3

LEMMA CommandInside ==
    ASSUME ScrollInv, UNCHANGED ui,
           \/ ui = "local" /\ (LocalKey \/ LocalCommand)
           \/ ui = "client" /\ (ClientKey \/ ClientCommand)
           \/ Quit \/ OneLine
    PROVE  ScrollInv'
<1> USE DEF ScrollInv, ScrollInside
<1>1. ASSUME UNCHANGED <<lines, scroll>>, ui = "local" \/ view' # "History" PROVE ScrollInv'
  BY <1>1
<1>2. ASSUME Say(1) \/ Say(2) \/ Restart(0) \/ Restart(1) \/ Restart(2),
             ui = "local" \/ view' # "History"
      PROVE  ScrollInv'
  BY <1>2, SaidInside
<1>3. ASSUME Quit \/ OneLine \/ ClearOutput PROVE ScrollInv'
  BY <1>1, <1>2, <1>3 DEF Quit, OneLine, ClearOutput, output
<1>4. ASSUME NEW v, Show(v), ui = "local" \/ v # "History" PROVE ScrollInv'
  BY <1>1, <1>4 DEF Show, output
<1>5. ASSUME ui = "client", ClientKey \/ ClientCommand PROVE ScrollInv'
  BY <1>3, <1>4, <1>5 DEF ClientKey, ClientCommand
<1>6. ASSUME ui = "local", LocalKey \/ LocalCommand PROVE ScrollInv'
  <2>1. ASSUME RequestHistory \/ SearchHistory PROVE ScrollInv'
    BY <1>1, <1>6, <2>1 DEF RequestHistory, SearchHistory, output
  <2>2. ASSUME NewChat \/ EnableMulti \/ DisableMulti \/ PerformUpdate PROVE ScrollInv'
    <3>1. \A n \in 1..2 : n = 1 \/ n = 2
      OBVIOUS
    <3>2. Say(1) \/ Say(2) \/ Restart(1) \/ Restart(2)
      BY <2>2, <3>1 DEF NewChat, EnableMulti, DisableMulti, PerformUpdate
    <3> QED BY <1>2, <1>6, <3>2
  <2>3. ASSUME NEW v, Show(v) \/ RequestTools(v) PROVE ScrollInv'
    BY <1>4, <1>6, <2>3 DEF RequestTools
  <2> HIDE DEF ScrollInv
  <2> QED BY <1>3, <1>6, <2>1, <2>2, <2>3 DEF LocalKey, LocalCommand
<1> HIDE DEF ScrollInv
<1> QED BY <1>3, <1>5, <1>6

LEMMA NextInside == ASSUME ScrollInv, [Next]_vars PROVE ScrollInv'
<1> USE DEF ScrollInv, ScrollInside
<1>1. ASSUME UNCHANGED <<ui, lines, scroll, view>> PROVE ScrollInv'
  BY <1>1
<1>2. CASE Output
  BY <1>2, SaidInside DEF Output
<1>3. CASE Enter \/ FunctionKey
  <2> HIDE DEF ScrollInv
  <2> QED BY <1>3, CommandInside DEF Enter, FunctionKey
<1>4. CASE Scroll
  <2>1. Page \in Nat /\ Bottom \in Nat /\ 1 \in Nat
    BY TerminalAssumption
  <2>2. ASSUME NEW n \in Nat, Up(n) \/ Down(n), UNCHANGED <<ui, lines, view>> PROVE ScrollInv'
    BY <2>2 DEF Up, Down, Monus
  <2>3. ASSUME ui = "local", scroll' \in {0, Bottom}, UNCHANGED <<ui, lines, view>> PROVE ScrollInv'
    BY <2>1, <2>3
  <2> HIDE DEF ScrollInv
  <2> QED BY <1>4, <2>1, <2>2, <2>3 DEF Scroll
<1>5. CASE HistoryEnds
  <2>1. Bottom \in Nat
    BY TerminalAssumption
  <2>2. ui = "local" /\ scroll' \in {0, Bottom} /\ UNCHANGED <<ui, lines, view>>
    BY <1>5 DEF HistoryEnds
  <2> QED BY <2>1, <2>2
<1>6. CASE Open
  <2>1. ui = "local" /\ UNCHANGED ui
    BY <1>6 DEF Open
  <2>2. (\E n \in 1..MaxLines : Restart(n)) \/ Say(1)
    BY <1>6 DEF Open, Resume
  <2> QED BY <2>1, <2>2, SaidInside
<1>7. CASE LeaveSearch
  <2>1. ui = "local" /\ UNCHANGED <<ui, lines, scroll>>
    BY <1>7 DEF LeaveSearch, RequestHistory, Show, output
  <2> QED BY <2>1
<1>8. CASE Edit \/ Move \/ OnDisk
  BY <1>1, <1>8 DEF Edit, Move, OnDisk, output
<1>9. CASE UNCHANGED vars
  BY <1>1, <1>9 DEF vars, output
<1> HIDE DEF ScrollInv
<1> QED BY <1>2, <1>3, <1>4, <1>5, <1>6, <1>7, <1>8, <1>9 DEF Next

(* Whatever keys scroll it and whatever is said, cleared or resumed, the   *)
(* client never scrolls past its output.                                   *)
THEOREM ScrollStaysInside == Spec => []ScrollInside
<1>1. Init => ScrollInv
  <2>1. ASSUME Init
        PROVE  lines = 1 /\ scroll = 0 /\ ui \in {"local", "client"} /\ view = "Chat"
    BY <2>1 DEF Init
  <2> QED BY <2>1 DEF ScrollInv, ScrollInside, Monus
<1>2. ScrollInv /\ [Next]_vars => ScrollInv'
  BY NextInside
<1>3. ScrollInv => ScrollInside
  BY DEF ScrollInv
<1> QED BY <1>1, <1>2, <1>3, PTL DEF Spec

-----------------------------------------------------------------------------
(* The updater: the inductive invariant.                                   *)

(* An update that no other met on its program. *)
Alone(u) == ~At(u, "idle") /\ Prog(u) \notin overlap

\* the steps until the executable is replaced
Before == {"backup", "copy", "download", "create", "write", "mode", "verify", "rename", "restore"}

OnlyOne == \A u, w \in Updaters : Alone(u) /\ Alone(w) /\ Prog(u) = Prog(w) => u = w

(* What an update that is alone knows of its files at each step. *)
InPlaceFor(r, e, t, i) ==
    /\ r.pc \in Before \cup {"chmod", "cleanup"}
    /\ r.pc \in Before => r.image = i /\ r.version = e.content
    /\ r.pc \in {"create", "write"} => r.got \in {r.target, Junk}
    /\ r.pc = "write" => r.fd = "temp" /\ t # NoFile
    /\ r.pc \in {"mode", "verify"} => t # NoFile /\ t.content \in {r.target, Junk}
    /\ r.pc = "rename" => t # NoFile /\ t.content = r.target
    /\ r.pc \in {"verify", "rename"} /\ r.prog \in Careful => t.exec
InPlace ==
    \A u \in Updaters :
        Alone(u) => InPlaceFor(run[u], exe[Prog(u)], temp[Prog(u)], image[Prog(u)])

(* Its backup is among the newest: at most run[u].later were written after it. *)
Kept ==
    \A u \in Updaters : Alone(u) /\ run[u].pc \in Backing \cup {"copy"} /\ run[u].later < Keep =>
        \E i \in DOMAIN backups :
            /\ Named(backups[i], u)
            /\ Len(backups) - i <= run[u].later
            /\ run[u].pc # "copy" => backups[i].content = run[u].version

OfferedStill ==
    \A u \in Updaters : ~At(u, "idle") /\ ~run[u].forced => Offered(run[u].target, run[u].version)

UInv == UpdaterTypeOK /\ AlwaysRunnable /\ OnlyOne /\ InPlace /\ Kept /\ OfferedStill

-----------------------------------------------------------------------------
(* How steps change the updates.                                           *)

LEMMA RunFields ==
    ASSUME UpdaterTypeOK, NEW u \in Updaters
    PROVE  /\ run[u] \in Run
           /\ run[u].pc \in Steps /\ run[u].prog \in Programs /\ run[u].version \in Versions
           /\ run[u].target \in Versions /\ run[u].forced \in BOOLEAN /\ run[u].image \in Nat
           /\ run[u].at \in Nat /\ run[u].later \in 0..Keep /\ run[u].got \in Content
           /\ run[u].fd \in {"none", "temp", "exe"}
BY DEF UpdaterTypeOK, Run

LEMMA IdleIsRun == Idle \in Run /\ Idle.pc = "idle"
<1>1. (CHOOSE p \in Programs : TRUE) \in Programs
  BY UpdaterAssumption
<1>2. First \in Versions /\ 0 \in 0..Keep
  BY UpdaterAssumption
<1> QED BY <1>1, <1>2 DEF Idle, Run, Steps, Content

\* what a step of u leaves of another update
Fixed(r, s) ==
    /\ s.prog = r.prog /\ s.version = r.version /\ s.target = r.target
    /\ s.forced = r.forced /\ s.image = r.image

LEMMA RunType ==
    ASSUME UpdaterTypeOK, NEW u \in Updaters, run' = [w \in Updaters |-> run'[w]],
           run'[u] \in Run, \A w \in Updaters \ {u} : run'[w] \in Run
    PROVE  run' \in [Updaters -> Run]
<1>1. \A w \in Updaters : run'[w] \in Run
  OBVIOUS
<1> QED BY <1>1

LEMMA EndFacts ==
    ASSUME UpdaterTypeOK, NEW u \in Updaters, EndRun(u)
    PROVE  /\ run' \in [Updaters -> Run] /\ run'[u].pc = "idle"
           /\ \A w \in Updaters \ {u} : run'[w] = run[w]
BY IdleIsRun DEF EndRun, UpdaterTypeOK

LEMMA GoFacts ==
    ASSUME UpdaterTypeOK, NEW u \in Updaters, NEW where \in Steps, Go(u, where)
    PROVE  /\ run' \in [Updaters -> Run] /\ run'[u].pc = where /\ Fixed(run[u], run'[u])
           /\ run'[u].at = run[u].at /\ run'[u].later = run[u].later
           /\ run'[u].got = run[u].got /\ run'[u].fd = run[u].fd
           /\ \A w \in Updaters \ {u} : run'[w] = run[w]
<1>1. run' = [run EXCEPT ![u].pc = where] /\ run \in [Updaters -> Run]
  BY DEF Go, UpdaterTypeOK
<1>2. run' \in [Updaters -> Run]
  BY <1>1 DEF Run
<1> QED BY <1>1, <1>2 DEF Fixed, Run


LEMMA FailedFacts ==
    ASSUME UpdaterTypeOK, NEW u \in Updaters, Failed(u)
    PROVE  /\ run' \in [Updaters -> Run]
           /\ run'[u].pc \in {"idle", "restore"}
           /\ run'[u].pc = "restore" => Fixed(run[u], run'[u]) /\ run'[u].at = run[u].at
                                           /\ run'[u].later = run[u].later
           /\ \A w \in Updaters \ {u} : run'[w] = run[w]
<1>1. CASE EndRun(u)
  BY <1>1, EndFacts
<1>2. CASE Go(u, "restore")
  BY <1>2, GoFacts DEF Steps
<1> QED BY <1>1, <1>2 DEF Failed

-----------------------------------------------------------------------------
(* Steps of one update.                                                    *)

(* A step of u changes only what belongs to its program, and of the other *)
(* updates only how they see that.                                        *)
Local(u) ==
    /\ \A w \in Updaters \ {u} :
          /\ run'[w].pc = run[w].pc /\ Fixed(run[w], run'[w])
          /\ run[w].prog # run[u].prog => run'[w].got = run[w].got /\ run'[w].fd = run[w].fd
    /\ \A p \in Programs \ {Prog(u)} :
          exe'[p] = exe[p] /\ temp'[p] = temp[p] /\ image'[p] = image[p]

LEMMA LocalStep ==
    ASSUME UInv, NEW u \in Updaters, Local(u), UNCHANGED overlap,
           run[u].pc # "idle",
           run'[u].pc = "idle" \/ Fixed(run[u], run'[u]),
           Prog(u) \notin overlap =>
               /\ exe'[Prog(u)].content \in Versions
               /\ Prog(u) \in Careful => exe'[Prog(u)].exec
               /\ run'[u].pc # "idle" =>
                     InPlaceFor(run'[u], exe'[Prog(u)], temp'[Prog(u)], image'[Prog(u)])
    PROVE  AlwaysRunnable' /\ OnlyOne' /\ InPlace' /\ OfferedStill'
<1>1. /\ AlwaysRunnable /\ OnlyOne /\ InPlace /\ OfferedStill
      /\ \A w \in Updaters : run[w].prog \in Programs
  BY RunFields DEF UInv
<1>2. \A w \in Updaters : Alone(w)' => Alone(w) /\ run'[w].prog = run[w].prog
  BY DEF Alone, At, Prog, Local, Fixed
<1>3. AlwaysRunnable'
  BY <1>1 DEF AlwaysRunnable, Local
<1>4. OnlyOne'
  BY <1>1, <1>2 DEF OnlyOne, Prog
<1>5. ASSUME NEW w \in Updaters, Alone(w)'
      PROVE  InPlaceFor(run'[w], exe'[run'[w].prog], temp'[run'[w].prog], image'[run'[w].prog])
  <2>1. Alone(w) /\ run'[w].prog = run[w].prog
    BY <1>2, <1>5
  <2>2. CASE w = u
    BY <2>1, <2>2, <1>5 DEF Alone, At, Prog
  <2>3. CASE w # u
    <3>1. run[w].prog # run[u].prog
      <4>1. Prog(u) \notin overlap /\ Prog(w) = Prog(u) => Alone(u)
        BY DEF Alone, At
      <4> QED BY <1>1, <2>1, <2>3, <4>1 DEF OnlyOne, Alone, Prog
    <3>2. /\ run'[w].pc = run[w].pc /\ Fixed(run[w], run'[w])
          /\ run'[w].got = run[w].got /\ run'[w].fd = run[w].fd
          /\ exe'[run[w].prog] = exe[run[w].prog] /\ temp'[run[w].prog] = temp[run[w].prog]
          /\ image'[run[w].prog] = image[run[w].prog]
      BY <1>1, <2>3, <3>1 DEF Local, Prog
    <3>3. InPlaceFor(run[w], exe[run[w].prog], temp[run[w].prog], image[run[w].prog])
      BY <1>1, <2>1 DEF InPlace, Prog
    <3> QED BY <2>1, <3>2, <3>3 DEF InPlaceFor, Fixed
  <2> QED BY <2>2, <2>3
<1>6. InPlace'
  BY <1>5 DEF InPlace, Prog
<1>7. OfferedStill'
  BY <1>1 DEF OfferedStill, At, Local, Fixed
<1> QED BY <1>3, <1>4, <1>6, <1>7

(* Steps that make, fill and remove no backup. *)
LEMMA KeptStep ==
    ASSUME UInv, UNCHANGED backups, overlap \subseteq overlap',
           \A w \in Updaters : run'[w].pc \in Backing \cup {"copy"} =>
               /\ run[w].pc \in Backing \cup {"copy"}
               /\ run[w].pc = "copy" => run'[w].pc = "copy"
               /\ Fixed(run[w], run'[w])
               /\ run'[w].at = run[w].at /\ run'[w].later = run[w].later
    PROVE  Kept'
<1> SUFFICES ASSUME NEW w \in Updaters, Alone(w)', run'[w].pc \in Backing \cup {"copy"},
                    run'[w].later < Keep
             PROVE  \E i \in DOMAIN backups :
                       /\ backups[i].prog = run'[w].prog /\ backups[i].at = run'[w].at
                       /\ Len(backups) - i <= run'[w].later
                       /\ run'[w].pc # "copy" => backups[i].content = run'[w].version
  BY DEF Kept, Named, Prog
<1>1. /\ run[w].pc \in Backing \cup {"copy"} /\ run[w].later < Keep
      /\ run'[w].prog = run[w].prog /\ run'[w].version = run[w].version
      /\ run'[w].at = run[w].at /\ run'[w].later = run[w].later
      /\ run'[w].pc # "copy" => run[w].pc # "copy"
  BY DEF Fixed
<1>2. Alone(w)
  BY <1>1 DEF Alone, At, Prog, Backing
<1> QED BY <1>1, <1>2 DEF UInv, Kept, Named, Prog

(* Steps that change no file and only move u on. *)
LEMMA QuietStep ==
    ASSUME UInv, NEW u \in Updaters,
           UNCHANGED <<exe, image, temp, backups, now, started, overlap>>,
           run' \in [Updaters -> Run], \A w \in Updaters \ {u} : run'[w] = run[w],
           run[u].pc # "idle",
           \/ run'[u].pc = "idle"
           \/ /\ Fixed(run[u], run'[u])
              /\ run[u].pc \in Backing /\ run'[u].pc \in Backing
              /\ run'[u].at = run[u].at /\ run'[u].later = run[u].later
              /\ Alone(u) => InPlaceFor(run'[u], exe[Prog(u)], temp[Prog(u)], image[Prog(u)])
    PROVE  UInv'
<1>1. UpdaterTypeOK'
  BY DEF UInv, UpdaterTypeOK
<1>2. Local(u)
  BY DEF Local, Fixed
<1>3. AlwaysRunnable' /\ OnlyOne' /\ InPlace' /\ OfferedStill'
  <2>1. Prog(u) \in Programs
    BY RunFields DEF UInv, Prog
  <2>2. Prog(u) \notin overlap =>
           /\ exe'[Prog(u)].content \in Versions
           /\ Prog(u) \in Careful => exe'[Prog(u)].exec
           /\ run'[u].pc # "idle" =>
                 InPlaceFor(run'[u], exe'[Prog(u)], temp'[Prog(u)], image'[Prog(u)])
    BY <2>1 DEF UInv, AlwaysRunnable, Alone, At
  <2> QED BY <1>2, <2>2, LocalStep
<1>4. Kept'
  <2>1. "idle" \notin Backing \cup {"copy"} /\ "copy" \notin Backing
    BY DEF Backing
  <2>2. \A w \in Updaters : Fixed(run[w], run[w])
    BY DEF Fixed
  <2>3. \A w \in Updaters : run'[w].pc \in Backing \cup {"copy"} =>
               /\ run[w].pc \in Backing \cup {"copy"}
               /\ run[w].pc = "copy" => run'[w].pc = "copy"
               /\ Fixed(run[w], run'[w])
               /\ run'[w].at = run[w].at /\ run'[w].later = run[w].later
    BY <2>1, <2>2
  <2> QED BY <2>3, KeptStep
<1> QED BY <1>1, <1>3, <1>4 DEF UInv


LEMMA GiveUpStep ==
    ASSUME UInv, NEW u \in Updaters, ExeGone(u) \/ Crash(u) \/ CannotWrite(u)
    PROVE  UInv'
<1>1. CASE ExeGone(u) \/ Crash(u)
  <2>1. run[u].pc # "idle" /\ EndRun(u)
        /\ UNCHANGED <<exe, image, temp, backups, now, started, overlap>>
    BY <1>1 DEF ExeGone, Crash, At
  <2> QED BY <2>1, EndFacts, QuietStep DEF UInv
<1>2. CASE CannotWrite(u)
  <2>1. run[u].pc \in {"create", "write"} /\ Failed(u)
        /\ UNCHANGED <<exe, image, temp, backups, now, started, overlap>>
    BY <1>2 DEF CannotWrite
  <2>2. Alone(u) /\ run'[u].pc = "restore" =>
            InPlaceFor(run'[u], exe[Prog(u)], temp[Prog(u)], image[Prog(u)])
    BY <2>1, FailedFacts DEF UInv, InPlace, InPlaceFor, Fixed, Before
  <2> QED BY <2>1, <2>2, FailedFacts, QuietStep DEF UInv, Backing
<1> QED BY <1>1, <1>2

LEMMA DownloadStep ==
    ASSUME UInv, NEW u \in Updaters, Download(u)
    PROVE  UInv'
<1>1. run[u].pc = "download"
      /\ UNCHANGED <<exe, image, temp, backups, now, started, overlap>>
  BY DEF Download, At
<1>2. CASE Failed(u)
  <2>1. Alone(u) /\ run'[u].pc = "restore" =>
            InPlaceFor(run'[u], exe[Prog(u)], temp[Prog(u)], image[Prog(u)])
    BY <1>1, <1>2, FailedFacts DEF UInv, InPlace, InPlaceFor, Fixed, Before
  <2> QED BY <1>1, <1>2, <2>1, FailedFacts, QuietStep DEF UInv, Backing
<1>3. CASE EndRun(u)
  BY <1>1, <1>3, EndFacts, QuietStep DEF UInv
<1>4. ASSUME NEW c \in {run[u].target, Junk}, run' = [run EXCEPT ![u].pc = "create", ![u].got = c]
      PROVE  UInv'
  <2>1. run \in [Updaters -> Run] /\ c \in Versions \cup {Junk} /\ c \in Content
    BY RunFields DEF UInv, UpdaterTypeOK, Content
  <2>2. /\ run'[u].pc = "create" /\ run'[u].got = c
        /\ run'[u].at = run[u].at /\ run'[u].later = run[u].later
    BY <1>4, <2>1 DEF Run
  <2>3. Fixed(run[u], run'[u])
    BY <1>4, <2>1 DEF Run, Fixed
  <2>4. \A w \in Updaters \ {u} : run'[w] = run[w]
    BY <1>4, <2>1
  <2>5. run'[u] = [run[u] EXCEPT !.pc = "create", !.got = c]
    BY <1>4, <2>1
  <2>6. run'[u] = [pc |-> "create", prog |-> run[u].prog, version |-> run[u].version,
                   target |-> run[u].target, forced |-> run[u].forced, image |-> run[u].image,
                   at |-> run[u].at, later |-> run[u].later, got |-> c, fd |-> run[u].fd]
    BY <2>1, <2>5 DEF Run
  <2>7. run'[u] \in Run
    BY <2>1, <2>6, RunFields DEF UInv, Run, Steps
  <2>8. run' = [w \in Updaters |-> run'[w]]
    BY <1>4, <2>1
  <2>9. run' \in [Updaters -> Run]
    BY <2>1, <2>4, <2>7, <2>8, RunType DEF UInv
  <2>10. Alone(u) => InPlaceFor(run'[u], exe[Prog(u)], temp[Prog(u)], image[Prog(u)])
    BY <1>1, <2>1, <2>2, <2>3 DEF UInv, InPlace, InPlaceFor, Fixed, Before
  <2> QED BY <1>1, <2>2, <2>3, <2>4, <2>9, <2>10, QuietStep DEF Backing
<1> QED BY <1>2, <1>3, <1>4 DEF Download

(* Steps of u on its program's files: what the other updates see of them, how *)
(* u goes on, and what it leaves.                                             *)
Elsewhere(u) ==
    \A w \in Updaters \ {u} :
        /\ run'[w].pc = run[w].pc /\ Fixed(run[w], run'[w])
        /\ run'[w].at = run[w].at /\ run'[w].later = run[w].later
        /\ run[w].prog # run[u].prog => run'[w].got = run[w].got /\ run'[w].fd = run[w].fd
Onward(u) ==
    /\ run[u].pc # "idle"
    /\ \/ run'[u].pc = "idle"
       \/ /\ Fixed(run[u], run'[u])
          /\ run'[u].pc \in Backing => run[u].pc \in Backing
          /\ run'[u].pc # "copy"
          /\ run'[u].at = run[u].at /\ run'[u].later = run[u].later
Leaves(u, e, t, i) ==
    /\ e.content \in Versions
    /\ Prog(u) \in Careful => e.exec
    /\ run'[u].pc # "idle" => InPlaceFor(run'[u], e, t, i)

Replaced(u, e, t, i) ==
    /\ e \in File /\ t \in File \cup {NoFile} /\ i \in Nat
    /\ exe' = [exe EXCEPT ![Prog(u)] = e]
    /\ temp' = [temp EXCEPT ![Prog(u)] = t]
    /\ image' = [image EXCEPT ![Prog(u)] = i]
    /\ UNCHANGED <<backups, now, started, overlap>>
    /\ run' \in [Updaters -> Run]

LEMMA FileStep ==
    ASSUME UInv, NEW u \in Updaters, NEW e, NEW t, NEW i, Replaced(u, e, t, i),
           Elsewhere(u), Onward(u),
           Prog(u) \notin overlap => Leaves(u, e, t, i)
    PROVE  UInv'
<1> USE DEF Elsewhere, Onward, Leaves, Replaced
<1>1. Prog(u) \in Programs
  BY RunFields DEF UInv, Prog
<1>2. /\ exe' \in [Programs -> File] /\ temp' \in [Programs -> File \cup {NoFile}]
      /\ image' \in [Programs -> Nat]
      /\ exe'[Prog(u)] = e /\ temp'[Prog(u)] = t /\ image'[Prog(u)] = i
      /\ \A p \in Programs \ {Prog(u)} :
            exe'[p] = exe[p] /\ temp'[p] = temp[p] /\ image'[p] = image[p]
  BY <1>1 DEF UInv, UpdaterTypeOK
<1>3. UpdaterTypeOK'
  BY <1>2 DEF UInv, UpdaterTypeOK
<1>4. Local(u)
  BY <1>2 DEF Local
<1>5. AlwaysRunnable' /\ OnlyOne' /\ InPlace' /\ OfferedStill'
  BY <1>2, <1>4, LocalStep
<1>6. Kept'
  <2>1. "idle" \notin Backing \cup {"copy"} /\ "copy" \notin Backing
    BY DEF Backing
  <2>2. \A w \in Updaters : run'[w].pc \in Backing \cup {"copy"} =>
               /\ run[w].pc \in Backing \cup {"copy"}
               /\ run[w].pc = "copy" => run'[w].pc = "copy"
               /\ Fixed(run[w], run'[w])
               /\ run'[w].at = run[w].at /\ run'[w].later = run[w].later
    BY <2>1
  <2> QED BY <2>2, KeptStep
<1> QED BY <1>3, <1>5, <1>6 DEF UInv


LEMMA EditRun ==
    ASSUME NEW r \in Run
    PROVE  /\ \A l \in Steps : [r EXCEPT !.pc = l] \in Run
           /\ \A f \in {"none", "temp", "exe"} : [r EXCEPT !.fd = f] \in Run
BY DEF Run

LEMMA SetFacts ==
    ASSUME UpdaterTypeOK, NEW u \in Updaters, NEW l \in Steps, NEW f \in {"none", "temp", "exe"},
           run' = [run EXCEPT ![u].pc = l, ![u].fd = f]
    PROVE  /\ run' \in [Updaters -> Run] /\ run'[u].pc = l /\ run'[u].fd = f
           /\ run'[u].at = run[u].at /\ run'[u].later = run[u].later /\ run'[u].got = run[u].got
           /\ Fixed(run[u], run'[u])
           /\ \A w \in Updaters \ {u} : run'[w] = run[w]
<1>1. run \in [Updaters -> Run]
  BY DEF UpdaterTypeOK
<1>2. /\ run'[u].pc = l /\ run'[u].fd = f /\ run'[u].got = run[u].got
      /\ run'[u].at = run[u].at /\ run'[u].later = run[u].later
  BY <1>1 DEF Run
<1>3. Fixed(run[u], run'[u])
  BY <1>1 DEF Run, Fixed
<1>4. \A w \in Updaters \ {u} : run'[w] = run[w]
  BY <1>1
<1>5. run'[u] = [[run[u] EXCEPT !.pc = l] EXCEPT !.fd = f]
  BY <1>1
<1>6. [run[u] EXCEPT !.pc = l] \in Run
  BY <1>1, EditRun
<1>7. run'[u] \in Run
  BY <1>5, <1>6, EditRun
<1>8. run' = [w \in Updaters |-> run'[w]]
  BY <1>1
<1>9. run' \in [Updaters -> Run]
  BY <1>1, <1>4, <1>7, <1>8, RunType
<1> QED BY <1>2, <1>3, <1>4, <1>9

\* what is known of u's files
LEMMA FileFacts ==
    ASSUME UInv, NEW u \in Updaters
    PROVE  /\ Prog(u) \in Programs
           /\ exe[Prog(u)] \in File /\ image[Prog(u)] \in Nat
           /\ temp[Prog(u)] \in File \cup {NoFile}
           /\ exe = [exe EXCEPT ![Prog(u)] = exe[Prog(u)]]
           /\ temp = [temp EXCEPT ![Prog(u)] = temp[Prog(u)]]
           /\ image = [image EXCEPT ![Prog(u)] = image[Prog(u)]]
           /\ Prog(u) \notin overlap =>
                 /\ exe[Prog(u)].content \in Versions
                 /\ Prog(u) \in Careful => exe[Prog(u)].exec
           /\ ~At(u, "idle") /\ Prog(u) \notin overlap =>
                 InPlaceFor(run[u], exe[Prog(u)], temp[Prog(u)], image[Prog(u)])
<1>1. Prog(u) \in Programs
  BY RunFields DEF UInv, Prog
<1>2. /\ exe[Prog(u)] \in File /\ image[Prog(u)] \in Nat
      /\ temp[Prog(u)] \in File \cup {NoFile}
  BY <1>1 DEF UInv, UpdaterTypeOK
<1>3. /\ exe = [exe EXCEPT ![Prog(u)] = exe[Prog(u)]]
      /\ temp = [temp EXCEPT ![Prog(u)] = temp[Prog(u)]]
      /\ image = [image EXCEPT ![Prog(u)] = image[Prog(u)]]
  BY <1>1 DEF UInv, UpdaterTypeOK
<1>4. Prog(u) \notin overlap =>
         /\ exe[Prog(u)].content \in Versions
         /\ Prog(u) \in Careful => exe[Prog(u)].exec
  BY <1>1 DEF UInv, AlwaysRunnable
<1>5. ~At(u, "idle") /\ Prog(u) \notin overlap =>
         InPlaceFor(run[u], exe[Prog(u)], temp[Prog(u)], image[Prog(u)])
  BY DEF UInv, InPlace, Alone
<1> QED BY <1>1, <1>2, <1>3, <1>4, <1>5

LEMMA CreateStep ==
    ASSUME UInv, NEW u \in Updaters, Create(u)
    PROVE  UInv'
<1> DEFINE p == Prog(u)
           b == IF temp[p] = NoFile THEN FALSE ELSE temp[p].exec
           t == [content |-> Torn, exec |-> b]
<1>1. /\ run[u].pc = "create" /\ temp' = [temp EXCEPT ![p] = t]
      /\ run' = [run EXCEPT ![u].pc = "write", ![u].fd = "temp"]
      /\ UNCHANGED <<exe, image, backups, now, started, overlap>>
  BY DEF Create, At
<1>2. b \in BOOLEAN
  <2>1. temp[p] = NoFile \/ temp[p] \in File
    BY FileFacts
  <2>2. temp[p] \in File => temp[p].exec \in BOOLEAN
    BY DEF File
  <2> QED BY <2>1, <2>2, Zenon
<1> HIDE DEF b
<1>3. t \in File /\ t # NoFile
  <2>1. t \in File
    BY <1>2 DEF File, Content
  <2> QED BY <2>1, UpdaterAssumption DEF File, Content
<1> HIDE DEF t
<1>4. /\ run' \in [Updaters -> Run] /\ run'[u].pc = "write" /\ run'[u].fd = "temp"
      /\ run'[u].at = run[u].at /\ run'[u].later = run[u].later /\ run'[u].got = run[u].got
      /\ Fixed(run[u], run'[u])
      /\ \A w \in Updaters \ {u} : run'[w] = run[w]
  BY <1>1, SetFacts DEF UInv, Steps
<1>5. p \notin overlap => InPlaceFor(run'[u], exe[p], t, image[p])
  <2>1. p \notin overlap => InPlaceFor(run[u], exe[p], temp[p], image[p])
    BY <1>1, FileFacts DEF At
  <2> QED BY <1>1, <1>3, <1>4, <2>1 DEF InPlaceFor, Fixed, Before
<1> HIDE DEF p
<1>6. Onward(u)
  BY <1>1, <1>4 DEF Backing, Onward
<1>7. Elsewhere(u)
  BY <1>4 DEF Fixed, Elsewhere
<1>8. Replaced(u, exe[Prog(u)], t, image[Prog(u)])
  BY <1>1, <1>3, <1>4, FileFacts DEF p, Replaced
<1>9. Prog(u) \notin overlap => Leaves(u, exe[Prog(u)], t, image[Prog(u)])
  BY <1>5, FileFacts DEF p, Leaves
<1> QED BY <1>6, <1>7, <1>8, <1>9, FileStep, Zenon

LEMMA WriteStep ==
    ASSUME UInv, NEW u \in Updaters, Write(u)
    PROVE  UInv'
<1> DEFINE p == Prog(u)
           c == run[u].got
           t == IF run[u].fd = "temp" /\ temp[p] # NoFile
                THEN [temp[p] EXCEPT !.content = c] ELSE temp[p]
           e == IF run[u].fd = "exe" THEN [exe[p] EXCEPT !.content = c] ELSE exe[p]
           l == IF p \in Careful THEN "mode" ELSE "verify"
<1>1. /\ run[u].pc = "write" /\ run' = [run EXCEPT ![u].pc = l, ![u].fd = "none"]
      /\ UNCHANGED <<image, backups, now, started, overlap>>
  BY DEF Write, At
<1>2. /\ p \in Programs /\ exe \in [Programs -> File] /\ temp \in [Programs -> File \cup {NoFile}]
      /\ exe[p] \in File /\ temp[p] \in File \cup {NoFile} /\ c \in Content
  BY FileFacts, RunFields DEF UInv, UpdaterTypeOK
<1>3. temp' = [temp EXCEPT ![p] = t]
  <2>1. CASE run[u].fd = "temp" /\ temp[p] # NoFile
    BY <1>2, <2>1 DEF Write
  <2>2. CASE ~(run[u].fd = "temp" /\ temp[p] # NoFile)
    BY <1>2, <2>2 DEF Write
  <2> QED BY <2>1, <2>2
<1>4. exe' = [exe EXCEPT ![p] = e]
  <2>1. CASE run[u].fd = "exe"
    BY <1>2, <2>1 DEF Write
  <2>2. CASE run[u].fd # "exe"
    BY <1>2, <2>2 DEF Write
  <2> QED BY <2>1, <2>2
<1>5. e \in File /\ t \in File \cup {NoFile}
  BY <1>2 DEF File
<1>6. /\ run' \in [Updaters -> Run] /\ run'[u].pc = l /\ run'[u].fd = "none"
      /\ run'[u].at = run[u].at /\ run'[u].later = run[u].later /\ run'[u].got = run[u].got
      /\ Fixed(run[u], run'[u])
      /\ \A w \in Updaters \ {u} : run'[w] = run[w]
  <2>1. l \in Steps
    BY DEF Steps
  <2> QED BY <1>1, <2>1, SetFacts DEF UInv
<1>7. p \notin overlap => e.content \in Versions /\ (p \in Careful => e.exec) /\ InPlaceFor(run'[u], e, t, image[p])
  <2> SUFFICES ASSUME p \notin overlap
               PROVE  e.content \in Versions /\ (p \in Careful => e.exec) /\ InPlaceFor(run'[u], e, t, image[p])
    OBVIOUS
  <2>1. InPlaceFor(run[u], exe[p], temp[p], image[p])
    BY <1>1, FileFacts DEF At
  <2>2. run[u].fd = "temp" /\ temp[p] # NoFile /\ c \in {run[u].target, Junk} /\ run[u].prog = p
    BY <1>1, <2>1 DEF InPlaceFor, Prog
  <2>3. e = exe[p] /\ t = [temp[p] EXCEPT !.content = c] /\ temp[p] \in File
    BY <1>2, <2>2
  <2>4. t \in File /\ t.content = c
    BY <1>2, <2>3 DEF File
  <2>5. t # NoFile
    BY <2>4, UpdaterAssumption DEF File, Content
  <2>6. e.content \in Versions /\ (p \in Careful => e.exec)
    BY <2>3, FileFacts
  <2> HIDE DEF t, e
  <2>7. InPlaceFor(run'[u], e, t, image[p])
    BY <1>1, <1>6, <2>1, <2>2, <2>3, <2>4, <2>5 DEF InPlaceFor, Fixed, Before
  <2> QED BY <2>6, <2>7
<1> HIDE DEF p, e, t, l
<1>8. Onward(u)
  BY <1>1, <1>6 DEF Backing, Onward, l
<1>9. Elsewhere(u)
  BY <1>6 DEF Fixed, Elsewhere
<1>10. Replaced(u, e, t, image[Prog(u)])
  BY <1>1, <1>3, <1>4, <1>5, <1>6, FileFacts DEF p, Replaced
<1>11. Prog(u) \notin overlap => Leaves(u, e, t, image[Prog(u)])
  BY <1>7 DEF p, Leaves
<1> QED BY <1>8, <1>9, <1>10, <1>11, FileStep, Zenon

LEMMA ModeStep ==
    ASSUME UInv, NEW u \in Updaters, ModeEarly(u)
    PROVE  UInv'
<1> DEFINE p == Prog(u)
           t == [temp[p] EXCEPT !.exec = TRUE]
<1>1. run[u].pc = "mode" /\ UNCHANGED <<exe, image, backups, now, started, overlap>>
  BY DEF ModeEarly, At
<1>2. CASE temp[p] = NoFile
  <2>1. EndRun(u) /\ UNCHANGED temp
    BY <1>2 DEF ModeEarly
  <2> QED BY <1>1, <2>1, EndFacts, QuietStep DEF UInv
<1>3. CASE temp[p] # NoFile
  <2>1. Go(u, "verify") /\ temp' = [temp EXCEPT ![p] = t]
    BY <1>3, FileFacts DEF ModeEarly, UInv, UpdaterTypeOK
  <2>2. temp[p] \in File
    BY <1>3, FileFacts
  <2>3. t \in File /\ t.content = temp[p].content /\ t.exec = TRUE
    BY <2>2 DEF File
  <2>4. t # NoFile
    BY <2>3, UpdaterAssumption DEF File, Content
  <2> HIDE DEF t
  <2>5. /\ run' \in [Updaters -> Run] /\ run'[u].pc = "verify"
        /\ run'[u].at = run[u].at /\ run'[u].later = run[u].later /\ run'[u].got = run[u].got
        /\ Fixed(run[u], run'[u])
        /\ \A w \in Updaters \ {u} : run'[w] = run[w]
    BY <2>1, GoFacts DEF UInv, Steps
  <2>6. p \notin overlap => InPlaceFor(run'[u], exe[p], t, image[p])
    <3>1. p \notin overlap => InPlaceFor(run[u], exe[p], temp[p], image[p])
      BY <1>1, FileFacts DEF At
    <3> QED BY <1>1, <2>3, <2>4, <2>5, <3>1 DEF InPlaceFor, Fixed, Before
  <2> HIDE DEF p
  <2>7. Onward(u)
    BY <1>1, <2>5 DEF Backing, Onward
  <2>8. Elsewhere(u)
    BY <2>5 DEF Fixed, Elsewhere
  <2>9. Replaced(u, exe[Prog(u)], t, image[Prog(u)])
    BY <1>1, <2>1, <2>3, <2>5, FileFacts DEF p, Replaced
  <2>10. Prog(u) \notin overlap => Leaves(u, exe[Prog(u)], t, image[Prog(u)])
    BY <2>6, FileFacts DEF p, Leaves
  <2> QED BY <2>7, <2>8, <2>9, <2>10, FileStep, Zenon
<1> QED BY <1>2, <1>3

LEMMA ChmodStep ==
    ASSUME UInv, NEW u \in Updaters, Chmod(u)
    PROVE  UInv'
<1> DEFINE p == Prog(u)
           e == [exe[p] EXCEPT !.exec = TRUE]
<1>1. /\ run[u].pc = "chmod" /\ exe' = [exe EXCEPT ![p] = e] /\ Go(u, "cleanup")
      /\ UNCHANGED <<image, temp, backups, now, started, overlap>>
  BY FileFacts DEF Chmod, At, UInv, UpdaterTypeOK
<1>2. e \in File /\ e.content = exe[p].content /\ e.exec = TRUE
  BY FileFacts DEF File
<1> HIDE DEF e
<1>3. /\ run' \in [Updaters -> Run] /\ run'[u].pc = "cleanup"
      /\ run'[u].at = run[u].at /\ run'[u].later = run[u].later
      /\ Fixed(run[u], run'[u])
      /\ \A w \in Updaters \ {u} : run'[w] = run[w]
  BY <1>1, GoFacts DEF UInv, Steps
<1>4. InPlaceFor(run'[u], e, temp[p], image[p])
  BY <1>3 DEF InPlaceFor, Before
<1>5. p \notin overlap => e.content \in Versions
  BY <1>2, FileFacts
<1> HIDE DEF p
<1>6. Onward(u)
  BY <1>1, <1>3 DEF Backing, Onward
<1>7. Elsewhere(u)
  BY <1>3 DEF Fixed, Elsewhere
<1>8. Replaced(u, e, temp[Prog(u)], image[Prog(u)])
  BY <1>1, <1>2, <1>3, FileFacts DEF p, Replaced
<1>9. Prog(u) \notin overlap => Leaves(u, e, temp[Prog(u)], image[Prog(u)])
  BY <1>2, <1>4, <1>5 DEF p, Leaves
<1> QED BY <1>6, <1>7, <1>8, <1>9, FileStep, Zenon

\* where a file that is open goes, the updates that hold it go on as before
LEMMA MovedFacts ==
    ASSUME UpdaterTypeOK, NEW p, NEW where \in {"none", "exe"}
    PROVE  /\ Moved(p, where) \in [Updaters -> Run]
           /\ \A w \in Updaters :
                 /\ Moved(p, where)[w].pc = run[w].pc
                 /\ Fixed(run[w], Moved(p, where)[w])
                 /\ Moved(p, where)[w].at = run[w].at
                 /\ Moved(p, where)[w].later = run[w].later
                 /\ run[w].prog # p => Moved(p, where)[w] = run[w]
<1> DEFINE m == Moved(p, where)
<1>1. \A w \in Updaters : run[w] \in Run
  BY DEF UpdaterTypeOK
<1>2. ASSUME NEW w \in Updaters
      PROVE  \E f \in {"none", "temp", "exe"} :
                m[w] = run[w] \/ m[w] = [run[w] EXCEPT !.fd = f]
  <2>1. m[w] = IF ~At(w, "write") \/ Prog(w) # p THEN run[w]
               ELSE [run[w] EXCEPT !.fd = IF run[w].fd = "temp" THEN where ELSE "none"]
    BY <1>1 DEF Moved, Run
  <2>2. CASE ~At(w, "write") \/ Prog(w) # p
    BY <2>1, <2>2
  <2>3. CASE ~(~At(w, "write") \/ Prog(w) # p)
    <3>1. m[w] = [run[w] EXCEPT !.fd = IF run[w].fd = "temp" THEN where ELSE "none"]
      BY <2>1, <2>3
    <3>2. (IF run[w].fd = "temp" THEN where ELSE "none") \in {"none", "temp", "exe"}
      OBVIOUS
    <3> QED BY <3>1, <3>2
  <2> QED BY <2>2, <2>3
<1>3. \A w \in Updaters : run[w].prog # p => m[w] = run[w]
  BY DEF Moved, Prog
<1>4. m = [w \in Updaters |-> m[w]]
  BY DEF Moved
<1> HIDE DEF m
<1>5. ASSUME NEW w \in Updaters
      PROVE  /\ m[w] \in Run /\ m[w].pc = run[w].pc /\ Fixed(run[w], m[w])
             /\ m[w].at = run[w].at /\ m[w].later = run[w].later
  <2>1. PICK f \in {"none", "temp", "exe"} : m[w] = run[w] \/ m[w] = [run[w] EXCEPT !.fd = f]
    BY <1>2
  <2>2. m[w] \in Run
    <3>1. [run[w] EXCEPT !.fd = f] \in Run
      BY <1>1, EditRun, Zenon
    <3> QED BY <1>1, <2>1, <3>1
  <2>3. /\ m[w].pc = run[w].pc /\ Fixed(run[w], m[w])
        /\ m[w].at = run[w].at /\ m[w].later = run[w].later
    BY <1>1, <2>1 DEF Run, Fixed
  <2> QED BY <2>2, <2>3
<1>6. m \in [Updaters -> Run]
  BY <1>4, <1>5
<1> QED BY <1>3, <1>5, <1>6 DEF m

LEMMA VerifyStep ==
    ASSUME UInv, NEW u \in Updaters, Verify(u)
    PROVE  UInv'
<1> DEFINE p == Prog(u)
           m == Moved(p, "none")
<1>1. run[u].pc = "verify" /\ UNCHANGED <<exe, image, backups, now, started, overlap>>
  BY DEF Verify, At
<1>2. CASE Verified(p)
  <2>1. Go(u, "rename") /\ UNCHANGED temp
    BY <1>2 DEF Verify
  <2>2. temp[p] # NoFile /\ temp[p].content # Junk
    BY <1>2 DEF Verified
  <2>3. Alone(u) => InPlaceFor(run'[u], exe[p], temp[p], image[p])
    <3>1. Alone(u) => InPlaceFor(run[u], exe[p], temp[p], image[p])
      BY <1>1, FileFacts DEF Alone, At
    <3> QED BY <1>1, <2>1, <2>2, <3>1, GoFacts DEF InPlaceFor, Fixed, Before, UInv, Steps
  <2> QED BY <1>1, <2>1, <2>3, GoFacts, QuietStep DEF UInv, Backing, Steps
<1>3. CASE ~Verified(p)
  <2>1. /\ temp' = [temp EXCEPT ![p] = NoFile]
        /\ run' = [m EXCEPT ![u] = IF p \in Careful THEN [run[u] EXCEPT !.pc = "restore"] ELSE Idle]
    BY <1>3 DEF Verify
  <2>2. /\ m \in [Updaters -> Run] /\ run[u] \in Run
        /\ \A w \in Updaters :
              /\ m[w].pc = run[w].pc /\ Fixed(run[w], m[w])
              /\ m[w].at = run[w].at /\ m[w].later = run[w].later
              /\ run[w].prog # p => m[w] = run[w]
    BY MovedFacts, RunFields DEF UInv
  <2> HIDE DEF m
  <2>3. \A w \in Updaters \ {u} : run'[w] = m[w]
    BY <2>1, <2>2
  <2>4. [run[u] EXCEPT !.pc = "restore"] \in Run
    BY <2>2, EditRun DEF Steps
  <2>5. run'[u] = IF p \in Careful THEN [run[u] EXCEPT !.pc = "restore"] ELSE Idle
    BY <2>1, <2>2
  <2>6. /\ run'[u] \in Run
        /\ \/ run'[u].pc = "idle"
           \/ /\ run'[u].pc = "restore" /\ Fixed(run[u], run'[u])
              /\ run'[u].at = run[u].at /\ run'[u].later = run[u].later
    <3>1. CASE p \in Careful
      <4>1. run'[u] = [run[u] EXCEPT !.pc = "restore"]
        BY <2>5, <3>1
      <4> QED BY <2>2, <2>4, <4>1 DEF Run, Fixed
    <3>2. CASE p \notin Careful
      BY <2>5, <3>2, IdleIsRun
    <3> QED BY <3>1, <3>2
  <2>7. run' \in [Updaters -> Run]
    <3>1. run' = [w \in Updaters |-> run'[w]]
      BY <2>1, <2>2
    <3>2. \A w \in Updaters \ {u} : run'[w] \in Run
      BY <2>2, <2>3
    <3> QED BY <2>6, <3>1, <3>2, RunType DEF UInv
  <2>8. p \notin overlap /\ run'[u].pc # "idle" => InPlaceFor(run'[u], exe[p], NoFile, image[p])
    <3>1. p \notin overlap => InPlaceFor(run[u], exe[p], temp[p], image[p])
      BY <1>1, FileFacts DEF At
    <3> QED BY <1>1, <2>6, <3>1 DEF InPlaceFor, Fixed, Before
  <2> HIDE DEF p
  <2>9. Onward(u)
    BY <1>1, <2>6 DEF Backing, Onward
  <2>10. Elsewhere(u)
    BY <2>2, <2>3 DEF Fixed, Elsewhere, Prog, p
  <2>11. Replaced(u, exe[Prog(u)], NoFile, image[Prog(u)])
    BY <1>1, <2>1, <2>7, FileFacts DEF p, Replaced
  <2>12. Prog(u) \notin overlap => Leaves(u, exe[Prog(u)], NoFile, image[Prog(u)])
    BY <2>8, FileFacts DEF p, Leaves
  <2> QED BY <2>9, <2>10, <2>11, <2>12, FileStep, Zenon
<1> QED BY <1>2, <1>3

LEMMA RenameStep ==
    ASSUME UInv, NEW u \in Updaters, Rename(u)
    PROVE  UInv'
<1> DEFINE p == Prog(u)
           m == Moved(p, "exe")
           l == IF p \in Careful THEN "cleanup" ELSE "chmod"
<1>1. run[u].pc = "rename" /\ UNCHANGED <<backups, now, started, overlap>>
  BY DEF Rename, At
<1>2. CASE temp[p] = NoFile
  <2>1. EndRun(u) /\ UNCHANGED <<exe, image, temp>>
    BY <1>2 DEF Rename
  <2> QED BY <1>1, <2>1, EndFacts, QuietStep DEF UInv
<1>3. CASE temp[p] # NoFile
  <2>1. /\ exe' = [exe EXCEPT ![p] = temp[p]]
        /\ image' = [image EXCEPT ![p] = image[p] + 1]
        /\ temp' = [temp EXCEPT ![p] = NoFile]
        /\ run' = [m EXCEPT ![u].pc = l]
    BY <1>3, FileFacts DEF Rename, UInv, UpdaterTypeOK
  <2>2. /\ m \in [Updaters -> Run] /\ run[u] \in Run
        /\ \A w \in Updaters :
              /\ m[w].pc = run[w].pc /\ Fixed(run[w], m[w])
              /\ m[w].at = run[w].at /\ m[w].later = run[w].later
              /\ run[w].prog # p => m[w] = run[w]
    BY MovedFacts, RunFields DEF UInv
  <2> HIDE DEF m
  <2>3. \A w \in Updaters \ {u} : run'[w] = m[w]
    BY <2>1, <2>2
  <2>4. run'[u] = [m[u] EXCEPT !.pc = l]
    BY <2>1, <2>2
  <2>5. l \in {"cleanup", "chmod"} /\ l \in Steps
    BY DEF Steps
  <2>6. run'[u] \in Run
    <3>1. m[u] \in Run
      BY <2>2
    <3> HIDE DEF l
    <3>2. [m[u] EXCEPT !.pc = l] \in Run
      BY <2>5, <3>1, EditRun, Zenon
    <3> QED BY <2>4, <3>2
  <2>7. /\ run'[u].pc = l /\ Fixed(run[u], run'[u])
        /\ run'[u].at = run[u].at /\ run'[u].later = run[u].later
    BY <2>2, <2>4 DEF Run, Fixed
  <2>8. run' \in [Updaters -> Run]
    <3>1. run' = [w \in Updaters |-> run'[w]]
      BY <2>1, <2>2
    <3>2. \A w \in Updaters \ {u} : run'[w] \in Run
      BY <2>2, <2>3
    <3> QED BY <2>6, <3>1, <3>2, RunType DEF UInv
  <2>9. temp[p] \in File /\ image[p] + 1 \in Nat
    BY <1>3, FileFacts
  <2>10. p \notin overlap => temp[p].content \in Versions /\ (p \in Careful => temp[p].exec)
    <3>1. p \notin overlap => InPlaceFor(run[u], exe[p], temp[p], image[p])
      BY <1>1, FileFacts DEF At
    <3> QED BY <1>1, <3>1, RunFields DEF InPlaceFor, Prog, UInv
  <2>11. InPlaceFor(run'[u], temp[p], NoFile, image[p] + 1)
    BY <2>5, <2>7 DEF InPlaceFor, Before
  <2> HIDE DEF p, l
  <2>12. Onward(u)
    BY <1>1, <2>5, <2>7 DEF Backing, Onward
  <2>13. Elsewhere(u)
    BY <2>2, <2>3 DEF Fixed, Elsewhere, Prog, p
  <2>14. Replaced(u, temp[Prog(u)], NoFile, image[Prog(u)] + 1)
    BY <1>1, <2>1, <2>8, <2>9 DEF p, Replaced
  <2>15. Prog(u) \notin overlap => Leaves(u, temp[Prog(u)], NoFile, image[Prog(u)] + 1)
    BY <2>10, <2>11 DEF p, Leaves
  <2> QED BY <2>12, <2>13, <2>14, <2>15, FileStep, Zenon
<1> QED BY <1>2, <1>3

(* An update that is alone runs from the file it would overwrite, and so      *)
(* restores nothing; one that is not may.                                     *)
LEMMA RestoreBeginStep ==
    ASSUME UInv, NEW u \in Updaters, RestoreBegin(u)
    PROVE  UInv'
<1> DEFINE p == Prog(u)
           e == [exe[p] EXCEPT !.content = Torn]
           running == \E w \in Busy(p) : run[w].image = image[p]
<1>1. run[u].pc = "restore" /\ UNCHANGED <<image, temp, backups, now, started, overlap>>
  BY DEF RestoreBegin, At
<1>2. CASE EndRun(u) /\ UNCHANGED exe
  BY <1>1, <1>2, EndFacts, QuietStep DEF UInv
<1>3. CASE ~running /\ Go(u, "restoring") /\ exe' = [exe EXCEPT ![p].content = Torn]
  <2>1. p \in overlap
    <3>1. u \in Busy(p)
      BY <1>1 DEF Busy, At
    <3>2. p \notin overlap => InPlaceFor(run[u], exe[p], temp[p], image[p])
      BY <1>1, FileFacts DEF At
    <3>3. p \notin overlap => run[u].image = image[p]
      BY <1>1, <3>2 DEF InPlaceFor, Before
    <3> QED BY <1>3, <3>1, <3>3
  <2>2. e \in File
    BY FileFacts DEF File, Content
  <2>3. exe' = [exe EXCEPT ![p] = e]
    BY <1>3, FileFacts DEF UInv, UpdaterTypeOK
  <2> HIDE DEF e
  <2>4. /\ run' \in [Updaters -> Run] /\ run'[u].pc = "restoring"
        /\ run'[u].at = run[u].at /\ run'[u].later = run[u].later
        /\ Fixed(run[u], run'[u])
        /\ \A w \in Updaters \ {u} : run'[w] = run[w]
    BY <1>3, GoFacts DEF UInv, Steps
  <2>5. Onward(u)
    BY <1>1, <2>4 DEF Backing, Onward
  <2>6. Elsewhere(u)
    BY <2>4 DEF Fixed, Elsewhere
  <2>7. Replaced(u, e, temp[Prog(u)], image[Prog(u)])
    BY <1>1, <2>2, <2>3, <2>4, FileFacts DEF Replaced
  <2>8. Prog(u) \notin overlap => Leaves(u, e, temp[Prog(u)], image[Prog(u)])
    BY <2>1
  <2> QED BY <2>5, <2>6, <2>7, <2>8, FileStep, Zenon
<1> QED BY <1>2, <1>3 DEF RestoreBegin

LEMMA RestoreEndStep ==
    ASSUME UInv, NEW u \in Updaters, RestoreEnd(u)
    PROVE  UInv'
<1> DEFINE p == Prog(u)
           from == BackupAt(u, run[u].at)
           c == IF from = {} THEN Torn ELSE backups[CHOOSE i \in from : TRUE].content
           e == [content |-> c, exec |-> TRUE]
<1>1. /\ run[u].pc = "restoring" /\ exe' = [exe EXCEPT ![p] = e] /\ EndRun(u)
      /\ UNCHANGED <<image, temp, backups, now, started, overlap>>
  BY DEF RestoreEnd, At
<1>2. p \in overlap
  <2>1. p \notin overlap => InPlaceFor(run[u], exe[p], temp[p], image[p])
    BY <1>1, FileFacts DEF At
  <2> QED BY <1>1, <2>1 DEF InPlaceFor, Before
<1>3. c \in Content
  <2>1. CASE from = {}
    BY <2>1 DEF Content
  <2>2. CASE from # {}
    <3>1. (CHOOSE i \in from : TRUE) \in DOMAIN backups
      BY <2>2 DEF BackupAt
    <3>2. \A i \in DOMAIN backups : backups[i].content \in Content
      <4>1. backups \in Seq(Backup)
        BY DEF UInv, UpdaterTypeOK
      <4>2. \A i \in DOMAIN backups : backups[i] \in Backup
        BY <4>1, ElementOfSeq, LenProperties
      <4> QED BY <4>2 DEF Backup
    <3>3. backups[CHOOSE i \in from : TRUE].content \in Content
      BY <3>1, <3>2
    <3>4. c = backups[CHOOSE i \in from : TRUE].content
      BY <2>2
    <3> QED BY <3>3, <3>4
  <2> QED BY <2>1, <2>2
<1> HIDE DEF c
<1>4. e \in File
  BY <1>3 DEF File
<1> HIDE DEF e
<1>5. /\ run' \in [Updaters -> Run] /\ run'[u].pc = "idle"
      /\ \A w \in Updaters \ {u} : run'[w] = run[w]
  BY <1>1, EndFacts DEF UInv
<1>6. Onward(u)
  BY <1>1, <1>5 DEF Onward
<1>7. Elsewhere(u)
  BY <1>5 DEF Fixed, Elsewhere
<1>8. Replaced(u, e, temp[Prog(u)], image[Prog(u)])
  BY <1>1, <1>4, <1>5, FileFacts DEF Replaced
<1>9. Prog(u) \notin overlap => Leaves(u, e, temp[Prog(u)], image[Prog(u)])
  BY <1>2
<1> QED BY <1>6, <1>7, <1>8, <1>9, FileStep, Zenon

-----------------------------------------------------------------------------
(* The backups.                                                            *)

NamedAs(b, p, at) == b.prog = p /\ b.at = at

\* no two backups have the same name
Apart(s) == \A i, j \in DOMAIN s : s[i].prog = s[j].prog /\ s[i].at = s[j].at => i = j

LEMMA OthersFacts ==
    ASSUME UpdaterTypeOK, NEW u \in Updaters, NEW at
    PROVE  /\ Others(u, at) \in Seq(Backup)
           /\ Apart(Others(u, at))
           /\ \A i \in 1..Len(Others(u, at)) : ~NamedAs(Others(u, at)[i], Prog(u), at)
           /\ \A j \in 1..Len(backups) : ~NamedAs(backups[j], Prog(u), at) =>
                 \E i \in 1..Len(Others(u, at)) :
                    /\ Others(u, at)[i] = backups[j]
                    /\ Len(Others(u, at)) - i <= Len(backups) - j
                    /\ (\E k \in BackupAt(u, at) : j < k) =>
                          Len(Others(u, at)) - i + 1 <= Len(backups) - j
<1> DEFINE n == Len(backups)
<1>1. /\ backups \in Seq(Backup) /\ Apart(backups) /\ n \in Nat /\ DOMAIN backups = 1..n
  BY LenProperties DEF UpdaterTypeOK, Apart
<1>2. CASE BackupAt(u, at) = {}
  <2>1. Others(u, at) = backups
    BY <1>2 DEF Others
  <2>2. \A i \in 1..n : ~NamedAs(backups[i], Prog(u), at)
    BY <1>1, <1>2 DEF BackupAt, NamedAs
  <2>3. \A j \in 1..n : ~\E k \in BackupAt(u, at) : j < k
    BY <1>2
  <2>4. \A j \in 1..n : n - j <= n - j
    BY <1>1
  <2> QED BY <1>1, <2>1, <2>2, <2>3, <2>4
<1>3. CASE BackupAt(u, at) # {}
  <2> DEFINE k == CHOOSE i \in BackupAt(u, at) : TRUE
             q == RemoveAt(backups, k)
  <2>1. k \in BackupAt(u, at)
    BY <1>3
  <2>2. k \in 1..n /\ NamedAs(backups[k], Prog(u), at)
    BY <1>1, <2>1 DEF BackupAt, NamedAs
  <2>3. Others(u, at) = q
    BY <1>3 DEF Others
  <2> HIDE DEF k
  <2>4. /\ q \in Seq(Backup) /\ Len(q) = n - 1 /\ DOMAIN q = 1..(n - 1)
        /\ \A i \in 1..(k - 1) : q[i] = backups[i]
        /\ \A i \in k..(n - 1) : q[i] = backups[i + 1]
    BY <1>1, <2>2, RemoveAtProperties, LenProperties
  <2> HIDE DEF q
  <2>5. \A i \in 1..(n - 1) : \E j \in 1..n :
            j # k /\ q[i] = backups[j] /\ j = IF i < k THEN i ELSE i + 1
    <3> TAKE i \in 1..(n - 1)
    <3>1. CASE i < k
      BY <1>1, <2>2, <2>4, <3>1
    <3>2. CASE ~(i < k)
      <4>1. i + 1 \in 1..n /\ i + 1 # k /\ i \in k..(n - 1)
        BY <1>1, <2>2, <3>2
      <4> QED BY <2>4, <3>2, <4>1
    <3> QED BY <3>1, <3>2
  <2>6. \A i \in 1..Len(q) : ~NamedAs(q[i], Prog(u), at)
    <3> SUFFICES ASSUME NEW i \in 1..(n - 1), NamedAs(q[i], Prog(u), at)
                 PROVE  FALSE
      BY <1>1, <2>4
    <3>1. PICK j \in 1..n : j # k /\ q[i] = backups[j]
      BY <2>5
    <3> QED BY <1>1, <2>2, <3>1 DEF Apart, NamedAs
  <2>7. Apart(q)
    <3> SUFFICES ASSUME NEW i \in 1..(n - 1), NEW l \in 1..(n - 1),
                        q[i].prog = q[l].prog, q[i].at = q[l].at
                 PROVE  i = l
      BY <2>4 DEF Apart
    <3>1. PICK j \in 1..n : q[i] = backups[j] /\ j = IF i < k THEN i ELSE i + 1
      BY <2>5
    <3>2. PICK m \in 1..n : q[l] = backups[m] /\ m = IF l < k THEN l ELSE l + 1
      BY <2>5
    <3>3. j = m
      BY <1>1, <3>1, <3>2 DEF Apart
    <3> QED BY <1>1, <2>2, <3>1, <3>2, <3>3
  <2>8. ASSUME NEW j \in 1..n, ~NamedAs(backups[j], Prog(u), at)
        PROVE  \E i \in 1..Len(q) :
                  /\ q[i] = backups[j] /\ Len(q) - i <= n - j
                  /\ (\E l \in BackupAt(u, at) : j < l) => Len(q) - i + 1 <= n - j
    <3>1. j # k
      BY <2>2, <2>8
    <3>2. CASE j < k
      <4>1. /\ j \in 1..Len(q) /\ j \in 1..(k - 1)
            /\ Len(q) - j <= n - j /\ Len(q) - j + 1 <= n - j
        BY <1>1, <2>2, <2>4, <3>2
      <4> QED BY <2>4, <4>1
    <3>3. CASE j > k
      <4>1. /\ j - 1 \in 1..Len(q) /\ j - 1 \in k..(n - 1) /\ (j - 1) + 1 = j
            /\ Len(q) - (j - 1) <= n - j
        BY <1>1, <2>2, <2>4, <3>3
      <4>2. q[j - 1] = backups[j]
        BY <2>4, <4>1
      <4>3. ~\E l \in BackupAt(u, at) : j < l
        <5>1. \A l \in BackupAt(u, at) : l \in 1..n /\ NamedAs(backups[l], Prog(u), at)
          BY <1>1 DEF BackupAt, NamedAs
        <5>2. \A l \in BackupAt(u, at) : l = k
          BY <1>1, <2>2, <5>1 DEF Apart, NamedAs
        <5> QED BY <1>1, <2>2, <3>3, <5>2
      <4> QED BY <4>1, <4>2, <4>3
    <3> QED BY <1>1, <2>2, <3>1, <3>2, <3>3
  <2> QED BY <2>3, <2>4, <2>6, <2>7, <2>8
<1> QED BY <1>2, <1>3

(* u's backup is written, and is then the newest of all. *)
LEMMA WriteBackupStep ==
    ASSUME UInv, NEW u \in Updaters, run[u].pc \in {"backup", "copy"},
           NEW at \in Nat, NEW c \in Content, NEW pc \in {"copy", "download"}, NEW late \in {0, Keep},
           WriteBackup(u, at, c, pc, late),
           UNCHANGED <<exe, image, temp, now, started, overlap>>,
           Alone(u) /\ pc = "download" => c = exe[Prog(u)].content
    PROVE  UInv'
<1> DEFINE p == Prog(u)
           q == Others(u, at)
           b == [prog |-> p, at |-> at, content |-> c]
           l(w) == IF Passed(w, u, at) /\ run[w].later < Keep THEN run[w].later + 1
                   ELSE run[w].later
<1>1. /\ backups' = Append(q, b)
      /\ run' = [w \in Updaters |->
                    IF w = u THEN [run[u] EXCEPT !.pc = pc, !.at = at, !.later = late]
                    ELSE IF Passed(w, u, at) /\ run[w].later < Keep
                         THEN [run[w] EXCEPT !.later = run[w].later + 1] ELSE run[w]]
  <2>1. \A w \in Updaters : [run[w] EXCEPT !.later = @ + 1] = [run[w] EXCEPT !.later = run[w].later + 1]
    BY RunFields DEF UInv, Run
  <2> QED BY <2>1 DEF WriteBackup
<1>2. /\ \A w \in Updaters : run[w] \in Run /\ run[w].later \in 0..Keep
      /\ p \in Programs /\ Keep \in Nat \ {0}
  BY RunFields, UpdaterAssumption DEF UInv, Prog
<1>3. ASSUME NEW w \in Updaters \ {u}
      PROVE  /\ run'[w] \in Run /\ Fixed(run[w], run'[w]) /\ run'[w].pc = run[w].pc
             /\ run'[w].got = run[w].got /\ run'[w].fd = run[w].fd /\ run'[w].at = run[w].at
             /\ run'[w].later = l(w)
  <2>1. CASE Passed(w, u, at) /\ run[w].later < Keep
    <3>1. run'[w] = [run[w] EXCEPT !.later = run[w].later + 1]
      BY <1>1, <2>1
    <3>2. run[w].later + 1 \in 0..Keep
      BY <1>2, <2>1
    <3>3. run'[w] \in Run /\ run'[w].later = run[w].later + 1
      BY <1>2, <3>1, <3>2 DEF Run
    <3>4. /\ Fixed(run[w], run'[w]) /\ run'[w].pc = run[w].pc
          /\ run'[w].got = run[w].got /\ run'[w].fd = run[w].fd /\ run'[w].at = run[w].at
      BY <1>2, <3>1 DEF Run, Fixed
    <3> QED BY <2>1, <3>3, <3>4
  <2>2. CASE ~(Passed(w, u, at) /\ run[w].later < Keep)
    <3>1. run'[w] = run[w]
      BY <1>1, <2>2
    <3> QED BY <1>2, <2>2, <3>1 DEF Fixed
  <2> QED BY <2>1, <2>2
<1>4. run'[u] = [run[u] EXCEPT !.pc = pc, !.at = at, !.later = late]
  BY <1>1
<1>5. run'[u].pc = pc /\ run'[u].at = at /\ run'[u].later = late /\ Fixed(run[u], run'[u])
  BY <1>2, <1>4 DEF Run, Fixed
<1>6. run'[u] \in Run
  <2>1. pc \in Steps /\ late \in 0..Keep
    BY <1>2 DEF Steps
  <2>2. [run[u] EXCEPT !.pc = pc] \in Run
    BY <1>2, <2>1, EditRun
  <2>3. [[run[u] EXCEPT !.pc = pc] EXCEPT !.at = at] \in Run
    BY <2>2 DEF Run
  <2>4. run'[u] = [[[run[u] EXCEPT !.pc = pc] EXCEPT !.at = at] EXCEPT !.later = late]
    BY <1>4
  <2> QED BY <2>1, <2>3, <2>4 DEF Run
<1>7. run' \in [Updaters -> Run]
  <2>1. run' = [w \in Updaters |-> run'[w]]
    BY <1>1
  <2> QED BY <1>3, <1>6, <2>1, RunType DEF UInv
<1>8. /\ q \in Seq(Backup) /\ Apart(q) /\ Len(q) \in Nat /\ DOMAIN q = 1..Len(q)
      /\ \A i \in 1..Len(q) : ~NamedAs(q[i], p, at)
      /\ \A j \in 1..Len(backups) : ~NamedAs(backups[j], p, at) =>
            \E i \in 1..Len(q) :
                /\ q[i] = backups[j] /\ Len(q) - i <= Len(backups) - j
                /\ (\E k \in BackupAt(u, at) : j < k) => Len(q) - i + 1 <= Len(backups) - j
      /\ DOMAIN backups = 1..Len(backups) /\ Len(backups) \in Nat
  BY OthersFacts, LenProperties DEF UInv, UpdaterTypeOK
<1>9. b \in Backup /\ b.prog = p /\ b.at = at /\ b.content = c
  BY <1>2 DEF Backup
<1> HIDE DEF q, b
<1>10. /\ backups' \in Seq(Backup) /\ Len(backups') = Len(q) + 1
       /\ DOMAIN backups' = 1..(Len(q) + 1)
       /\ \A i \in 1..Len(q) : backups'[i] = q[i]
       /\ backups'[Len(q) + 1] = b
  BY <1>1, <1>8, <1>9, AppendProperties, LenProperties
<1>11. Apart(backups')
  <2> SUFFICES ASSUME NEW i \in 1..(Len(q) + 1), NEW j \in 1..(Len(q) + 1), i # j,
                      backups'[i].prog = backups'[j].prog, backups'[i].at = backups'[j].at
               PROVE  FALSE
    BY <1>10 DEF Apart
  <2>1. \A k \in 1..(Len(q) + 1) : k \in 1..Len(q) \/ k = Len(q) + 1
    BY <1>8
  <2>2. CASE i \in 1..Len(q) /\ j \in 1..Len(q)
    <3>1. q[i].prog = q[j].prog /\ q[i].at = q[j].at
      BY <1>10, <2>2
    <3>2. Apart(q) /\ DOMAIN q = 1..Len(q)
      BY <1>8
    <3> QED BY <2>2, <3>1, <3>2 DEF Apart
  <2>3. CASE i \in 1..Len(q) /\ j = Len(q) + 1
    BY <1>8, <1>9, <1>10, <2>3 DEF NamedAs
  <2>4. CASE j \in 1..Len(q) /\ i = Len(q) + 1
    BY <1>8, <1>9, <1>10, <2>4 DEF NamedAs
  <2> QED BY <2>1, <2>2, <2>3, <2>4
<1>12. UpdaterTypeOK'
  BY <1>7, <1>10, <1>11 DEF UInv, UpdaterTypeOK, Apart
<1>13. Local(u)
  BY <1>3 DEF Local
<1>14. p \notin overlap => InPlaceFor(run[u], exe[p], temp[p], image[p])
  BY FileFacts DEF At
<1>15. AlwaysRunnable' /\ OnlyOne' /\ InPlace' /\ OfferedStill'
  <2>1. p \notin overlap => InPlaceFor(run'[u], exe[p], temp[p], image[p])
    BY <1>5, <1>14 DEF InPlaceFor, Fixed, Before
  <2>2. p \notin overlap =>
           /\ exe'[p].content \in Versions
           /\ p \in Careful => exe'[p].exec
           /\ run'[u].pc # "idle" => InPlaceFor(run'[u], exe'[p], temp'[p], image'[p])
    BY <2>1, FileFacts
  <2> QED BY <1>5, <1>13, <2>2, LocalStep
<1>16. Kept'
  <2> SUFFICES ASSUME NEW w \in Updaters, Alone(w)', run'[w].pc \in Backing \cup {"copy"},
                      run'[w].later < Keep
               PROVE  \E i \in DOMAIN backups' :
                         /\ backups'[i].prog = run'[w].prog /\ backups'[i].at = run'[w].at
                         /\ Len(backups') - i <= run'[w].later
                         /\ run'[w].pc # "copy" => backups'[i].content = run'[w].version
    BY DEF Kept, Named, Prog
  <2>1. CASE w = u
    <3>1. Len(q) + 1 \in DOMAIN backups' /\ Len(backups') - (Len(q) + 1) = 0
      BY <1>8, <1>10
    <3>2. backups'[Len(q) + 1].prog = run'[u].prog /\ backups'[Len(q) + 1].at = run'[u].at
      BY <1>5, <1>9, <1>10 DEF Fixed, Prog
    <3>3. 0 <= run'[u].later
      BY <1>2, <1>5
    <3>4. pc # "copy" => backups'[Len(q) + 1].content = run'[u].version
      <4>1. Alone(u)
        BY <1>5, <2>1 DEF Alone, At, Prog, Fixed
      <4>2. run[u].version = exe[p].content
        BY <1>14, <4>1 DEF Alone, InPlaceFor, Before
      <4> QED BY <1>5, <1>9, <1>10, <4>1, <4>2 DEF Fixed
    <3> QED BY <1>5, <2>1, <3>1, <3>2, <3>3, <3>4
  <2>2. CASE w # u
    <3>1. /\ run'[w].prog = run[w].prog /\ run'[w].pc = run[w].pc /\ run'[w].at = run[w].at
          /\ run'[w].version = run[w].version /\ run'[w].later = l(w)
      BY <1>3, <2>2 DEF Fixed
    <3>2. run[w].later < Keep /\ run[w].later \in Nat
      BY <1>2, <3>1
    <3>3. Alone(w)
      BY <3>1 DEF Alone, At, Prog
    <3>4. run[w].prog # p
      <4>1. p = Prog(w) => Alone(u)
        BY <3>3 DEF Alone, At, Prog
      <4> QED BY <2>2, <3>3, <4>1 DEF UInv, OnlyOne, Prog
    <3>5. PICK j \in DOMAIN backups :
              /\ Named(backups[j], w) /\ Len(backups) - j <= run[w].later
              /\ run[w].pc # "copy" => backups[j].content = run[w].version
      BY <3>1, <3>2, <3>3 DEF UInv, Kept
    <3>6. ~NamedAs(backups[j], p, at)
      BY <3>4, <3>5 DEF Named, NamedAs, Prog
    <3>7. PICK i \in 1..Len(q) :
              /\ q[i] = backups[j] /\ Len(q) - i <= Len(backups) - j
              /\ (\E k \in BackupAt(u, at) : j < k) => Len(q) - i + 1 <= Len(backups) - j
      BY <1>8, <3>5, <3>6
    <3>8. i \in DOMAIN backups' /\ backups'[i] = backups[j]
      BY <1>8, <1>10, <3>7
    <3>9. /\ i \in Int /\ j \in Int /\ Len(q) \in Int /\ Len(backups) \in Int
          /\ run[w].later \in Int
      BY <1>8, <3>2
    <3>10. Len(backups') - i <= run'[w].later
      <4>1. CASE Passed(w, u, at)
        <5>1. run'[w].later = run[w].later + 1
          BY <3>1, <3>2, <4>1
        <5> QED BY <1>10, <3>5, <3>7, <3>9, <5>1
      <4>2. CASE ~Passed(w, u, at)
        <5>1. \E k \in BackupAt(u, at) : ~(k < j)
          BY <3>1, <3>5, <4>2 DEF Passed
        <5>2. \A k \in BackupAt(u, at) : k \in Int /\ k # j
          BY <1>8, <3>6 DEF BackupAt, NamedAs
        <5>3. \E k \in BackupAt(u, at) : j < k
          BY <3>9, <5>1, <5>2
        <5>4. run'[w].later = run[w].later
          BY <3>1, <4>2
        <5> QED BY <1>10, <3>5, <3>7, <3>9, <5>3, <5>4
      <4> QED BY <4>1, <4>2
    <3> QED BY <3>1, <3>5, <3>8, <3>10 DEF Named, Prog
  <2> QED BY <2>1, <2>2
<1> QED BY <1>12, <1>15, <1>16 DEF UInv

LEMMA BackupBeginStep ==
    ASSUME UInv, NEW u \in Updaters, BackupBegin(u)
    PROVE  UInv'
<1>1. /\ run[u].pc = "backup" /\ WriteBackup(u, now, Torn, "copy", 0)
      /\ UNCHANGED <<exe, image, temp, now, started, overlap>>
  BY DEF BackupBegin, At
<1>2. now \in Nat /\ Torn \in Content
  BY DEF UInv, UpdaterTypeOK, Content
<1> QED BY <1>1, <1>2, WriteBackupStep

LEMMA BackupWriteStep ==
    ASSUME UInv, NEW u \in Updaters, BackupWrite(u)
    PROVE  UInv'
<1>1. run[u].pc = "copy" /\ UNCHANGED <<exe, image, temp, now, started, overlap>>
  BY DEF BackupWrite, At
<1>2. run[u].at \in Nat /\ exe[Prog(u)].content \in Content /\ Torn \in Content
  BY RunFields, FileFacts DEF UInv, File, Content
<1>3. CASE BackupAt(u, run[u].at) = {}
  <2>1. Go(u, "download") /\ UNCHANGED backups
    BY <1>3 DEF BackupWrite
  <2>2. /\ run' \in [Updaters -> Run] /\ run'[u].pc = "download" /\ Fixed(run[u], run'[u])
        /\ run'[u].later = run[u].later
        /\ \A w \in Updaters \ {u} : run'[w] = run[w]
    BY <2>1, GoFacts DEF UInv, Steps
  <2>3. UpdaterTypeOK'
    BY <1>1, <2>1, <2>2 DEF UInv, UpdaterTypeOK
  <2>4. Local(u)
    BY <1>1, <2>2 DEF Local, Fixed
  <2>5. AlwaysRunnable' /\ OnlyOne' /\ InPlace' /\ OfferedStill'
    <3>1. Prog(u) \notin overlap => InPlaceFor(run[u], exe[Prog(u)], temp[Prog(u)], image[Prog(u)])
      BY <1>1, FileFacts DEF At
    <3>2. Prog(u) \notin overlap => InPlaceFor(run'[u], exe[Prog(u)], temp[Prog(u)], image[Prog(u)])
      BY <1>1, <2>2, <3>1 DEF InPlaceFor, Fixed, Before
    <3>3. Prog(u) \notin overlap =>
             /\ exe'[Prog(u)].content \in Versions
             /\ Prog(u) \in Careful => exe'[Prog(u)].exec
             /\ run'[u].pc # "idle" =>
                   InPlaceFor(run'[u], exe'[Prog(u)], temp'[Prog(u)], image'[Prog(u)])
      BY <1>1, <3>2, FileFacts
    <3> QED BY <1>1, <2>2, <2>4, <3>3, LocalStep
  <2>6. Kept'
    <3> SUFFICES ASSUME NEW w \in Updaters, Alone(w)', run'[w].pc \in Backing \cup {"copy"},
                        run'[w].later < Keep
                 PROVE  \E i \in DOMAIN backups :
                           /\ backups[i].prog = run'[w].prog /\ backups[i].at = run'[w].at
                           /\ Len(backups) - i <= run'[w].later
                           /\ run'[w].pc # "copy" => backups[i].content = run'[w].version
      BY <2>1 DEF Kept, Named, Prog
    <3>1. w # u
      <4> SUFFICES ASSUME w = u PROVE FALSE
        OBVIOUS
      <4>1. Alone(u) /\ run[u].later < Keep
        BY <1>1, <2>2 DEF Alone, At, Prog, Fixed
      <4>2. \E i \in DOMAIN backups : Named(backups[i], u)
        BY <1>1, <4>1 DEF UInv, Kept
      <4> QED BY <1>3, <4>2 DEF BackupAt, Named
    <3>2. run'[w] = run[w]
      BY <2>2, <3>1
    <3>3. Alone(w)
      BY <1>1, <3>2 DEF Alone, At, Prog
    <3> QED BY <3>2, <3>3 DEF UInv, Kept, Named, Prog
  <2> QED BY <2>3, <2>5, <2>6 DEF UInv
<1>4. ASSUME NEW part \in BOOLEAN,
             WriteBackup(u, run[u].at, IF part THEN Torn ELSE exe[Prog(u)].content,
                         IF part THEN "copy" ELSE "download",
                         IF run[u].later < Keep THEN 0 ELSE Keep)
      PROVE  UInv'
  <2>1. PICK late \in {0, Keep} : late = IF run[u].later < Keep THEN 0 ELSE Keep
    OBVIOUS
  <2>2. CASE part
    <3>1. WriteBackup(u, run[u].at, Torn, "copy", late)
      BY <1>4, <2>1, <2>2
    <3> QED BY <1>1, <1>2, <3>1, WriteBackupStep
  <2>3. CASE ~part
    <3>1. WriteBackup(u, run[u].at, exe[Prog(u)].content, "download", late)
      BY <1>4, <2>1, <2>3
    <3> QED BY <1>1, <1>2, <3>1, WriteBackupStep
  <2> QED BY <2>2, <2>3
<1> QED BY <1>3, <1>4 DEF BackupWrite

LEMMA CleanupStep ==
    ASSUME UInv, NEW u \in Updaters, Cleanup(u)
    PROVE  UInv'
<1> DEFINE n == Len(backups)
           a == IF n < Keep THEN 1 ELSE n - Keep + 1
<1>1. /\ run[u].pc = "cleanup" /\ EndRun(u) /\ backups' = SubSeq(backups, a, n)
      /\ UNCHANGED <<exe, image, temp, now, started, overlap>>
  BY DEF Cleanup, At
<1>2. /\ run' \in [Updaters -> Run] /\ run'[u].pc = "idle"
      /\ \A w \in Updaters \ {u} : run'[w] = run[w]
  BY <1>1, EndFacts DEF UInv
<1>3. /\ backups \in Seq(Backup) /\ n \in Nat /\ DOMAIN backups = 1..n
      /\ \A i \in 1..n : backups[i] \in Backup
      /\ Keep \in Nat \ {0}
  BY LenProperties, ElementOfSeq, UpdaterAssumption DEF UInv, UpdaterTypeOK
<1>4. /\ a \in 1..(n + 1) /\ a \in Int /\ n \in Int
      /\ \A j \in 1..n : n - j < Keep => j >= a
  BY <1>3
<1> HIDE DEF a
<1>5. /\ backups' \in Seq(Backup) /\ Len(backups') = n - a + 1 /\ DOMAIN backups' = 1..(n - a + 1)
      /\ \A i \in 1..(n - a + 1) : backups'[i] = backups[a + i - 1]
  <2>1. \A i \in a..n : backups[i] \in Backup
    BY <1>3, <1>4
  <2>2. /\ backups' \in Seq(Backup) /\ Len(backups') = IF a <= n THEN n - a + 1 ELSE 0
        /\ \A i \in 1..(n - a + 1) : backups'[i] = backups[a + i - 1]
    BY <1>1, <1>4, <2>1, SubSeqProperties
  <2>3. Len(backups') = n - a + 1
    BY <1>3, <1>4, <2>2
  <2> QED BY <2>2, <2>3, LenProperties
<1>6. UpdaterTypeOK'
  <2>1. Apart(backups')
    <3> SUFFICES ASSUME NEW i \in 1..(n - a + 1), NEW j \in 1..(n - a + 1),
                        backups'[i].prog = backups'[j].prog, backups'[i].at = backups'[j].at
                 PROVE  i = j
      BY <1>5 DEF Apart
    <3>1. a + i - 1 \in 1..n /\ a + j - 1 \in 1..n
      BY <1>3, <1>4
    <3>2. a + i - 1 = a + j - 1
      BY <1>3, <1>5, <3>1 DEF UInv, UpdaterTypeOK
    <3> QED BY <1>3, <1>4, <3>2
  <2> QED BY <1>1, <1>2, <1>5, <2>1 DEF UInv, UpdaterTypeOK, Apart
<1>7. Local(u)
  BY <1>1, <1>2 DEF Local, Fixed
<1>8. AlwaysRunnable' /\ OnlyOne' /\ InPlace' /\ OfferedStill'
  <2>1. Prog(u) \notin overlap =>
           /\ exe'[Prog(u)].content \in Versions
           /\ Prog(u) \in Careful => exe'[Prog(u)].exec
    BY <1>1, FileFacts
  <2> QED BY <1>1, <1>2, <1>7, <2>1, LocalStep
<1>9. Kept'
  <2> SUFFICES ASSUME NEW w \in Updaters, Alone(w)', run'[w].pc \in Backing \cup {"copy"},
                      run'[w].later < Keep
               PROVE  \E i \in DOMAIN backups' :
                         /\ backups'[i].prog = run'[w].prog /\ backups'[i].at = run'[w].at
                         /\ Len(backups') - i <= run'[w].later
                         /\ run'[w].pc # "copy" => backups'[i].content = run'[w].version
    BY DEF Kept, Named, Prog
  <2>1. w # u /\ run'[w] = run[w]
    BY <1>2 DEF Backing
  <2>2. Alone(w)
    BY <1>1, <2>1 DEF Alone, At, Prog
  <2>3. PICK j \in 1..n :
            /\ backups[j].prog = run[w].prog /\ backups[j].at = run[w].at
            /\ n - j <= run[w].later
            /\ run[w].pc # "copy" => backups[j].content = run[w].version
    BY <1>3, <2>1, <2>2 DEF UInv, Kept, Named, Prog
  <2>4. run[w].later \in Nat /\ run[w].later < Keep
    BY <1>3, <2>1, RunFields DEF UInv
  <2>5. n - j < Keep
    BY <1>3, <2>3, <2>4
  <2>6. j - a + 1 \in 1..(n - a + 1) /\ a + (j - a + 1) - 1 = j
        /\ (n - a + 1) - (j - a + 1) = n - j
    BY <1>3, <1>4, <2>5
  <2>7. backups'[j - a + 1] = backups[j]
    BY <1>5, <2>6
  <2> QED BY <1>5, <2>1, <2>3, <2>6, <2>7
<1> QED BY <1>6, <1>8, <1>9 DEF UInv

-----------------------------------------------------------------------------
LEMMA StartStep ==
    ASSUME UInv, NEW u \in Updaters, NEW p \in Programs, NEW v \in Versions, NEW f \in BOOLEAN,
           Start(u, p, v, f)
    PROVE  UInv'
<1> DEFINE r == [Idle EXCEPT !.pc = "backup", !.prog = p, !.target = v,
                             !.version = exe[p].content, !.forced = f, !.image = image[p]]
<1>1. /\ run[u].pc = "idle" /\ exe[p].content \in Versions
      /\ f \/ Offered(v, exe[p].content)
      /\ run' = [run EXCEPT ![u] = r] /\ started' = started + 1
      /\ overlap' = IF Busy(p) = {} THEN overlap ELSE overlap \cup {p}
      /\ UNCHANGED <<exe, image, temp, backups, now>>
  BY DEF Start, At
<1>2. run \in [Updaters -> Run] /\ image[p] \in Nat /\ First \in Versions /\ 0 \in 0..Keep
  BY UpdaterAssumption DEF UInv, UpdaterTypeOK
<1>3. r \in Run /\ r.pc = "backup" /\ r.prog = p /\ r.version = exe[p].content /\ r.target = v
      /\ r.forced = f /\ r.image = image[p]
  <2> DEFINE a == [Idle EXCEPT !.pc = "backup"]
             b == [a EXCEPT !.prog = p]
             c == [b EXCEPT !.target = v]
             d == [c EXCEPT !.version = exe[p].content]
             e == [d EXCEPT !.forced = f]
  <2>1. r = [e EXCEPT !.image = image[p]]
    OBVIOUS
  <2>2. a \in Run /\ a.pc = "backup"
    BY IdleIsRun DEF Run, Steps
  <2> HIDE DEF a, r
  <2>3. b \in Run /\ b.pc = "backup" /\ b.prog = p
    BY <2>2 DEF Run
  <2> HIDE DEF b
  <2>4. c \in Run /\ c.pc = "backup" /\ c.prog = p /\ c.target = v
    BY <2>3 DEF Run
  <2> HIDE DEF c
  <2>5. d \in Run /\ d.pc = "backup" /\ d.prog = p /\ d.target = v /\ d.version = exe[p].content
    BY <1>1, <2>4 DEF Run
  <2> HIDE DEF d
  <2>6. e \in Run /\ e.pc = "backup" /\ e.prog = p /\ e.target = v /\ e.version = exe[p].content
        /\ e.forced = f
    BY <2>5 DEF Run
  <2> HIDE DEF e
  <2> QED BY <1>2, <2>1, <2>6 DEF Run
<1> HIDE DEF r
<1>6. /\ run' \in [Updaters -> Run] /\ run'[u] = r
      /\ \A w \in Updaters \ {u} : run'[w] = run[w]
  BY <1>1, <1>2, <1>3
<1>7. overlap \subseteq overlap' /\ overlap' \subseteq Programs
  BY <1>1 DEF UInv, UpdaterTypeOK
<1>8. UpdaterTypeOK'
  BY <1>1, <1>6, <1>7 DEF UInv, UpdaterTypeOK
<1>9. \A w \in Updaters \ {u} : Alone(w)' => Alone(w)
  BY <1>6, <1>7 DEF Alone, At, Prog
<1>10. AlwaysRunnable'
  BY <1>1, <1>7 DEF UInv, AlwaysRunnable
<1>11. OnlyOne'
  <2> SUFFICES ASSUME NEW w \in Updaters, NEW x \in Updaters, Alone(w)', Alone(x)',
                      run'[w].prog = run'[x].prog, w # x
               PROVE  FALSE
    BY DEF OnlyOne, Prog
  <2>1. ASSUME NEW y \in Updaters \ {u}, run'[y].prog = p, Alone(u)', Alone(y)'
        PROVE  FALSE
    <3>1. y \in Busy(p)
      BY <1>6, <2>1 DEF Alone, At, Prog, Busy
    <3>2. p \in overlap'
      BY <1>1, <3>1
    <3> QED BY <2>1, <3>2 DEF Alone, Prog
  <2>2. CASE w # u /\ x # u
    BY <1>6, <1>9, <2>2 DEF UInv, OnlyOne, Prog
  <2> QED BY <1>3, <1>6, <2>1, <2>2
<1>12. InPlace'
  <2> SUFFICES ASSUME NEW w \in Updaters, Alone(w)'
               PROVE  InPlaceFor(run'[w], exe[run'[w].prog], temp[run'[w].prog], image[run'[w].prog])
    BY <1>1 DEF InPlace, Prog
  <2>1. CASE w = u
    BY <1>3, <1>6, <2>1 DEF InPlaceFor, Before
  <2>2. CASE w # u
    BY <1>6, <1>9, <2>2 DEF UInv, InPlace, Prog
  <2> QED BY <2>1, <2>2
<1>13. Kept'
  <2> SUFFICES ASSUME NEW w \in Updaters, Alone(w)', run'[w].pc \in Backing \cup {"copy"},
                      run'[w].later < Keep
               PROVE  \E i \in DOMAIN backups :
                         /\ backups[i].prog = run'[w].prog /\ backups[i].at = run'[w].at
                         /\ Len(backups) - i <= run'[w].later
                         /\ run'[w].pc # "copy" => backups[i].content = run'[w].version
    BY <1>1 DEF Kept, Named, Prog
  <2>1. w # u
    BY <1>3, <1>6 DEF Backing
  <2> QED BY <1>6, <1>9, <2>1 DEF UInv, Kept, Named, Prog
<1>14. OfferedStill'
  BY <1>1, <1>3, <1>6 DEF UInv, OfferedStill, At
<1> QED BY <1>8, <1>10, <1>11, <1>12, <1>13, <1>14 DEF UInv

LEMMA UpdaterStepKeeps == ASSUME UInv, [UpdaterNext]_updaterVars PROVE UInv'
<1>1. CASE UNCHANGED updaterVars
  <2>1. \A w \in Updaters : (Alone(w)' <=> Alone(w)) /\ (\A b : Named(b, w)' <=> Named(b, w))
    BY <1>1 DEF updaterVars, Alone, At, Prog, Named
  <2> QED BY <1>1, <2>1 DEF UInv, updaterVars, UpdaterTypeOK, AlwaysRunnable, OnlyOne, InPlace, Kept,
            OfferedStill, Prog, At
<1>2. CASE Tick
  <2>1. UNCHANGED <<exe, image, temp, backups, run, started, overlap>> /\ now' = now + 1
    BY <1>2 DEF Tick
  <2>2. UpdaterTypeOK'
    BY <2>1 DEF UInv, UpdaterTypeOK
  <2>3. \A w \in Updaters : (Alone(w)' <=> Alone(w)) /\ (\A b : Named(b, w)' <=> Named(b, w))
    BY <2>1 DEF Alone, At, Prog, Named
  <2> QED BY <2>1, <2>2, <2>3 DEF UInv, AlwaysRunnable, OnlyOne, InPlace, Kept, OfferedStill, Prog, At
<1>3. ASSUME NEW u \in Updaters, Step(u) PROVE UInv'
  BY <1>3, BackupBeginStep, GiveUpStep, BackupWriteStep, DownloadStep, CreateStep, WriteStep, ModeStep,
     VerifyStep, RenameStep, ChmodStep, CleanupStep, RestoreBeginStep, RestoreEndStep DEF Step
<1>4. ASSUME NEW u \in Updaters, Crash(u) PROVE UInv'
  BY <1>4, GiveUpStep
<1>5. ASSUME NEW u \in Updaters, NEW p \in Programs, NEW v \in Versions, NEW f \in BOOLEAN,
             Start(u, p, v, f)
      PROVE  UInv'
  BY <1>5, StartStep
<1> QED BY <1>1, <1>2, <1>3, <1>4, <1>5 DEF UpdaterNext

LEMMA UpdaterStarts == UpdaterInit => UInv
<1> SUFFICES ASSUME UpdaterInit PROVE UInv
  OBVIOUS
<1>1. /\ exe = [p \in Programs |-> [content |-> First, exec |-> TRUE]]
      /\ image = [p \in Programs |-> 0] /\ temp = [p \in Programs |-> NoFile]
      /\ backups = <<>> /\ now = 0 /\ run = [u \in Updaters |-> Idle]
      /\ started = 0 /\ overlap = {}
  BY DEF UpdaterInit
<1>2. \A u \in Updaters : run[u].pc = "idle"
  BY <1>1, IdleIsRun
<1>3. UpdaterTypeOK
  <2>1. [content |-> First, exec |-> TRUE] \in File
    BY UpdaterAssumption DEF File, Content
  <2>2. exe \in [Programs -> File]
    BY <1>1, <2>1
  <2>3. run \in [Updaters -> Run]
    BY <1>1, IdleIsRun
  <2>4. backups \in Seq(Backup) /\ DOMAIN backups = {}
    BY <1>1, EmptySeq
  <2> QED BY <1>1, <2>2, <2>3, <2>4 DEF UpdaterTypeOK
<1>4. AlwaysRunnable
  BY <1>1, UpdaterAssumption DEF AlwaysRunnable
<1>5. OnlyOne /\ InPlace /\ Kept /\ OfferedStill
  BY <1>2 DEF OnlyOne, InPlace, Kept, OfferedStill, Alone, At
<1> QED BY <1>3, <1>4, <1>5 DEF UInv

LEMMA UpdaterInvariant == UpdaterSpec => []UInv
BY UpdaterStarts, UpdaterStepKeeps, PTL DEF UpdaterSpec

-----------------------------------------------------------------------------
(* What the lemmas say of a version that is well formed: its numbers are   *)
(* what is parsed of it.                                                   *)

LEMMA NthOfWellFormed ==
    ASSUME NEW v \in Versions, WellFormed(v), NEW i \in 1..3
    PROVE  Nth(v, i) = {i}
<1> DEFINE N == Numeric(v)
           S(k) == {j \in N : j <= k}
<1>1. /\ DOMAIN Tag[v] = 1..Len(Tag[v]) /\ Len(Tag[v]) \in Nat
      /\ Len(Tag[v]) >= 3 /\ \A k \in 1..3 : Tag[v][k].num # NoNum
  BY UpdaterAssumption, LenProperties DEF WellFormed
<1>2. 1..3 \subseteq N /\ N \subseteq 1..Len(Tag[v])
  BY <1>1 DEF Numeric
<1>3. IsFiniteSet(1..Len(Tag[v]))
  <2>1. 1 \in Int /\ Len(Tag[v]) \in Int
    BY <1>1
  <2> QED BY <2>1, FS_Interval
<1> HIDE DEF N
<1>4. ASSUME NEW k \in 1..3 PROVE Cardinality(S(k)) = k
  <2>1. \A j : j \in S(k) <=> j \in 1..k
    <3>1. \A j \in N : j \in 1..Len(Tag[v])
      BY <1>2
    <3>2. \A j \in 1..k : j \in 1..3
      OBVIOUS
    <3>3. \A j \in 1..k : j \in N /\ j <= k
      BY <1>2, <3>2
    <3>4. \A j \in N : j <= k => j \in 1..k
      BY <1>1, <3>1
    <3> QED BY <3>3, <3>4
  <2>2. Cardinality(1..k) = k
    <3>1. 1 \in Int /\ k \in Int /\ ~(1 > k) /\ k - 1 + 1 = k
      OBVIOUS
    <3> QED BY <3>1, FS_Interval
  <2>3. S(k) = 1..k
    BY <2>1
  <2> QED BY <2>2, <2>3
<1>5. ASSUME NEW k \in N, k > 3 PROVE Cardinality(S(k)) > 3
  <2>1. k \in Nat /\ k \notin 1..3
    BY <1>1, <1>2, <1>5
  <2>2. IsFiniteSet(1..3) /\ Cardinality(1..3) = 3
    <3>1. 1 \in Int /\ 3 \in Int /\ ~(1 > 3) /\ 3 - 1 + 1 = 3
      OBVIOUS
    <3> QED BY <3>1, FS_Interval
  <2>3. Cardinality((1..3) \cup {k}) = 4
    BY <2>1, <2>2, FS_AddElement
  <2>4. (1..3) \cup {k} \subseteq S(k)
    <3>1. \A j \in 1..3 : j \in N /\ j <= k
      BY <1>2, <1>5, <2>1
    <3> QED BY <2>1, <3>1
  <2>5. IsFiniteSet(S(k))
    <3>1. S(k) \subseteq 1..Len(Tag[v])
      BY <1>2
    <3> QED BY <1>3, <3>1, FS_Subset
  <2>6. Cardinality((1..3) \cup {k}) <= Cardinality(S(k)) /\ Cardinality(S(k)) \in Nat
    BY <2>4, <2>5, FS_Subset, FS_CardinalityType
  <2> QED BY <2>3, <2>6
<1>6. Nth(v, i) = {k \in N : Cardinality(S(k)) = i}
  BY DEF Nth, N
<1>7. \A k \in N : k \in 1..3 \/ k > 3
  BY <1>1, <1>2
<1> HIDE DEF S
<1>8. \A k \in N : Cardinality(S(k)) = i <=> k = i
  <2> SUFFICES ASSUME NEW k \in N PROVE Cardinality(S(k)) = i <=> k = i
    OBVIOUS
  <2>1. CASE k \in 1..3
    BY <1>4, <2>1
  <2>2. CASE k > 3
    <3>1. Cardinality(S(k)) > 3
      BY <1>5, <2>2
    <3>2. ~(i > 3)
      OBVIOUS
    <3> QED BY <2>2, <3>1, <3>2
  <2> QED BY <1>7, <2>1, <2>2
<1>9. i \in N
  BY <1>2
<1> QED BY <1>6, <1>8, <1>9

LEMMA ParsedIsNumbers ==
    ASSUME NEW v \in Versions, WellFormed(v)
    PROVE  Parsed(v) = Numbers(v)
<1>1. ASSUME NEW i \in 1..3
      PROVE  (IF Nth(v, i) = {} THEN 0 ELSE Tag[v][CHOOSE k \in Nth(v, i) : TRUE].num) = Tag[v][i].num
  <2>1. Nth(v, i) = {i}
    BY NthOfWellFormed
  <2>2. (CHOOSE k \in {i} : TRUE) = i
    OBVIOUS
  <2> QED BY <2>1, <2>2
<1> QED BY <1>1 DEF Parsed, Numbers

-----------------------------------------------------------------------------
(* The files and the updates keep their shape, and no two backups have the *)
(* same name (create_backup overwrites a backup of the same second).       *)
THEOREM UpdaterTypeCorrect == UpdaterSpec => []UpdaterTypeOK
<1>1. UInv => UpdaterTypeOK
  BY DEF UInv
<1> QED BY <1>1, UpdaterInvariant, PTL

(* Whatever fails or is killed, and wherever, a program on which no two    *)
(* updates met has a whole binary in place, and the server's is executable *)
(* (perform_update of the three programs).                                 *)
THEOREM RunnableThroughout == UpdaterSpec => []AlwaysRunnable
<1>1. UInv => AlwaysRunnable
  BY DEF UInv
<1> QED BY <1>1, UpdaterInvariant, PTL

(* Until the executable is replaced there is a whole backup of it, unless  *)
(* Keep backups of any program were, at some time since its copy began,    *)
(* written after its own (create_backup, cleanup_old_backups).             *)
THEOREM BackupWhileNeeded == UpdaterSpec => []BackupSurvives
<1>1. UInv => BackupSurvives
  <2> SUFFICES ASSUME UInv, NEW u \in Updaters,
                      run[u].pc \in Backing, Prog(u) \notin overlap, run[u].later < Keep
               PROVE  \E i \in DOMAIN backups :
                         Named(backups[i], u) /\ backups[i].content = run[u].version
    BY DEF BackupSurvives
  <2>1. run[u].pc # "idle" /\ run[u].pc # "copy"
    BY DEF Backing
  <2>2. Alone(u)
    BY <2>1 DEF Alone, At
  <2> QED BY <2>1, <2>2 DEF UInv, Kept
<1> QED BY <1>1, UpdaterInvariant, PTL

(* What replaces an executable nobody else works on: the release that was   *)
(* found when the update started.                                          *)
LEMMA TurnedByRename ==
    ASSUME UInv, NEW u \in Updaters, Step(u), NEW p \in Programs, p \notin overlap,
           exe'[p].content # exe[p].content
    PROVE  /\ p = Prog(u) /\ u \in Busy(p)
           /\ exe[p].content = run[u].version /\ exe'[p].content = run[u].target
<1>1. exe \in [Programs -> File] /\ temp \in [Programs -> File \cup {NoFile}]
  BY DEF UInv, UpdaterTypeOK
<1>2. ~At(u, "idle") /\ p = Prog(u) => InPlaceFor(run[u], exe[p], temp[p], image[p])
  BY FileFacts
<1>3. CASE UNCHANGED exe
  BY <1>3
<1>4. CASE Write(u)
  <2>1. exe' = IF run[u].fd = "exe" THEN [exe EXCEPT ![Prog(u)].content = run[u].got] ELSE exe
    BY <1>4 DEF Write
  <2>2. p = Prog(u) => run[u].fd = "temp"
    BY <1>2, <1>4 DEF Write, At, InPlaceFor
  <2> QED BY <1>1, <2>1, <2>2
<1>5. CASE Chmod(u)
  <2>1. exe' = [exe EXCEPT ![Prog(u)].exec = TRUE]
    BY <1>5 DEF Chmod
  <2> QED BY <1>1, <2>1 DEF File
<1>6. CASE RestoreBegin(u)
  <2>1. run[u].pc = "restore" /\ (UNCHANGED exe \/ exe' = [exe EXCEPT ![Prog(u)].content = Torn])
    BY <1>6 DEF RestoreBegin, At
  <2>2. p = Prog(u) => run[u].image = image[p] /\ u \in Busy(p)
    BY <1>2, <2>1 DEF At, InPlaceFor, Before, Busy
  <2>3. p = Prog(u) => UNCHANGED exe
    BY <1>6, <2>2 DEF RestoreBegin
  <2> QED BY <1>1, <2>1, <2>3
<1>7. CASE RestoreEnd(u)
  <2>1. PICK e : exe' = [exe EXCEPT ![Prog(u)] = e]
    BY <1>7 DEF RestoreEnd
  <2>2. p # Prog(u)
    BY <1>2, <1>7 DEF RestoreEnd, At, InPlaceFor, Before
  <2> QED BY <1>1, <2>1, <2>2
<1>8. CASE Rename(u)
  <2>1. temp[Prog(u)] # NoFile /\ exe' = [exe EXCEPT ![Prog(u)] = temp[Prog(u)]]
    BY <1>8 DEF Rename
  <2>2. p = Prog(u)
    BY <1>1, <2>1
  <2>3. run[u].pc = "rename" /\ exe'[p] = temp[p]
    BY <1>1, <1>8, <2>1, <2>2 DEF Rename, At
  <2> QED BY <1>2, <2>2, <2>3 DEF At, InPlaceFor, Before, Busy
<1>9. \/ UNCHANGED exe \/ Write(u) \/ Chmod(u) \/ RestoreBegin(u) \/ RestoreEnd(u) \/ Rename(u)
  BY DEF Step, BackupBegin, ExeGone, BackupWrite, Download, Create, CannotWrite, ModeEarly,
         Verify, Cleanup
<1> QED BY <1>3, <1>4, <1>5, <1>6, <1>7, <1>8, <1>9

(* What an update that was not forced puts in place of a program it alone   *)
(* works on is later than what it replaces, by the numbers of the two tags, *)
(* whatever earlier updates left behind and wherever they were killed       *)
(* (version_compare, perform_update).                                      *)
THEOREM OnlyNewerInstalled == UpdaterSpec => OnlyForward
<1> DEFINE Forward(p) ==
              (Turned(p) /\ WellFormed(exe[p].content) /\ WellFormed(exe'[p].content)) =>
                  Later(Numbers(exe'[p].content), Numbers(exe[p].content))
<1>1. ASSUME UInv, UpdaterNext, NEW p \in Programs
      PROVE  Forward(p)
  <2> SUFFICES ASSUME Turned(p), WellFormed(exe[p].content), WellFormed(exe'[p].content)
               PROVE  Later(Numbers(exe'[p].content), Numbers(exe[p].content))
    OBVIOUS
  <2>1. PICK u \in Updaters : Step(u)
    <3>1. ~UNCHANGED exe
      BY DEF Turned
    <3> QED BY <1>1, <3>1 DEF UpdaterNext, Start, Crash, Tick
  <2>2. /\ p = Prog(u) /\ u \in Busy(p)
        /\ exe[p].content = run[u].version /\ exe'[p].content = run[u].target
    BY <1>1, <2>1, TurnedByRename DEF Turned
  <2>3. ~run[u].forced /\ ~At(u, "idle")
    BY <2>2 DEF Turned, Busy
  <2>4. Offered(run[u].target, run[u].version)
    BY <1>1, <2>3 DEF UInv, OfferedStill
  <2>5. exe[p].content \in Versions /\ exe'[p].content \in Versions
    BY DEF Turned
  <2> QED BY <2>2, <2>4, <2>5, ParsedIsNumbers DEF Offered
<1>2. UInv /\ [UpdaterNext]_updaterVars => [\A p \in Programs : Forward(p)]_updaterVars
  BY <1>1
<1> QED BY <1>2, UpdaterInvariant, PTL DEF UpdaterSpec, OnlyForward

=============================================================================
