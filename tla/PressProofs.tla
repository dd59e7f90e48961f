------------------------------ MODULE PressProofs ------------------------------
(***************************************************************************)
(* The press, for every set of members, every page size and quota and      *)
(* however many texts and holders: what is sent is kept once, what is counted*)
(* and marked is so, and a phone trusts another key only when the one it   *)
(* trusts has signed for it.                                               *)
(* The two parts share nothing.                                            *)
(***************************************************************************)
EXTENDS PressRoom, PressPins, FiniteSetTheorems, SequenceTheorems, TLAPS

-------------------------------------------------------------------------------
(* PressRoom: every copy of a text in the rows is a post that was answered *)
(* or an answer that was lost.                                             *)

Message == [sender : Members, text : Nat]
Post == [step : {"reading", "posting", "stored"}, text : Nat, turn : Nat, seq : Nat,
         try : Nat, from : Nat]
Load == [newest : BOOLEAN, before : Nat, hi : Nat]
Room == [log : Seq(Message), read : [Members -> Nat], unread : [Members -> Nat],
         stored : [Members -> Nat], turn : Nat, open : BOOLEAN]
Rows == [log : Seq(Message), read : [Members -> Nat]]
Panel == [draft : Nat, posts : SUBSET Post, loads : SUBSET Load, before : Nat, hi : Nat,
          marks : SUBSET Nat, marked : Nat, turn : Nat, seen : Nat, heard : SUBSET Nat]

RoomType ==
  /\ room \in Room /\ rows \in Rows /\ panel \in Panel
  /\ texts \in 0..MaxTexts /\ lost \in [1..MaxTexts -> Nat]

\* The rows hold what the memory holds, and nothing is read before it is there.
InTheRows ==
  /\ rows.log = room.log
  /\ \A h \in Members : room.read[h] <= Len(room.log) /\ rows.read[h] <= Len(room.log)

\* Every mark, on its way or taken, is of a page that was shown.
MarksShown ==
  /\ \A seq \in panel.marks : seq <= panel.seen
  /\ room.read[You] <= panel.seen /\ rows.read[You] <= panel.seen

\* One send at a time, of the draft, which nothing has said is stored.
OneSend ==
  /\ \A p, q \in panel.posts : p = q
  /\ \A p \in panel.posts : p.text = panel.draft
  /\ panel.posts # {} => panel.draft # 0
  /\ panel.draft <= texts /\ panel.draft \notin panel.heard
  /\ panel.heard \subseteq 1..texts

\* The copies of a text are its lost answers, and one the panel has heard of
\* or is about to.
Told(t) == t \in panel.heard \/ \E p \in panel.posts : p.step = "stored" /\ p.text = t
Accounted == \A t \in 1..MaxTexts : Copies(t) = lost[t] + (IF Told(t) THEN 1 ELSE 0)

RoomInv ==
  RoomType /\ InTheRows /\ CountersTrue /\ MarksShown /\ OneSend /\ Accounted

\* One more is counted when the next number is.
LEMMA CountOneMore ==
  ASSUME NEW n \in Nat, NEW A \in SUBSET (1..n)
  PROVE  /\ IsFiniteSet(A) /\ Cardinality(A) \in Nat
         /\ Cardinality(A \cup {n + 1}) = Cardinality(A) + 1
<1>1. IsFiniteSet(1..n)
  BY FS_Interval
<1>2. IsFiniteSet(A)
  BY <1>1, FS_Subset
<1>3. n + 1 \notin A
  OBVIOUS
<1> QED BY <1>2, <1>3, FS_AddElement, FS_CardinalityType

LEMMA Appended ==
  ASSUME NEW log \in Seq(Message), NEW m \in Message
  PROVE  /\ Append(log, m) \in Seq(Message) /\ Len(log) \in Nat
         /\ Len(Append(log, m)) = Len(log) + 1
         /\ \A i \in 1..Len(log) : Append(log, m)[i] = log[i] /\ log[i] \in Message
         /\ Append(log, m)[Len(log) + 1] = m
         /\ 1..Len(Append(log, m)) = 1..Len(log) \cup {Len(log) + 1}
OBVIOUS

LEMMA UnreadOneMore ==
  ASSUME NEW log \in Seq(Message), NEW m \in Message, NEW h \in Members,
         NEW seen \in Nat, seen <= Len(log)
  PROVE  /\ countUnread(log, h, seen) \in Nat
         /\ countUnread(Append(log, m), h, seen)
              = countUnread(log, h, seen) + (IF h = m.sender THEN 0 ELSE 1)
<1> DEFINE A == {i \in 1..Len(log) : i > seen /\ log[i].sender # h}
           B == {i \in 1..Len(Append(log, m)) : i > seen /\ Append(log, m)[i].sender # h}
<1>1. A \in SUBSET (1..Len(log)) /\ Len(log) \in Nat
  OBVIOUS
<1>2. B = IF h = m.sender THEN A ELSE A \cup {Len(log) + 1}
  BY Appended
<1>3. countUnread(log, h, seen) = Cardinality(A)
      /\ countUnread(Append(log, m), h, seen) = Cardinality(B)
  BY DEF countUnread
<1>4. Cardinality(A) \in Nat /\ Cardinality(A \cup {Len(log) + 1}) = Cardinality(A) + 1
  BY <1>1, CountOneMore
<1> HIDE DEF A, B
<1> QED BY <1>2, <1>3, <1>4

LEMMA OfOneMore ==
  ASSUME NEW log \in Seq(Message), NEW m \in Message, NEW h \in Members
  PROVE  /\ Of(log, h) \in Nat
         /\ Of(Append(log, m), h) = Of(log, h) + (IF h = m.sender THEN 1 ELSE 0)
<1> DEFINE A == {i \in 1..Len(log) : log[i].sender = h}
           B == {i \in 1..Len(Append(log, m)) : Append(log, m)[i].sender = h}
<1>1. A \in SUBSET (1..Len(log)) /\ Len(log) \in Nat
  OBVIOUS
<1>2. B = IF h = m.sender THEN A \cup {Len(log) + 1} ELSE A
  BY Appended
<1>3. Of(log, h) = Cardinality(A) /\ Of(Append(log, m), h) = Cardinality(B)
  BY DEF Of
<1>4. Cardinality(A) \in Nat /\ Cardinality(A \cup {Len(log) + 1}) = Cardinality(A) + 1
  BY <1>1, CountOneMore
<1> HIDE DEF A, B
<1> QED BY <1>2, <1>3, <1>4

LEMMA CopiesOneMore ==
  ASSUME rows \in Rows, NEW m \in Message, rows'.log = Append(rows.log, m),
         NEW t \in Nat
  PROVE  /\ Copies(t) \in Nat
         /\ Copies(t)' = Copies(t) + (IF t = m.text THEN 1 ELSE 0)
<1> DEFINE log == rows.log
           A == {i \in 1..Len(log) : log[i].text = t}
           B == {i \in 1..Len(Append(log, m)) : Append(log, m)[i].text = t}
<1>1. log \in Seq(Message)
  BY DEF Rows
<1>2. Copies(t) = Cardinality(A) /\ Copies(t)' = Cardinality(B)
  BY DEF Copies
<1> HIDE DEF log
<1>3. A \in SUBSET (1..Len(log)) /\ Len(log) \in Nat
  BY <1>1
<1>4. B = IF t = m.text THEN A \cup {Len(log) + 1} ELSE A
  BY <1>1, Appended
<1>5. Cardinality(A) \in Nat /\ Cardinality(A \cup {Len(log) + 1}) = Cardinality(A) + 1
  BY <1>3, CountOneMore
<1> HIDE DEF A, B
<1> QED BY <1>2, <1>4, <1>5

LEMMA UnreadType ==
  ASSUME NEW log \in Seq(Message), NEW h \in Members, NEW seen \in Nat
  PROVE  countUnread(log, h, seen) \in Nat
<1> {i \in 1..Len(log) : i > seen /\ log[i].sender # h} \in SUBSET (1..Len(log))
      /\ Len(log) \in Nat
  OBVIOUS
<1> QED BY CountOneMore DEF countUnread

LEMMA OfType ==
  ASSUME NEW log \in Seq(Message), NEW h \in Members
  PROVE  Of(log, h) \in Nat
<1> {i \in 1..Len(log) : log[i].sender = h} \in SUBSET (1..Len(log)) /\ Len(log) \in Nat
  OBVIOUS
<1> QED BY CountOneMore DEF Of

\* A message is taken: its row and its place in memory are one more of the
\* same, and the counters follow.
LEMMA Taken ==
  ASSUME RoomInv, NEW m \in Message, room.stored[m.sender] < Quota,
         room' = rememberMessage(room, m), rows' = [rows EXCEPT !.log = Append(@, m)]
  PROVE  /\ room' \in Room /\ rows' \in Rows /\ InTheRows' /\ CountersTrue'
         /\ room'.read = room.read /\ rows'.read = rows.read
         /\ rows'.log = Append(rows.log, m)
<1>1. room \in Room /\ rows \in Rows /\ rows.log = room.log
  BY DEF RoomInv, RoomType, InTheRows
<1>2. /\ room.log \in Seq(Message) /\ room.unread \in [Members -> Nat]
      /\ room.stored \in [Members -> Nat] /\ room.read \in [Members -> Nat]
      /\ rows.read \in [Members -> Nat] /\ m.sender \in Members
  BY <1>1 DEF Room, Rows, Message
<1>3. /\ rows' \in Rows /\ rows'.log = Append(rows.log, m) /\ rows'.read = rows.read
  BY <1>1, <1>2, Appended DEF Rows
<1> DEFINE counted == [h \in Members |-> room.unread[h] + (IF h = m.sender THEN 0 ELSE 1)]
           kept == [room.stored EXCEPT ![m.sender] = @ + 1]
<1>4. counted \in [Members -> Nat] /\ kept \in [Members -> Nat]
  BY <1>2
<1>5. room' = [room EXCEPT !.log = Append(@, m), !.stored = kept, !.unread = counted]
  BY <1>1 DEF rememberMessage, Room
<1> HIDE DEF counted, kept
<1>6. /\ room'.log = Append(room.log, m) /\ room'.read = room.read
      /\ room'.unread = counted /\ room'.stored = kept
      /\ room' \in Room
  <2>1. Append(room.log, m) \in Seq(Message)
    BY <1>2, Appended
  <2> DEFINE longer == Append(room.log, m)
  <2>2. room' = [room EXCEPT !.log = longer, !.stored = kept, !.unread = counted]
    BY <1>5
  <2> HIDE DEF longer
  <2>3. longer \in Seq(Message)
    BY <2>1 DEF longer
  <2>4. /\ room'.log = longer /\ room'.read = room.read
        /\ room'.unread = counted /\ room'.stored = kept
        /\ room' \in Room
    BY <1>1, <1>4, <2>2, <2>3 DEF Room
  <2> QED BY <2>4 DEF longer
<1>7. InTheRows'
  BY <1>1, <1>2, <1>3, <1>6, Appended DEF InTheRows, RoomInv
<1>8. ASSUME NEW h \in Members
      PROVE  /\ counted[h] = countUnread(Append(room.log, m), h, room.read[h])
             /\ kept[h] = Of(Append(rows.log, m), h) /\ kept[h] <= Quota
  <2>1. room.read[h] \in Nat /\ room.read[h] <= Len(room.log)
    BY <1>2 DEF RoomInv, InTheRows
  <2>2. /\ room.unread[h] = countUnread(room.log, h, room.read[h])
        /\ room.stored[h] = Of(rows.log, h) /\ room.stored[h] <= Quota
    BY DEF RoomInv, CountersTrue
  <2>3. counted[h] = room.unread[h] + (IF h = m.sender THEN 0 ELSE 1)
    BY DEF counted
  <2>4. kept[h] = room.stored[h] + (IF h = m.sender THEN 1 ELSE 0)
    BY <1>2 DEF kept
  <2>5. counted[h] = countUnread(Append(room.log, m), h, room.read[h])
    BY <1>2, <2>1, <2>2, <2>3, UnreadOneMore
  <2>6. kept[h] = Of(Append(rows.log, m), h)
    BY <1>1, <1>2, <2>2, <2>4, OfOneMore
  <2>7. kept[h] <= Quota
    BY <1>2, <2>2, <2>4, RoomAssumption
  <2> QED BY <2>5, <2>6, <2>7
<1>9. CountersTrue'
  <2>1. ASSUME NEW h \in Members
        PROVE  /\ room'.unread[h] = countUnread(room'.log, h, room'.read[h])
               /\ room'.stored[h] = Of(rows'.log, h) /\ room'.stored[h] <= Quota
    BY <1>3, <1>6, <1>8
  <2> QED BY <2>1 DEF CountersTrue
<1> QED BY <1>3, <1>6, <1>7, <1>9

\* What serves a post either changes nothing or takes its message.
LEMMA ServedIs ==
  ASSUME NEW h \in Members, NEW post, NEW paid \in BOOLEAN, NEW written \in BOOLEAN
  PROVE  \/ Served(h, post, paid, written) = [room |-> room, rows |-> rows]
         \/ /\ Fits(h, post)
            /\ Served(h, post, paid, written)
                 = [room |-> rememberMessage(room, [sender |-> h, text |-> post.text]),
                    rows |-> [rows EXCEPT !.log = Append(@, [sender |-> h, text |-> post.text])]]
BY DEF Served, Remembered

LEMMA RoomInitInv == RoomInit => RoomInv
<1> SUFFICES ASSUME RoomInit PROVE RoomInv
  OBVIOUS
<1>1. NoSender(0) \in [Members -> Nat] /\ (\A h \in Members : NoSender(0)[h] = 0)
  BY DEF NoSender
<1>2. << >> \in Seq(Message) /\ Len(<< >>) = 0
  OBVIOUS
<1>3. /\ room.log = << >> /\ room.read = NoSender(0) /\ room.unread = NoSender(0)
      /\ room.stored = NoSender(0) /\ rows.log = << >> /\ rows.read = NoSender(0)
  BY DEF RoomInit
<1>4. RoomType
  <2>1. room \in Room /\ rows \in Rows
    BY <1>1, <1>2 DEF RoomInit, Room, Rows
  <2>2. panel \in Panel
    BY DEF RoomInit, Panel
  <2>3. texts \in 0..MaxTexts /\ lost \in [1..MaxTexts -> Nat]
    BY RoomAssumption DEF RoomInit
  <2> QED BY <2>1, <2>2, <2>3 DEF RoomType
<1>5. InTheRows
  BY <1>1, <1>2, <1>3 DEF InTheRows
<1>6. CountersTrue
  <2>1. ASSUME NEW h \in Members
        PROVE  countUnread(<< >>, h, 0) = 0 /\ Of(<< >>, h) = 0
    <3>1. {i \in 1..Len(<< >>) : i > 0 /\ << >>[i].sender # h} = {}
          /\ {i \in 1..Len(<< >>) : << >>[i].sender = h} = {}
      BY <1>2
    <3> QED BY <3>1, FS_EmptySet DEF countUnread, Of
  <2> QED BY <1>1, <1>3, <2>1, RoomAssumption DEF CountersTrue
<1>7. MarksShown /\ OneSend
  BY <1>1, <1>3, RoomAssumption DEF RoomInit, MarksShown, OneSend
<1>8. Accounted
  <2>1. ASSUME NEW t \in 1..MaxTexts PROVE Copies(t) = 0 /\ lost[t] = 0 /\ ~Told(t)
    <3>1. {i \in 1..Len(rows.log) : rows.log[i].text = t} = {}
      BY <1>2, <1>3
    <3> QED BY <3>1, FS_EmptySet DEF RoomInit, Copies, Told
  <2> QED BY <2>1 DEF Accounted
<1> QED BY <1>4, <1>5, <1>6, <1>7, <1>8 DEF RoomInv

\* What the panel does by itself leaves the log as it is: its sends and its
\* marks are what is to show.
LEMMA PanelOnly ==
  ASSUME RoomInv, UNCHANGED <<room, rows>>, panel' \in Panel,
         texts' \in 0..MaxTexts, lost' \in [1..MaxTexts -> Nat], OneSend',
         panel.seen <= panel'.seen, \A seq \in panel'.marks : seq <= panel'.seen,
         \A t \in 1..MaxTexts : lost'[t] + (IF Told(t)' THEN 1 ELSE 0)
                                 = lost[t] + (IF Told(t) THEN 1 ELSE 0)
  PROVE  RoomInv'
<1>1. RoomType'
  BY DEF RoomInv, RoomType
<1>2. InTheRows' /\ CountersTrue'
  BY DEF RoomInv, InTheRows, CountersTrue
<1>3. MarksShown'
  <2>1. /\ room.read[You] \in Nat /\ rows.read[You] \in Nat
        /\ panel.seen \in Nat /\ panel'.seen \in Nat
    BY RoomAssumption DEF RoomInv, RoomType, Room, Rows, Panel
  <2>2. room.read[You] <= panel.seen /\ rows.read[You] <= panel.seen
    BY DEF RoomInv, MarksShown
  <2> QED BY <2>1, <2>2 DEF MarksShown
<1>4. Accounted'
  BY DEF RoomInv, Accounted, Copies
<1> QED BY <1>1, <1>2, <1>3, <1>4 DEF RoomInv

\* ... and what touches no send keeps the sends.
LEMMA NoSendMoves ==
  ASSUME RoomInv, UNCHANGED <<room, rows, texts, lost>>, panel' \in Panel,
         panel'.posts = panel.posts, panel'.draft = panel.draft, panel'.heard = panel.heard,
         panel.seen <= panel'.seen, \A seq \in panel'.marks : seq <= panel'.seen
  PROVE  RoomInv'
<1>1. OneSend'
  BY DEF RoomInv, OneSend
<1>2. \A t \in 1..MaxTexts : Told(t)' = Told(t)
  BY DEF Told
<1> QED BY <1>1, <1>2, PanelOnly DEF RoomInv, RoomType

LEMMA LoadingType ==
  ASSUME panel \in Panel, room \in Room, NEW before \in Nat
  PROVE  /\ Loading(panel, before) \in Panel
         /\ \A field \in {"draft", "posts", "hi", "marks", "marked", "turn", "seen", "heard"} :
              Loading(panel, before)[field] = panel[field]
<1> DEFINE now == [newest |-> TRUE, before |-> before,
                   hi |-> IF before = 0 THEN Len(room.log) ELSE before - 1]
           older == {[load EXCEPT !.newest = FALSE] : load \in panel.loads}
<1>1. Len(room.log) \in Nat
  BY DEF Room
<1>2. now \in Load
  BY <1>1 DEF Load
<1>3. older \in SUBSET Load
  <2>1. \A load \in panel.loads : [load EXCEPT !.newest = FALSE] \in Load
    BY DEF Panel, Load
  <2> QED BY <2>1
<1>4. Loading(panel, before)
        = [panel EXCEPT !.before = before, !.loads = older \cup {now}]
  BY DEF Loading, Panel
<1>5. older \cup {now} \in SUBSET Load
  BY <1>2, <1>3
<1> HIDE DEF older, now
<1> QED BY <1>4, <1>5 DEF Panel

LEMMA PanelTypes ==
  ASSUME RoomInv
  PROVE  /\ panel \in Panel /\ room \in Room /\ rows \in Rows /\ texts \in 0..MaxTexts
         /\ lost \in [1..MaxTexts -> Nat]
         /\ panel.posts \in SUBSET Post /\ panel.loads \in SUBSET Load
         /\ panel.draft \in Nat /\ panel.seen \in Nat /\ panel.hi \in Nat
         /\ panel.heard \in SUBSET Nat /\ panel.marks \in SUBSET Nat /\ panel.turn \in Nat
         /\ panel.before \in Nat /\ panel.marked \in Nat
         /\ \A seq \in panel.marks : seq <= panel.seen
BY DEF RoomInv, RoomType, Panel, MarksShown

LEMMA LoadsKeep ==
  ASSUME RoomInv, NEW before \in Nat, panel' = Loading(panel, before),
         UNCHANGED <<room, rows, texts, lost>>
  PROVE  RoomInv'
<1>1. /\ panel' \in Panel /\ panel'.posts = panel.posts /\ panel'.draft = panel.draft
      /\ panel'.heard = panel.heard /\ panel'.seen = panel.seen /\ panel'.marks = panel.marks
  BY PanelTypes, LoadingType
<1> QED BY <1>1, PanelTypes, NoSendMoves

LEMMA LoadedKeeps ==
  ASSUME RoomInv, NEW load \in panel.loads, Loaded(load)
  PROVE  RoomInv'
<1> DEFINE left == panel.loads \ {load}
           seen == IF load.hi > panel.seen THEN load.hi ELSE panel.seen
<1>1. load.hi \in Nat /\ load.newest \in BOOLEAN
  BY PanelTypes DEF Load
<1>2. ToMark(load) \in SUBSET Nat /\ seen \in Nat /\ panel.seen <= seen /\ left \in SUBSET Load
  BY <1>1, PanelTypes DEF ToMark
<1>3. \A seq \in ToMark(load) : seq <= seen
  BY <1>1, <1>2, PanelTypes DEF ToMark
<1>4. CASE ~IsCurrent(load)
  <2>1. panel' = [panel EXCEPT !.loads = left]
    BY <1>4 DEF Loaded
  <2> HIDE DEF left
  <2>2. /\ panel' \in Panel /\ panel'.posts = panel.posts /\ panel'.draft = panel.draft
        /\ panel'.heard = panel.heard /\ panel'.seen = panel.seen /\ panel'.marks = panel.marks
    BY <1>2, <2>1, PanelTypes DEF Panel
  <2> QED BY <2>2, PanelTypes, NoSendMoves DEF Loaded
<1>5. CASE IsCurrent(load)
  <2>1. panel' = [[panel EXCEPT !.loads = left]
                    EXCEPT !.hi = load.hi, !.seen = IF load.hi > @ THEN load.hi ELSE @,
                           !.marks = ToMark(load)]
    BY <1>5 DEF Loaded
  <2> DEFINE marks == ToMark(load)
  <2>2. panel' = [panel EXCEPT !.loads = left, !.hi = load.hi, !.seen = seen, !.marks = marks]
    BY <2>1, PanelTypes DEF Panel
  <2> HIDE DEF left, seen, marks
  <2>3. marks \in SUBSET Nat
    BY <1>2 DEF marks
  <2>4. /\ panel' \in Panel /\ panel'.posts = panel.posts /\ panel'.draft = panel.draft
        /\ panel'.heard = panel.heard /\ panel'.seen = seen /\ panel'.marks = marks
    BY <1>1, <1>2, <2>2, <2>3, PanelTypes DEF Panel
  <2>5. \A seq \in panel'.marks : seq <= panel'.seen
    BY <1>3, <2>4 DEF marks
  <2> QED BY <1>2, <2>4, <2>5, NoSendMoves DEF Loaded
<1> QED BY <1>4, <1>5

LEMMA TypeKeeps == ASSUME RoomInv, Type PROVE RoomInv'
<1>1. /\ texts' = texts + 1 /\ panel' = [panel EXCEPT !.draft = texts + 1]
      /\ UNCHANGED <<room, rows, lost>> /\ texts' \in 0..MaxTexts /\ texts + 1 \in Nat
      /\ panel.draft = 0
  BY PanelTypes, RoomAssumption DEF Type
<1>2. /\ panel' \in Panel /\ panel'.posts = panel.posts /\ panel'.draft = texts + 1
      /\ panel'.heard = panel.heard /\ panel'.seen = panel.seen /\ panel'.marks = panel.marks
  BY <1>1, PanelTypes DEF Panel
<1>3. panel.posts = {}
  BY <1>1 DEF RoomInv, OneSend
<1>4. OneSend'
  BY <1>1, <1>2, <1>3, PanelTypes DEF RoomInv, OneSend
<1>5. \A t \in 1..MaxTexts : Told(t)' = Told(t)
  BY <1>2 DEF Told
<1> QED BY <1>1, <1>2, <1>4, <1>5, PanelTypes, PanelOnly

\* A send: the posts move, the draft stays.
LEMMA PostsMove ==
  ASSUME RoomInv, NEW posts \in SUBSET Post, panel' = [panel EXCEPT !.posts = posts]
  PROVE  /\ panel' \in Panel /\ panel'.posts = posts /\ panel'.draft = panel.draft
         /\ panel'.heard = panel.heard /\ panel'.seen = panel.seen /\ panel'.marks = panel.marks
BY PanelTypes DEF Panel

\* One that comes or moves leaves one, of the draft.
LEMMA OnePost ==
  ASSUME RoomInv, panel.draft # 0, NEW post \in Post, post.text = panel.draft,
         panel'.posts \subseteq {post}, panel'.draft = panel.draft, panel'.heard = panel.heard,
         texts' = texts
  PROVE  OneSend'
BY DEF RoomInv, OneSend

LEMMA ThePost ==
  ASSUME RoomInv, NEW post \in panel.posts
  PROVE  /\ post \in Post /\ post.text = panel.draft /\ panel.draft # 0
         /\ panel.draft \in 1..MaxTexts /\ panel.posts = {post}
         /\ panel.draft \notin panel.heard
<1>1. /\ post \in Post /\ post.text = panel.draft /\ panel.draft # 0 /\ panel.draft <= texts
      /\ panel.draft \notin panel.heard
  BY PanelTypes DEF RoomInv, OneSend
<1>2. panel.posts = {post}
  BY DEF RoomInv, OneSend
<1>3. panel.draft \in 1..MaxTexts
  BY <1>1, PanelTypes, RoomAssumption
<1> QED BY <1>1, <1>2, <1>3

LEMMA SendKeeps == ASSUME RoomInv, Send PROVE RoomInv'
<1>1. panel.draft # 0 /\ panel.posts = {} /\ UNCHANGED <<room, rows, texts, lost>>
  BY DEF Send, MaySend
<1> DEFINE post == [step |-> "reading", text |-> panel.draft, turn |-> panel.turn, seq |-> 0,
                    try |-> 0, from |-> panel.before]
<1>2. Cardinality(panel.posts) = 0
  BY <1>1, FS_EmptySet
<1>3. post \in Post /\ post.text = panel.draft /\ post.step # "stored"
  BY PanelTypes DEF Post
<1>4. panel' = [panel EXCEPT !.posts = {post}]
  BY <1>1, <1>2, PanelTypes DEF Send, Panel
<1> HIDE DEF post
<1>5. /\ panel' \in Panel /\ panel'.posts = {post} /\ panel'.draft = panel.draft
      /\ panel'.heard = panel.heard /\ panel'.seen = panel.seen /\ panel'.marks = panel.marks
  BY <1>3, <1>4, PostsMove
<1>6. OneSend'
  BY <1>1, <1>3, <1>5, OnePost
<1>7. \A t \in 1..MaxTexts : Told(t)' = Told(t)
  BY <1>1, <1>3, <1>5 DEF Told
<1> QED BY <1>1, <1>5, <1>6, <1>7, PanelTypes, PanelOnly

LEMMA SealedKeeps ==
  ASSUME RoomInv, NEW post \in panel.posts, Sealed(post) PROVE RoomInv'
<1> DEFINE seq == Len(room.log) + 1
           sent == [post EXCEPT !.step = "posting", !.seq = seq]
<1>1. seq \in Nat
  BY PanelTypes DEF Room
<1> HIDE DEF seq
<1>2. sent \in Post /\ sent.text = post.text /\ sent.step # "stored"
  BY <1>1, ThePost DEF Post
<1>3. /\ panel' = [panel EXCEPT !.posts = (panel.posts \ {post}) \cup {sent}]
      /\ post.step = "reading" /\ UNCHANGED <<room, rows, texts, lost>>
  BY PanelTypes DEF Sealed, Panel, seq
<1> HIDE DEF sent
<1>4. panel.posts = {post} /\ (panel.posts \ {post}) \cup {sent} = {sent}
  BY ThePost
<1>5. /\ panel' \in Panel /\ panel'.posts = {sent} /\ panel'.draft = panel.draft
      /\ panel'.heard = panel.heard /\ panel'.seen = panel.seen /\ panel'.marks = panel.marks
  BY <1>2, <1>3, <1>4, PostsMove
<1>6. OneSend'
  BY <1>2, <1>3, <1>5, ThePost, OnePost
<1>7. \A t \in 1..MaxTexts : Told(t)' = Told(t)
  BY <1>2, <1>3, <1>4, <1>5 DEF Told
<1> QED BY <1>3, <1>5, <1>6, <1>7, PanelTypes, PanelOnly

LEMMA FailedKeeps == ASSUME RoomInv, Failed PROVE RoomInv'
<1>1. UNCHANGED <<room, rows, texts, lost>>
  BY DEF Failed
<1>2. ASSUME NEW post \in panel.posts, post.step # "stored",
             panel' = [panel EXCEPT !.posts = @ \ {post}]
      PROVE  RoomInv'
  <2>1. panel' = [panel EXCEPT !.posts = panel.posts \ {post}] /\ panel.posts \ {post} = {}
    BY <1>2, PanelTypes, ThePost DEF Panel
  <2>2. /\ panel' \in Panel /\ panel'.posts = {} /\ panel'.draft = panel.draft
        /\ panel'.heard = panel.heard /\ panel'.seen = panel.seen /\ panel'.marks = panel.marks
    BY <2>1, PostsMove
  <2>3. OneSend'
    BY <1>1, <2>2, ThePost, OnePost
  <2>4. \A t \in 1..MaxTexts : Told(t)' = Told(t)
    BY <1>2, <2>2, ThePost DEF Told
  <2> QED BY <1>1, <2>2, <2>3, <2>4, PanelTypes, PanelOnly
<1>3. CASE panel' = [panel EXCEPT !.marks = {}]
  <2>1. /\ panel' \in Panel /\ panel'.posts = panel.posts /\ panel'.draft = panel.draft
        /\ panel'.heard = panel.heard /\ panel'.seen = panel.seen /\ panel'.marks = {}
    BY <1>3, PanelTypes DEF Panel
  <2> QED BY <1>1, <2>1, PanelTypes, NoSendMoves
<1> QED BY <1>2, <1>3 DEF Failed

\* An answer that never arrives leaves its copy, and the draft to send again.
LEMMA LostKeeps ==
  ASSUME RoomInv, NEW post \in panel.posts, SendLost(post) PROVE RoomInv'
<1>1. /\ post.step = "stored" /\ UNCHANGED <<room, rows, texts>>
      /\ lost' = [lost EXCEPT ![post.text] = @ + 1]
  BY DEF SendLost
<1>2. panel' = [panel EXCEPT !.posts = panel.posts \ {post}] /\ panel.posts \ {post} = {}
  BY PanelTypes, ThePost DEF SendLost, Panel
<1>3. /\ panel' \in Panel /\ panel'.posts = {} /\ panel'.draft = panel.draft
      /\ panel'.heard = panel.heard /\ panel'.seen = panel.seen /\ panel'.marks = panel.marks
  BY <1>2, PostsMove
<1>4. OneSend'
  BY <1>1, <1>3, ThePost, OnePost
<1>5. lost' \in [1..MaxTexts -> Nat]
  BY <1>1, ThePost, PanelTypes
<1>6. ASSUME NEW t \in 1..MaxTexts
      PROVE  lost'[t] + (IF Told(t)' THEN 1 ELSE 0) = lost[t] + (IF Told(t) THEN 1 ELSE 0)
  <2>1. CASE t = post.text
    <3>1. Told(t) /\ ~Told(t)'
      BY <1>1, <1>3, <2>1, ThePost DEF Told
    <3>2. lost'[t] = lost[t] + 1 /\ lost[t] \in Nat
      BY <1>1, <2>1, PanelTypes
    <3> QED BY <3>1, <3>2
  <2>2. CASE t # post.text
    <3>1. Told(t)' = Told(t)
      BY <1>3, <2>2, ThePost DEF Told
    <3>2. lost'[t] = lost[t]
      BY <1>1, <2>2, PanelTypes
    <3> QED BY <3>1, <3>2
  <2> QED BY <2>1, <2>2
<1> QED BY <1>1, <1>3, <1>4, <1>5, <1>6, PanelTypes, PanelOnly

\* One that arrives clears the draft: the copy is the one that was heard of.
LEMMA HeardKeeps ==
  ASSUME RoomInv, NEW post \in panel.posts, SendHeard(post) PROVE RoomInv'
<1> DEFINE p == IF post.from # 0 /\ panel.before = 0 THEN panel ELSE Loading(panel, 0)
           before == IF post.from = 0 THEN panel.before ELSE 0
           heard == panel.heard \cup {post.text}
<1>1. /\ p \in Panel /\ p.posts = panel.posts /\ p.heard = panel.heard /\ p.seen = panel.seen
      /\ p.marks = panel.marks
  BY PanelTypes, LoadingType
<1>2. /\ post.step = "stored" /\ UNCHANGED <<room, rows, texts, lost>>
      /\ panel' = [p EXCEPT !.draft = 0, !.posts = @ \ {post}, !.heard = @ \cup {post.text},
                           !.before = before]
  BY DEF SendHeard
<1> HIDE DEF p
<1>3. p.posts \ {post} = {} /\ before \in Nat /\ heard \in SUBSET Nat
  BY <1>1, PanelTypes, ThePost
<1>4. panel' = [p EXCEPT !.draft = 0, !.posts = {}, !.heard = heard, !.before = before]
  BY <1>1, <1>2, <1>3 DEF Panel
<1> HIDE DEF before, heard
<1>5. /\ panel' \in Panel /\ panel'.posts = {} /\ panel'.draft = 0 /\ panel'.heard = heard
      /\ panel'.seen = panel.seen /\ panel'.marks = panel.marks
  BY <1>1, <1>3, <1>4 DEF Panel
<1>6. post.text \in 1..texts /\ 0 \notin heard /\ panel.heard \subseteq 1..texts
  BY PanelTypes, ThePost DEF RoomInv, OneSend, heard
<1>7. OneSend'
  BY <1>2, <1>5, <1>6, PanelTypes DEF OneSend, heard
<1>8. \A t \in 1..MaxTexts : Told(t)' = Told(t)
  BY <1>2, <1>5, ThePost DEF Told, heard
<1> QED BY <1>2, <1>5, <1>7, <1>8, PanelTypes, PanelOnly

\* What is read stays under what was shown as long as the marks do.
LEMMA MarksStay ==
  ASSUME RoomInv, room'.read = room.read, rows'.read = rows.read,
         panel'.seen = panel.seen, panel'.marks = panel.marks
  PROVE  MarksShown'
BY DEF RoomInv, MarksShown

LEMMA SendServedKeeps ==
  ASSUME RoomInv, NEW post \in panel.posts, SendServed(post) PROVE RoomInv'
<1>1. /\ post.step = "posting" /\ UNCHANGED <<texts, lost>>
  BY DEF SendServed
<1>2. PICK paid \in BOOLEAN, written \in BOOLEAN :
        LET served == Served(You, post, paid, written)
            taken  == Len(served.room.log) > Len(room.log)
        IN  /\ room' = served.room /\ rows' = served.rows
            /\ panel' = [panel EXCEPT !.posts =
                 (@ \ {post}) \cup IF taken THEN {[post EXCEPT !.step = "stored"]} ELSE {}]
  BY DEF SendServed
<1> DEFINE m == [sender |-> You, text |-> post.text]
           kept == [post EXCEPT !.step = "stored"]
<1>3. m \in Message /\ m.sender = You /\ m.text = panel.draft /\ panel.draft \in 1..MaxTexts
  BY ThePost, PanelTypes, RoomAssumption DEF Message
<1>4. kept \in Post /\ kept.text = panel.draft /\ kept.step = "stored"
  BY ThePost DEF Post
<1>5. panel.posts = {post} /\ panel.draft # 0 /\ panel.draft \notin panel.heard
  BY ThePost
<1>6. CASE Served(You, post, paid, written) = [room |-> room, rows |-> rows]
  <2>1. room' = room /\ rows' = rows /\ ~(Len(room.log) > Len(room.log))
    BY <1>2, <1>6, PanelTypes DEF Room
  <2>2. panel' = [panel EXCEPT !.posts = (panel.posts \ {post}) \cup {}]
    BY <1>2, <1>6, <2>1, PanelTypes DEF Panel
  <2>3. (panel.posts \ {post}) \cup {} = {}
    BY <1>5
  <2>4. /\ panel' \in Panel /\ panel'.posts = {} /\ panel'.draft = panel.draft
        /\ panel'.heard = panel.heard /\ panel'.seen = panel.seen /\ panel'.marks = panel.marks
    BY <2>2, <2>3, PostsMove
  <2>5. OneSend'
    BY <1>1, <1>5, <2>4, ThePost, OnePost
  <2>6. \A t \in 1..MaxTexts : Told(t)' = Told(t)
    BY <1>1, <1>5, <2>4 DEF Told
  <2> QED BY <1>1, <2>1, <2>4, <2>5, <2>6, PanelTypes, PanelOnly
<1>7. CASE /\ Fits(You, post)
           /\ Served(You, post, paid, written)
                = [room |-> rememberMessage(room, m), rows |-> [rows EXCEPT !.log = Append(@, m)]]
  <2>1. /\ room' = rememberMessage(room, m) /\ rows' = [rows EXCEPT !.log = Append(@, m)]
        /\ room.stored[m.sender] < Quota
    BY <1>2, <1>3, <1>7 DEF Fits
  <2> HIDE DEF m
  <2>2. /\ room' \in Room /\ rows' \in Rows /\ InTheRows' /\ CountersTrue'
        /\ room'.read = room.read /\ rows'.read = rows.read
        /\ rows'.log = Append(rows.log, m)
    BY <1>3, <2>1, Taken
  <2>3. Len(room'.log) > Len(room.log)
    <3>1. room'.log = Append(rows.log, m) /\ rows.log = room.log /\ room.log \in Seq(Message)
      BY <2>2, PanelTypes DEF InTheRows, RoomInv, Room
    <3> QED BY <1>3, <3>1, Appended
  <2>4. panel' = [panel EXCEPT !.posts = (@ \ {post}) \cup {kept}]
    BY <1>2, <2>3
  <2> HIDE DEF kept
  <2>5. panel' = [panel EXCEPT !.posts = (panel.posts \ {post}) \cup {kept}]
        /\ (panel.posts \ {post}) \cup {kept} = {kept}
    BY <1>5, <2>4, PanelTypes DEF Panel
  <2>6. /\ panel' \in Panel /\ panel'.posts = {kept} /\ panel'.draft = panel.draft
        /\ panel'.heard = panel.heard /\ panel'.seen = panel.seen /\ panel'.marks = panel.marks
    BY <1>4, <2>5, PostsMove
  <2>7. OneSend'
    BY <1>1, <1>4, <1>5, <2>6, OnePost
  <2>8. Accounted'
    <3>1. ASSUME NEW t \in 1..MaxTexts
          PROVE  Copies(t)' = lost'[t] + (IF Told(t)' THEN 1 ELSE 0)
      <4>1. /\ Copies(t) = lost[t] + (IF Told(t) THEN 1 ELSE 0) /\ lost' = lost
            /\ lost[t] \in Nat
        BY <1>1, PanelTypes DEF RoomInv, Accounted
      <4>2. Copies(t)' = Copies(t) + (IF t = m.text THEN 1 ELSE 0)
        <5>1. rows \in Rows /\ t \in Nat
          BY PanelTypes
        <5> QED BY <1>3, <2>2, <5>1, CopiesOneMore
      <4>3. CASE t = m.text
        <5>1. ~Told(t)
          BY <1>1, <1>3, <1>5, <4>3 DEF Told
        <5>2. Told(t)'
          BY <1>3, <1>4, <2>6, <4>3 DEF Told
        <5> QED BY <4>1, <4>2, <4>3, <5>1, <5>2
      <4>4. CASE t # m.text
        <5>1. Told(t)' = Told(t)
          BY <1>1, <1>3, <1>4, <1>5, <2>6, <4>4 DEF Told
        <5>2. Copies(t)' = Copies(t)
          BY <4>1, <4>2, <4>4
        <5> QED BY <4>1, <5>1, <5>2
      <4> QED BY <4>3, <4>4
    <3> QED BY <3>1 DEF Accounted
  <2>9. RoomType' /\ MarksShown'
    BY <1>1, <2>2, <2>6, PanelTypes, MarksStay DEF RoomType
  <2> QED BY <2>2, <2>7, <2>8, <2>9 DEF RoomInv
<1> QED BY <1>6, <1>7, ServedIs, RoomAssumption

\* Another member's message is none of the texts typed here.
LEMMA OtherKeeps ==
  ASSUME RoomInv, NEW h \in Members, OtherWrites(h) PROVE RoomInv'
<1> DEFINE post == [text |-> 0, seq |-> Len(room.log) + 1, turn |-> room.turn]
           m == [sender |-> h, text |-> 0]
<1>0. post.text = 0
  OBVIOUS
<1>1. PICK paid \in BOOLEAN, written \in BOOLEAN :
        /\ Served(h, post, paid, written).room # room
        /\ room' = Served(h, post, paid, written).room
        /\ rows' = Served(h, post, paid, written).rows
        /\ UNCHANGED <<panel, texts, lost>>
  BY Zenon DEF OtherWrites
<1> HIDE DEF post
<1>2. /\ Fits(h, post)
      /\ Served(h, post, paid, written)
           = [room |-> rememberMessage(room, m), rows |-> [rows EXCEPT !.log = Append(@, m)]]
  <2>0. m = [sender |-> h, text |-> post.text]
    BY <1>0
  <2> HIDE DEF m
  <2>1. \/ Served(h, post, paid, written) = [room |-> room, rows |-> rows]
        \/ /\ Fits(h, post)
           /\ Served(h, post, paid, written)
                = [room |-> rememberMessage(room, m), rows |-> [rows EXCEPT !.log = Append(@, m)]]
    BY <2>0, ServedIs
  <2>2. Served(h, post, paid, written) # [room |-> room, rows |-> rows]
    BY <1>1
  <2> QED BY <2>1, <2>2
<1>3. m \in Message /\ m.sender = h /\ m.text = 0
  BY DEF Message
<1>4. /\ room' = rememberMessage(room, m) /\ rows' = [rows EXCEPT !.log = Append(@, m)]
      /\ room.stored[m.sender] < Quota
  <2>1. room.stored[m.sender] < Quota
    BY <1>2, <1>3 DEF Fits
  <2> HIDE DEF m
  <2>2. /\ Served(h, post, paid, written).room = rememberMessage(room, m)
        /\ Served(h, post, paid, written).rows = [rows EXCEPT !.log = Append(@, m)]
    BY <1>2
  <2> QED BY <1>1, <2>1, <2>2
<1> HIDE DEF m
<1>5. /\ room' \in Room /\ rows' \in Rows /\ InTheRows' /\ CountersTrue'
      /\ room'.read = room.read /\ rows'.read = rows.read
      /\ rows'.log = Append(rows.log, m)
  BY <1>3, <1>4, Taken
<1>6. Accounted'
  <2>1. ASSUME NEW t \in 1..MaxTexts
        PROVE  Copies(t)' = Copies(t) /\ Told(t)' = Told(t) /\ lost'[t] = lost[t]
    <3>1. rows \in Rows /\ t \in Nat /\ t # m.text
      BY <1>3, PanelTypes
    <3>2. Copies(t) \in Nat /\ Copies(t)' = Copies(t) + (IF t = m.text THEN 1 ELSE 0)
      BY <1>3, <1>5, <3>1, CopiesOneMore
    <3>3. Copies(t)' = Copies(t)
      BY <3>1, <3>2
    <3> QED BY <1>1, <3>3 DEF Told
  <2> QED BY <2>1 DEF RoomInv, Accounted
<1>7. RoomType' /\ MarksShown' /\ OneSend'
  <2>1. MarksShown' /\ OneSend'
    BY <1>1, <1>5, MarksStay DEF RoomInv, OneSend
  <2> QED BY <1>1, <1>5, <2>1, PanelTypes DEF RoomType
<1> QED BY <1>5, <1>6, <1>7 DEF RoomInv

LEMMA ReadKeeps ==
  ASSUME RoomInv, NEW seq \in panel.marks, ReadServed(seq) PROVE RoomInv'
<1> DEFINE to == IF seq > Len(room.log) THEN Len(room.log) ELSE seq
           moves == to > room.read[You]
           counted == countUnread(room.log, You, to)
<1>1. PICK written \in BOOLEAN :
        /\ room' = IF moves THEN [room EXCEPT !.read[You] = to, !.unread[You] = counted] ELSE room
        /\ rows' = IF moves /\ written THEN [rows EXCEPT !.read[You] = to] ELSE rows
  BY DEF ReadServed
<1>2. /\ panel' = [panel EXCEPT !.marks = {}, !.marked = IF seq > @ THEN seq ELSE @]
      /\ UNCHANGED <<texts, lost>>
  BY DEF ReadServed
<1>3. /\ seq \in Nat /\ Len(room.log) \in Nat /\ seq <= panel.seen /\ panel.seen \in Nat
      /\ room.log \in Seq(Message) /\ room.read \in [Members -> Nat]
      /\ room.unread \in [Members -> Nat] /\ rows.read \in [Members -> Nat]
  BY PanelTypes DEF Room, Rows
<1>4. to \in Nat /\ to <= Len(room.log) /\ to <= panel.seen
  BY <1>3
<1> HIDE DEF to
<1>5. counted \in Nat
  BY <1>3, <1>4, UnreadType, RoomAssumption
<1> DEFINE read == [room.read EXCEPT ![You] = to]
           unread == [room.unread EXCEPT ![You] = counted]
           rowread == [rows.read EXCEPT ![You] = to]
<1>6. /\ read \in [Members -> Nat] /\ unread \in [Members -> Nat] /\ rowread \in [Members -> Nat]
      /\ \A h \in Members : read[h] = (IF h = You THEN to ELSE room.read[h])
                        /\ unread[h] = (IF h = You THEN counted ELSE room.unread[h])
                        /\ rowread[h] = (IF h = You THEN to ELSE rows.read[h])
  BY <1>3, <1>4, <1>5
<1>7. /\ room' = IF moves THEN [room EXCEPT !.read = read, !.unread = unread] ELSE room
      /\ rows' = IF moves /\ written THEN [rows EXCEPT !.read = rowread] ELSE rows
  BY <1>1, PanelTypes DEF Room, Rows
<1> HIDE DEF read, unread, rowread, counted
<1>8. /\ room' \in Room /\ rows' \in Rows
      /\ room'.log = room.log /\ room'.stored = room.stored /\ rows'.log = rows.log
      /\ room'.read = (IF moves THEN read ELSE room.read)
      /\ room'.unread = (IF moves THEN unread ELSE room.unread)
      /\ rows'.read = (IF moves /\ written THEN rowread ELSE rows.read)
  BY <1>6, <1>7, PanelTypes DEF Room, Rows
<1>9. InTheRows'
  <2>1. ASSUME NEW h \in Members
        PROVE  room'.read[h] <= Len(room.log) /\ rows'.read[h] <= Len(room.log)
    BY <1>4, <1>6, <1>8 DEF RoomInv, InTheRows
  <2> QED BY <1>8, <2>1 DEF RoomInv, InTheRows
<1>10. CountersTrue'
  <2>1. ASSUME NEW h \in Members
        PROVE  room'.unread[h] = countUnread(room.log, h, room'.read[h])
    <3>1. room.unread[h] = countUnread(room.log, h, room.read[h])
      BY DEF RoomInv, CountersTrue
    <3>2. CASE moves
      <4> HIDE DEF moves
      <4> QED BY <1>6, <1>8, <3>1, <3>2 DEF counted
    <3>3. CASE ~moves
      <4> HIDE DEF moves
      <4> QED BY <1>8, <3>1, <3>3
    <3> QED BY <3>2, <3>3
  <2> QED BY <1>8, <2>1 DEF RoomInv, CountersTrue
<1> DEFINE marked == IF seq > panel.marked THEN seq ELSE panel.marked
<1>11. panel' = [panel EXCEPT !.marks = {}, !.marked = marked] /\ marked \in Nat
  BY <1>2, <1>3, PanelTypes DEF Panel
<1> HIDE DEF marked
<1>12. /\ panel' \in Panel /\ panel'.posts = panel.posts /\ panel'.draft = panel.draft
       /\ panel'.heard = panel.heard /\ panel'.seen = panel.seen /\ panel'.marks = {}
  BY <1>11, PanelTypes DEF Panel
<1>13. MarksShown'
  <2>1. room'.read[You] <= panel.seen /\ rows'.read[You] <= panel.seen
    BY <1>4, <1>6, <1>8, RoomAssumption DEF RoomInv, MarksShown
  <2> QED BY <1>12, <2>1 DEF MarksShown
<1>14. OneSend' /\ Accounted'
  BY <1>2, <1>8, <1>12 DEF RoomInv, OneSend, Accounted, Copies, Told
<1> QED BY <1>2, <1>8, <1>9, <1>10, <1>12, <1>13, <1>14, PanelTypes DEF RoomInv, RoomType

\* A restart makes the counters again from the rows, which hold it all.
LEMMA RestartKeeps == ASSUME RoomInv, PressRestart PROVE RoomInv'
<1> DEFINE unread == [h \in Members |-> countUnread(rows.log, h, rows.read[h])]
           stored == [h \in Members |-> Of(rows.log, h)]
<1>1. /\ room' = [room EXCEPT !.log = rows.log, !.read = rows.read, !.unread = unread,
                             !.stored = stored]
      /\ UNCHANGED <<rows, panel, texts, lost>>
  BY DEF PressRestart
<1>2. rows.log \in Seq(Message) /\ rows.read \in [Members -> Nat] /\ rows.log = room.log
  BY PanelTypes DEF Rows, RoomInv, InTheRows
<1>3. unread \in [Members -> Nat] /\ stored \in [Members -> Nat]
  BY <1>2, UnreadType, OfType
<1>4. \A h \in Members : unread[h] = countUnread(rows.log, h, rows.read[h])
                      /\ stored[h] = Of(rows.log, h)
  OBVIOUS
<1> HIDE DEF unread, stored
<1>5. /\ room' \in Room /\ room'.log = rows.log /\ room'.read = rows.read
      /\ room'.unread = unread /\ room'.stored = stored
  BY <1>1, <1>2, <1>3, PanelTypes DEF Room
<1>6. InTheRows'
  BY <1>1, <1>2, <1>5 DEF RoomInv, InTheRows
<1>7. CountersTrue'
  BY <1>1, <1>4, <1>5 DEF RoomInv, CountersTrue
<1>8. MarksShown'
  BY <1>1, <1>5 DEF RoomInv, MarksShown
<1>9. OneSend' /\ Accounted'
  BY <1>1 DEF RoomInv, OneSend, Accounted, Copies, Told
<1> QED BY <1>1, <1>5, <1>6, <1>7, <1>8, <1>9, PanelTypes DEF RoomInv, RoomType

LEMMA PhaseKeeps == ASSUME RoomInv, Silence \/ NextTurn PROVE RoomInv'
<1>1. /\ room' \in Room /\ room'.log = room.log /\ room'.read = room.read
      /\ room'.unread = room.unread /\ room'.stored = room.stored
      /\ UNCHANGED <<rows, panel, texts, lost>>
  <2>1. CASE Silence
    BY <2>1, PanelTypes DEF Silence, Room
  <2>2. CASE NextTurn
    <3>1. room.turn + 1 \in Nat /\ room' = [room EXCEPT !.turn = room.turn + 1, !.open = TRUE]
      BY <2>2, PanelTypes DEF NextTurn, Room
    <3> QED BY <2>2, <3>1, PanelTypes DEF NextTurn, Room
  <2> QED BY <2>1, <2>2
<1>2. InTheRows' /\ CountersTrue' /\ MarksShown'
  BY <1>1 DEF RoomInv, InTheRows, CountersTrue, MarksShown
<1>3. OneSend' /\ Accounted'
  BY <1>1 DEF RoomInv, OneSend, Accounted, Copies, Told
<1> QED BY <1>1, <1>2, <1>3, PanelTypes DEF RoomInv, RoomType

LEMMA RoomStep == RoomInv /\ [RoomNext]_roomVars => RoomInv'
<1> SUFFICES ASSUME RoomInv, [RoomNext]_roomVars PROVE RoomInv'
  OBVIOUS
<1>1. CASE TurnRead
  <2>1. /\ panel' \in Panel /\ panel'.posts = panel.posts /\ panel'.draft = panel.draft
        /\ panel'.heard = panel.heard /\ panel'.seen = panel.seen /\ panel'.marks = panel.marks
        /\ UNCHANGED <<room, rows, texts, lost>>
    BY <1>1, PanelTypes DEF TurnRead, Panel, Room
  <2> QED BY <2>1, PanelTypes, NoSendMoves
<1>2. CASE Poll \/ Latest
  BY <1>2, LoadsKeep DEF Poll, Latest
<1>3. CASE Older
  <2>1. panel.hi - PageSize + 1 \in Nat
    BY <1>3, PanelTypes, RoomAssumption DEF Older
  <2> QED BY <1>3, <2>1, LoadsKeep DEF Older
<1>4. CASE Type \/ Send \/ Failed
  BY <1>4, TypeKeeps, SendKeeps, FailedKeeps
<1>5. ASSUME NEW post \in panel.posts,
             Sealed(post) \/ SendHeard(post) \/ SendLost(post) \/ SendServed(post)
      PROVE  RoomInv'
  BY <1>5, SealedKeeps, HeardKeeps, LostKeeps, SendServedKeeps
<1>6. ASSUME NEW load \in panel.loads, Loaded(load) PROVE RoomInv'
  BY <1>6, LoadedKeeps
<1>7. ASSUME NEW seq \in panel.marks, ReadServed(seq) PROVE RoomInv'
  BY <1>7, ReadKeeps
<1>8. ASSUME NEW h \in Members, OtherWrites(h) PROVE RoomInv'
  BY <1>8, OtherKeeps
<1>9. CASE PressRestart \/ Silence \/ NextTurn
  BY <1>9, RestartKeeps, PhaseKeeps
<1>10. CASE UNCHANGED roomVars
  <2>1. \A t \in 1..MaxTexts : Told(t)' = Told(t)
    BY <1>10 DEF roomVars, Told
  <2> QED BY <1>10, <2>1, PanelTypes, NoSendMoves DEF roomVars
<1> QED BY <1>1, <1>2, <1>3, <1>4, <1>5, <1>6, <1>7, <1>8, <1>9, <1>10 DEF RoomNext, PanelStep

\* send and handlePressSend: for every set of members and however many posts
\* are cut off, refused, tried again or lost with the server, a text is stored
\* once, and once more only for each answer that was lost.
THEOREM EveryTextOnce == RoomSpec => []SentOnce
<1>1. RoomInv => SentOnce
  <2> SUFFICES ASSUME RoomInv PROVE SentOnce
    OBVIOUS
  <2>1. ASSUME NEW t \in 1..MaxTexts PROVE Copies(t) <= 1 + lost[t]
    <3>1. Copies(t) = lost[t] + (IF Told(t) THEN 1 ELSE 0) /\ lost[t] \in Nat
      BY PanelTypes DEF RoomInv, Accounted
    <3> QED BY <3>1
  <2>2. ASSUME NEW t \in panel.heard PROVE Copies(t) > 0
    <3>1. t \in 1..MaxTexts /\ Told(t)
      BY PanelTypes, RoomAssumption DEF RoomInv, OneSend, Told
    <3>2. Copies(t) = lost[t] + (IF Told(t) THEN 1 ELSE 0) /\ lost[t] \in Nat
      BY <3>1, PanelTypes DEF RoomInv, Accounted
    <3> QED BY <3>1, <3>2
  <2> QED BY <2>1, <2>2 DEF SentOnce, OncePerSend, HeardIsKept
<1> QED BY <1>1, RoomInitInv, RoomStep, PTL DEF RoomSpec

\* rememberMessage and the restore: for every page size and quota, the badge and
\* the quota's counter say what a count of the log would say.
THEOREM CountersStayTrue == RoomSpec => []CountersTrue
<1>1. RoomInv => CountersTrue
  BY DEF RoomInv
<1> QED BY <1>1, RoomInitInv, RoomStep, PTL DEF RoomSpec

\* load's mark: whichever pages were asked for and whichever answers overtook
\* each other, no message is marked read that was not on the screen.
THEOREM OnlySeenIsRead == RoomSpec => []MarksAreSeen
<1>1. RoomInv => MarksAreSeen
  BY DEF RoomInv, MarksShown, MarksAreSeen
<1> QED BY <1>1, RoomInitInv, RoomStep, PTL DEF RoomSpec

-------------------------------------------------------------------------------
(* PressPins: every answer, however old, carries steps that were signed,   *)
(* and a press key that was signed is the signer's own.  A phone that has  *)
(* pinned nothing was never served a key, so what it believes it pinned.   *)

Numbers == 0..MaxHolders
Bound == [opener : {"seat", "reader"}, sig : Numbers, to : Numbers]
Placed == [room : Nat, by : Numbers]
Pin == [current : Numbers, pending : Numbers, history : SUBSET Numbers]

\* What the server may have answered: its steps are among the signed ones.
Answers(signed) ==
  {a \in [of : Nat, sign : Numbers, box : Numbers, boxBy : Numbers, chain : SUBSET signed,
          rooms : Nat] : a.boxBy \in {0, a.box}}

PhoneOK(phone, signed) ==
  /\ phone \in [pin : Pin, asks : BOOLEAN, answer : Answers(signed), mail : SUBSET Answers(signed)]
  /\ phone.pin.current = 0 =>
       phone.pin.pending = 0 /\ phone.pin.history = {} /\ phone.answer.sign = 0

PinsInv ==
  /\ seat \in [holder : Holders, sign : Numbers, box : Numbers, boxBy : Numbers,
               chain : SUBSET (Numbers \X Numbers)]
  /\ seat.sign \in {0, seat.holder} /\ seat.boxBy \in {0, seat.box}
  /\ rooms \in Seq(Bound) /\ lines \in Seq(Placed)
  /\ DOMAIN phones = Phones /\ phones = [d \in Phones |-> phones[d]]
  /\ \A d \in Phones : PhoneOK(phones[d], seat.chain)

-------------------------------------------------------------------------------
\* Signed steps lead on from where they led, and still do when more are signed.
LEMMA PathFrom == ASSUME NEW k \in Numbers, NEW links PROVE Path(k, k, links)
BY DEF Path

LEMMA PathOn ==
  ASSUME NEW a \in Numbers, NEW b \in Numbers, NEW c \in Numbers, NEW links,
         Path(a, b, links), Path(b, c, links)
  PROVE  Path(a, c, links)
BY DEF Path

LEMMA PathKept ==
  ASSUME NEW a, NEW b, NEW few, NEW links, few \subseteq links, Path(a, b, few)
  PROVE  Path(a, b, links)
BY DEF Path

\* A pin that moves without the table moves along the steps of the answer, and
\* the key it leaves is in its history.
LEMMA PinMoves ==
  ASSUME NEW pin \in Pin, NEW served \in Numbers, NEW links
  PROVE  LET new == pinSignKeys(pin, served, links)
         IN  /\ new \in Pin
             /\ pin.history \subseteq new.history
             /\ pin.current = 0 => new = [pin EXCEPT !.current = served]
             /\ pin.current # 0 => new.current # 0
             /\ pin.current \notin {0, new.current} =>
                  Path(pin.current, new.current, links) /\ pin.current \in new.history
<1> DEFINE walked == chainTo(pin.current, served, links)
           new == pinSignKeys(pin, served, links)
<1>0. /\ pin.current \in Numbers /\ pin.pending \in Numbers /\ pin.history \in SUBSET Numbers
      /\ pin = [current |-> pin.current, pending |-> pin.pending, history |-> pin.history]
  BY DEF Pin
<1>1. CASE pin.current = 0
  <2>1. new = [pin EXCEPT !.current = served]
    BY <1>1 DEF pinSignKeys
  <2>2. new = [current |-> served, pending |-> pin.pending, history |-> pin.history]
    BY <2>1, <1>0
  <2> QED BY <1>0, <1>1, <2>1, <2>2 DEF Pin
<1>2. CASE pin.current # 0 /\ served \in {0, pin.current}
  <2>1. new = [pin EXCEPT !.pending = 0]
    BY <1>2 DEF pinSignKeys
  <2>2. new = [current |-> pin.current, pending |-> 0, history |-> pin.history]
    BY <2>1, <1>0
  <2>3. 0 \in Numbers
    BY PinsAssumption DEF Numbers
  <2> QED BY <1>0, <1>2, <2>2, <2>3 DEF Pin
<1>3. CASE pin.current # 0 /\ served \notin {0, pin.current} /\ walked # {}
  <2>1. new = [current |-> served, pending |-> 0, history |-> pin.history \cup walked]
    BY <1>3 DEF pinSignKeys
  <2>2. PICK k \in Holders : Path(pin.current, k, links) /\ Path(k, served, links)
    BY <1>3 DEF chainTo
  <2>3. Holders \subseteq Numbers /\ pin.current \in Holders /\ 0 \in Numbers
    BY <1>0, <1>3, PinsAssumption DEF Holders, Numbers
  <2>4. Path(pin.current, served, links)
    BY <2>2, <2>3, <1>0, PathOn
  <2>5. pin.current \in walked /\ walked \subseteq Numbers
    BY <2>3, <2>4, <1>0, <1>3, PathFrom DEF chainTo
  <2> HIDE DEF walked
  <2>6. new \in Pin
    BY <2>1, <2>5, <2>3, <1>0 DEF Pin
  <2> QED BY <2>1, <2>4, <2>5, <2>6, <1>3
<1>4. CASE pin.current # 0 /\ served \notin {0, pin.current} /\ walked = {}
  <2>1. new = [pin EXCEPT !.pending = served]
    BY <1>4 DEF pinSignKeys
  <2>2. new = [current |-> pin.current, pending |-> served, history |-> pin.history]
    BY <2>1, <1>0
  <2> QED BY <1>0, <1>4, <2>2 DEF Pin
<1> QED BY <1>1, <1>2, <1>3, <1>4

LEMMA PinAccepted ==
  ASSUME NEW pin \in Pin, pin.current = 0 => pin.pending = 0
  PROVE  /\ acceptPin(pin) \in Pin
         /\ pin.history \subseteq acceptPin(pin).history
         /\ pin.current = 0 => acceptPin(pin) = pin
         /\ pin.current # 0 => acceptPin(pin).current # 0
         /\ pin.current # acceptPin(pin).current =>
              acceptPin(pin).current = pin.pending /\ pin.current \in acceptPin(pin).history
<1>0. /\ pin.current \in Numbers /\ pin.pending \in Numbers /\ pin.history \in SUBSET Numbers
      /\ 0 \in Numbers
  BY PinsAssumption DEF Pin, Numbers
<1>1. CASE pin.pending = 0
  BY <1>1 DEF acceptPin
<1>2. CASE pin.pending # 0
  <2>1. acceptPin(pin) = [current |-> pin.pending, pending |-> 0,
                          history |-> pin.history \cup {pin.current}]
    BY <1>2 DEF acceptPin
  <2> QED BY <1>0, <1>2, <2>1 DEF Pin
<1> QED BY <1>1, <1>2

-------------------------------------------------------------------------------
LEMMA PinsTypes ==
  ASSUME PinsInv, NEW d \in Phones
  PROVE  /\ phones[d] = [pin |-> phones[d].pin, asks |-> phones[d].asks,
                         answer |-> phones[d].answer, mail |-> phones[d].mail]
         /\ phones[d].pin \in Pin /\ phones[d].asks \in BOOLEAN
         /\ phones[d].answer \in Answers(seat.chain) /\ phones[d].mail \subseteq Answers(seat.chain)
BY DEF PinsInv, PhoneOK

LEMMA OneMore == ASSUME NEW S, NEW q \in Seq(S), NEW e \in S PROVE Append(q, e) \in Seq(S)
OBVIOUS

LEMMA PinsInit == PressInit => PinsInv
<1> SUFFICES ASSUME PressInit PROVE PinsInv
  OBVIOUS
<1>1. /\ 0 \in Numbers /\ 1 \in Numbers /\ 1 \in Holders /\ 0 \in Nat
  BY PinsAssumption DEF Numbers, Holders
<1>2. PICK keyed \in {0, 1} :
        seat = [holder |-> 1, sign |-> keyed, box |-> 0, boxBy |-> 0, chain |-> {}]
  BY DEF PressInit
<1>3. /\ seat \in [holder : Holders, sign : Numbers, box : Numbers, boxBy : Numbers,
                   chain : SUBSET (Numbers \X Numbers)]
      /\ seat.sign \in {0, seat.holder} /\ seat.boxBy \in {0, seat.box} /\ seat.chain = {}
  BY <1>1, <1>2
<1>4. rooms \in Seq(Bound) /\ lines \in Seq(Placed)
  BY DEF PressInit
<1>5. NoAnswer \in Answers({}) /\ NoAnswer.sign = 0
  BY <1>1 DEF NoAnswer, Answers
<1>6. Unpinned \in Pin /\ Unpinned.current = 0 /\ Unpinned.pending = 0 /\ Unpinned.history = {}
  BY <1>1 DEF Unpinned, Pin
<1>7. ASSUME NEW d \in Phones PROVE PhoneOK(phones[d], {})
  <2>1. phones[d] = [pin |-> Unpinned, asks |-> FALSE, answer |-> NoAnswer, mail |-> {}]
    BY DEF PressInit
  <2> QED BY <2>1, <1>5, <1>6 DEF PhoneOK
<1>8. DOMAIN phones = Phones /\ phones = [d \in Phones |-> phones[d]]
  BY DEF PressInit
<1> QED BY <1>3, <1>4, <1>7, <1>8 DEF PinsInv

LEMMA MoreSigned ==
  ASSUME NEW few, NEW signed, few \subseteq signed, NEW phone, PhoneOK(phone, few)
  PROVE  PhoneOK(phone, signed)
<1>1. Answers(few) \subseteq Answers(signed)
  BY DEF Answers
<1> QED BY <1>1 DEF PhoneOK

\* One phone changes; the answers are of the chain as it is.
LEMMA OnePhone ==
  ASSUME PinsInv, UNCHANGED seat, NEW d \in Phones, NEW phone, PhoneOK(phone, seat.chain),
         phones' = [phones EXCEPT ![d] = phone], rooms' \in Seq(Bound), lines' \in Seq(Placed)
  PROVE  PinsInv'
<1>1. DOMAIN phones' = Phones /\ phones' = [e \in Phones |-> phones'[e]]
  BY DEF PinsInv
<1>2. ASSUME NEW e \in Phones PROVE PhoneOK(phones'[e], seat.chain)
  <2>1. phones'[e] = IF e = d THEN phone ELSE phones[e]
    BY DEF PinsInv
  <2> QED BY <2>1 DEF PinsInv
<1> QED BY <1>1, <1>2 DEF PinsInv

LEMMA PressStateOK == PinsInv /\ rooms \in Seq(Bound) => PressState \in Answers(seat.chain)
<1> SUFFICES ASSUME PinsInv PROVE PressState \in Answers(seat.chain)
  OBVIOUS
<1>1. Len(rooms) \in Nat /\ seat.holder \in Nat
  BY DEF PinsInv, Holders
<1> QED BY <1>1 DEF PinsInv, PressState, Answers

LEMMA HandOverKeeps ==
  ASSUME PinsInv, NEW carries \in BOOLEAN, HandOver(carries) PROVE PinsInv'
<1> DEFINE chain == IF carries /\ seat.sign # 0
                    THEN seat.chain \cup {<<seat.sign, seat.holder + 1>>} ELSE seat.chain
<1>1. /\ seat.holder \in Holders /\ seat.sign \in Numbers /\ seat.box \in Numbers
      /\ seat.boxBy \in Numbers /\ seat.chain \in SUBSET (Numbers \X Numbers)
  BY DEF PinsInv
<1>2. seat.holder + 1 \in Holders /\ seat.holder + 1 \in Numbers
  BY <1>1, PinsAssumption DEF HandOver, Holders, Numbers
<1>3. chain \in SUBSET (Numbers \X Numbers) /\ seat.chain \subseteq chain
  BY <1>1, <1>2
<1>4. seat' = [seat EXCEPT !.holder = seat.holder + 1, !.sign = seat.holder + 1, !.chain = chain]
  BY DEF HandOver
<1> HIDE DEF chain
<1>5. seat = [holder |-> seat.holder, sign |-> seat.sign, box |-> seat.box, boxBy |-> seat.boxBy,
              chain |-> seat.chain]
  BY DEF PinsInv
<1>6. seat' = [holder |-> seat.holder + 1, sign |-> seat.holder + 1, box |-> seat.box,
               boxBy |-> seat.boxBy, chain |-> chain]
  BY <1>4, <1>5
<1>7. /\ seat' \in [holder : Holders, sign : Numbers, box : Numbers, boxBy : Numbers,
                    chain : SUBSET (Numbers \X Numbers)]
      /\ seat'.sign \in {0, seat'.holder} /\ seat'.boxBy \in {0, seat'.box} /\ seat'.chain = chain
  BY <1>1, <1>2, <1>3, <1>6 DEF PinsInv
<1>8. \A d \in Phones : PhoneOK(phones[d], chain)
  BY <1>3, MoreSigned DEF PinsInv
<1> QED BY <1>7, <1>8 DEF PinsInv, HandOver

LEMMA PublishKeeps == ASSUME PinsInv, PublishKey PROVE PinsInv'
<1>1. /\ seat.holder \in Holders /\ seat.sign \in Numbers
      /\ seat.chain \in SUBSET (Numbers \X Numbers)
  BY DEF PinsInv
<1>2. seat.holder \in Numbers
  BY <1>1, PinsAssumption DEF Holders, Numbers
<1>3. seat = [holder |-> seat.holder, sign |-> seat.sign, box |-> seat.box, boxBy |-> seat.boxBy,
              chain |-> seat.chain]
  BY DEF PinsInv
<1>4. seat' = [holder |-> seat.holder, sign |-> seat.sign, box |-> seat.holder,
               boxBy |-> seat.sign, chain |-> seat.chain]
  BY <1>3 DEF PublishKey
<1>5. /\ seat' \in [holder : Holders, sign : Numbers, box : Numbers, boxBy : Numbers,
                    chain : SUBSET (Numbers \X Numbers)]
      /\ seat'.sign \in {0, seat'.holder} /\ seat'.boxBy \in {0, seat'.box}
      /\ seat'.chain = seat.chain
  BY <1>1, <1>2, <1>4 DEF PinsInv
<1> QED BY <1>5 DEF PinsInv, PublishKey

LEMMA SeatPressKeeps == ASSUME PinsInv, SeatOpensRoom \/ SeatWrites PROVE PinsInv'
<1>1. UNCHANGED <<seat, phones>>
  BY DEF SeatOpensRoom, SeatWrites
<1>2. seat.sign \in Numbers /\ seat.holder \in Numbers
  BY PinsAssumption DEF PinsInv, Holders, Numbers
<1>3. rooms' \in Seq(Bound)
  <2>1. RoomBinding("seat", seat.sign, seat.holder) \in Bound
    BY <1>2 DEF RoomBinding, Bound
  <2>2. rooms' \in {rooms, Append(rooms, RoomBinding("seat", seat.sign, seat.holder))}
    BY DEF SeatOpensRoom, SeatWrites
  <2> QED BY <2>1, <2>2, OneMore DEF PinsInv
<1>4. lines' \in Seq(Placed)
  <2>1. \A r \in 1..Len(rooms) : PressPlace(r, seat.sign) \in Placed
    BY <1>2 DEF PressPlace, Placed
  <2>2. lines' = lines \/ \E r \in 1..Len(rooms) : lines' = Append(lines, PressPlace(r, seat.sign))
    BY DEF SeatOpensRoom, SeatWrites
  <2> QED BY <2>1, <2>2, OneMore DEF PinsInv
<1> QED BY <1>1, <1>3, <1>4 DEF PinsInv

LEMMA AskKeeps == ASSUME PinsInv, NEW d \in Phones, Ask(d) PROVE PinsInv'
<1> DEFINE phone == [phones[d] EXCEPT !.mail = @ \cup {PressState}]
<1>1. /\ phones' = [phones EXCEPT ![d] = phone] /\ UNCHANGED <<seat, rooms, lines>>
  BY DEF Ask
<1>2. phone = [pin |-> phones[d].pin, asks |-> phones[d].asks, answer |-> phones[d].answer,
               mail |-> phones[d].mail \cup {PressState}]
  <2>1. phones[d] = [pin |-> phones[d].pin, asks |-> phones[d].asks,
                     answer |-> phones[d].answer, mail |-> phones[d].mail]
    BY PinsTypes
  <2> QED BY <2>1
<1> HIDE DEF phone
<1>3. PressState \in Answers(seat.chain)
  BY PressStateOK DEF PinsInv
<1>4. PhoneOK(phone, seat.chain)
  BY <1>2, <1>3, PinsTypes DEF PinsInv, PhoneOK
<1> QED BY <1>1, <1>4, OnePhone DEF PinsInv

LEMMA OpenKeeps == ASSUME PinsInv, NEW d \in Phones, OpenRoom(d) PROVE PinsInv'
<1>1. PICK box \in wrapsFor(d, phones[d].answer) :
        IF ~(phones[d].answer.of # 0 /\ phones[d].answer.rooms > 0) /\ rooms # <<>>
        THEN rooms' = rooms
        ELSE rooms' = Append(rooms, RoomBinding("reader", 0, box))
  BY DEF OpenRoom
<1>2. rooms' \in Seq(Bound)
  <2>1. box \in Numbers /\ 0 \in Numbers
    <3>1. phones[d].answer.box \in Numbers
      BY PinsTypes DEF Answers
    <3>2. box = phones[d].answer.box
      BY <1>1 DEF wrapsFor
    <3> QED BY <3>1, <3>2, PinsAssumption DEF Numbers
  <2>2. RoomBinding("reader", 0, box) \in Bound
    BY <2>1 DEF RoomBinding, Bound
  <2>3. rooms' \in {rooms, Append(rooms, RoomBinding("reader", 0, box))}
    BY <1>1
  <2> QED BY <2>2, <2>3, OneMore DEF PinsInv
<1> DEFINE told == [PressState EXCEPT !.rooms = Len(rooms')]
           phone == [phones[d] EXCEPT !.mail = @ \cup {told}]
<1>3. phones' = [phones EXCEPT ![d] = phone] /\ UNCHANGED <<seat, lines>>
  BY DEF OpenRoom
<1>4. told \in Answers(seat.chain)
  <2>1. PressState \in Answers(seat.chain) /\ Len(rooms') \in Nat
    BY <1>2, PressStateOK DEF PinsInv
  <2> QED BY <2>1 DEF Answers
<1> HIDE DEF told
<1>5. phone = [pin |-> phones[d].pin, asks |-> phones[d].asks, answer |-> phones[d].answer,
               mail |-> phones[d].mail \cup {told}]
  <2>1. phones[d] = [pin |-> phones[d].pin, asks |-> phones[d].asks,
                     answer |-> phones[d].answer, mail |-> phones[d].mail]
    BY PinsTypes
  <2> QED BY <2>1
<1> HIDE DEF phone
<1>6. PhoneOK(phone, seat.chain)
  BY <1>4, <1>5, PinsTypes DEF PinsInv, PhoneOK
<1> QED BY <1>2, <1>3, <1>6, OnePhone DEF PinsInv

LEMMA RefreshKeeps == ASSUME PinsInv, NEW d \in Phones, Refresh(d) PROVE PinsInv'
<1>1. PICK answer \in phones[d].mail :
        LET pin == pinSignKeys(phones[d].pin, answer.sign, answer.chain)
        IN  phones' = [phones EXCEPT ![d] = [pin |-> pin, asks |-> pin.pending # 0,
                                             answer |-> answer, mail |-> @.mail \ {answer}]]
  BY DEF Refresh
<1> DEFINE pin == pinSignKeys(phones[d].pin, answer.sign, answer.chain)
           phone == [pin |-> pin, asks |-> pin.pending # 0, answer |-> answer,
                     mail |-> phones[d].mail \ {answer}]
<1>2. phones' = [phones EXCEPT ![d] = phone] /\ UNCHANGED <<seat, rooms, lines>>
  BY <1>1 DEF Refresh
<1>3. answer \in Answers(seat.chain) /\ answer.sign \in Numbers /\ phones[d].pin \in Pin
  BY PinsTypes DEF Answers
<1>4. /\ pin \in Pin
      /\ phones[d].pin.current = 0 => pin = [phones[d].pin EXCEPT !.current = answer.sign]
      /\ phones[d].pin.current # 0 => pin.current # 0
  BY <1>3, PinMoves
<1> HIDE DEF pin
<1>5. pin.current = 0 => pin.pending = 0 /\ pin.history = {} /\ answer.sign = 0
  <2>1. CASE phones[d].pin.current = 0
    <3>1. phones[d].pin.pending = 0 /\ phones[d].pin.history = {}
      BY <2>1 DEF PinsInv, PhoneOK
    <3> QED BY <3>1, <2>1, <1>3, <1>4 DEF Pin
  <2> QED BY <2>1, <1>4
<1>6. PhoneOK(phone, seat.chain)
  <2>1. (pin.pending # 0) \in BOOLEAN
    OBVIOUS
  <2> QED BY <2>1, <1>3, <1>4, <1>5, PinsTypes DEF PhoneOK
<1> HIDE DEF phone
<1> QED BY <1>2, <1>6, OnePhone DEF PinsInv

LEMMA AcceptKeeps == ASSUME PinsInv, NEW d \in Phones, Accept(d) PROVE PinsInv'
<1> DEFINE pin == acceptPin(phones[d].pin)
           phone == [phones[d] EXCEPT !.pin = pin, !.asks = FALSE]
<1>1. phones' = [phones EXCEPT ![d] = phone] /\ UNCHANGED <<seat, rooms, lines>>
  <2>1. phones' = [phones EXCEPT ![d].pin = acceptPin(@), ![d].asks = FALSE]
    BY DEF Accept
  <2> QED BY <2>1 DEF Accept, PinsInv
<1>2. /\ phones[d].pin.current = 0 =>
           phones[d].pin.pending = 0 /\ phones[d].pin.history = {} /\ phones[d].answer.sign = 0
  BY DEF PinsInv, PhoneOK
<1>3. /\ pin \in Pin
      /\ phones[d].pin.current = 0 => pin = phones[d].pin
      /\ phones[d].pin.current # 0 => pin.current # 0
  BY <1>2, PinsTypes, PinAccepted
<1> HIDE DEF pin
<1>4. /\ phone.pin = pin /\ phone.answer = phones[d].answer
      /\ phone \in [pin : Pin, asks : BOOLEAN, answer : Answers(seat.chain),
                     mail : SUBSET Answers(seat.chain)]
  <2>1. phones[d] \in [pin : Pin, asks : BOOLEAN, answer : Answers(seat.chain),
                        mail : SUBSET Answers(seat.chain)]
    BY DEF PinsInv, PhoneOK
  <2> QED BY <2>1, <1>3
<1> HIDE DEF phone
<1>5. PhoneOK(phone, seat.chain)
  BY <1>2, <1>3, <1>4 DEF PhoneOK
<1> QED BY <1>1, <1>5, OnePhone DEF PinsInv

LEMMA PinsStep == PinsInv /\ [PressNext]_pressVars => PinsInv'
<1> SUFFICES ASSUME PinsInv, [PressNext]_pressVars PROVE PinsInv'
  OBVIOUS
<1>1. CASE UNCHANGED pressVars
  BY <1>1 DEF pressVars, PinsInv
<1> QED BY <1>1, HandOverKeeps, PublishKeeps, SeatPressKeeps, AskKeeps, RefreshKeeps, AcceptKeeps,
           OpenKeeps DEF PressNext

-------------------------------------------------------------------------------
\* Whom a phone trusts: the key it pinned and those that one replaced.
LEMMA TrustedIs ==
  ASSUME PinsInv, NEW d \in Phones
  PROVE  Trusted(d) = ({phones[d].pin.current} \cup phones[d].pin.history) \ {0}
<1>1. phones[d].pin.current = 0 => phones[d].answer.sign = 0
  BY DEF PinsInv, PhoneOK
<1> QED BY <1>1 DEF Trusted, Believed

\* How a pin may come after another.
PinFollows(d) ==
  LET old == phones[d].pin
      new == phones'[d].pin
  IN  /\ old.history \subseteq new.history
      /\ old.current \notin {0, new.current} => old.current \in new.history
      /\ MovesOnProof(d)

LEMMA PinsFollow ==
  ASSUME PinsInv, [PressNext]_pressVars, NEW d \in Phones PROVE PinFollows(d)
<1>1. ASSUME phones'[d].pin = phones[d].pin PROVE PinFollows(d)
  BY <1>1 DEF PinFollows, MovesOnProof
<1>2. CASE UNCHANGED phones
  BY <1>1, <1>2
<1>3. ASSUME NEW e \in Phones, Ask(e) \/ OpenRoom(e) PROVE PinFollows(d)
  <2>1. phones'[d].pin = phones[d].pin
    <3>1. phones[d] = [pin |-> phones[d].pin, asks |-> phones[d].asks,
                       answer |-> phones[d].answer, mail |-> phones[d].mail]
      BY PinsTypes
    <3>2. PICK mail : phones' = [phones EXCEPT ![e].mail = mail]
      BY <1>3 DEF Ask, OpenRoom
    <3> QED BY <3>1, <3>2 DEF PinsInv
  <2> QED BY <1>1, <2>1
<1>4. ASSUME NEW e \in Phones, Refresh(e) PROVE PinFollows(d)
  <2>1. PICK answer \in phones[e].mail :
          LET pin == pinSignKeys(phones[e].pin, answer.sign, answer.chain)
          IN  phones' = [phones EXCEPT ![e] = [pin |-> pin, asks |-> pin.pending # 0,
                                               answer |-> answer, mail |-> @.mail \ {answer}]]
    BY <1>4 DEF Refresh
  <2>2. CASE e # d
    <3>1. phones'[d] = phones[d]
      BY <2>1, <2>2 DEF PinsInv
    <3> QED BY <1>1, <3>1
  <2>3. CASE e = d
    <3> DEFINE new == pinSignKeys(phones[d].pin, answer.sign, answer.chain)
    <3>1. phones'[d].pin = new
      BY <2>1, <2>3 DEF PinsInv
    <3>2. /\ answer.sign \in Numbers /\ answer.chain \subseteq seat.chain
          /\ phones[d].pin \in Pin
      BY <2>3, PinsTypes DEF Answers
    <3>3. /\ phones[d].pin.history \subseteq new.history
          /\ phones[d].pin.current \notin {0, new.current} =>
               /\ Path(phones[d].pin.current, new.current, answer.chain)
               /\ phones[d].pin.current \in new.history
      BY <3>2, PinMoves
    <3>4. phones[d].pin.current \notin {0, new.current} =>
            Path(phones[d].pin.current, new.current, seat.chain)
      BY <3>2, <3>3, PathKept
    <3> HIDE DEF new
    <3> QED BY <3>1, <3>3, <3>4 DEF PinFollows, MovesOnProof
  <2> QED BY <2>2, <2>3
<1>5. ASSUME NEW e \in Phones, Accept(e) PROVE PinFollows(d)
  <2>1. phones' = [phones EXCEPT ![e].pin = acceptPin(@), ![e].asks = FALSE] /\ phones[e].asks
    BY <1>5 DEF Accept
  <2>2. CASE e # d
    <3>1. phones'[d] = phones[d]
      BY <2>1, <2>2 DEF PinsInv
    <3> QED BY <1>1, <3>1
  <2>3. CASE e = d
    <3>1. phones'[d].pin = acceptPin(phones[d].pin)
      <4>1. phones[d] = [pin |-> phones[d].pin, asks |-> phones[d].asks,
                         answer |-> phones[d].answer, mail |-> phones[d].mail]
        BY PinsTypes
      <4>2. d \in DOMAIN phones
        BY DEF PinsInv
      <4> QED BY <4>1, <4>2, <2>1, <2>3
    <3>2. phones[d].pin \in Pin /\ (phones[d].pin.current = 0 => phones[d].pin.pending = 0)
      BY PinsTypes DEF PinsInv, PhoneOK
    <3> QED BY <2>1, <2>3, <3>1, <3>2, PinAccepted DEF PinFollows, MovesOnProof
  <2> QED BY <2>2, <2>3
<1>6. CASE UNCHANGED pressVars
  BY <1>2, <1>6 DEF pressVars
<1>7. ASSUME NEW carries \in BOOLEAN, HandOver(carries) PROVE PinFollows(d)
  BY <1>2, <1>7 DEF HandOver
<1>8. CASE PublishKey \/ SeatOpensRoom \/ SeatWrites
  BY <1>2, <1>8 DEF PublishKey, SeatOpensRoom, SeatWrites
<1> QED BY <1>3, <1>4, <1>5, <1>6, <1>7, <1>8 DEF PressNext

\* The rooms and the lines there are stay as they are.
LEMMA LogsGrow ==
  ASSUME PinsInv, [PressNext]_pressVars
  PROVE  \A i \in 1..Len(lines) : lines'[i] = lines[i]
<1>1. lines' = lines \/ \E r \in 1..Len(rooms) : lines' = Append(lines, PressPlace(r, seat.sign))
  BY DEF PressNext, pressVars, HandOver, PublishKey, SeatOpensRoom, SeatWrites, Ask, Refresh,
         Accept, OpenRoom
<1>2. \A e : \A i \in 1..Len(lines) : Append(lines, e)[i] = lines[i]
  <2>1. lines \in Seq(Placed)
    BY DEF PinsInv
  <2> QED BY <2>1
<1> QED BY <1>1, <1>2

LEMMA TrustGrows ==
  ASSUME PinsInv, PinsInv', [PressNext]_pressVars, NEW d \in Phones
  PROVE  Trusted(d) \subseteq Trusted(d)'
<1>1. PinFollows(d)
  BY PinsFollow
<1>2. Trusted(d) = ({phones[d].pin.current} \cup phones[d].pin.history) \ {0}
  BY TrustedIs
<1>3. Trusted(d)' = ({phones'[d].pin.current} \cup phones'[d].pin.history) \ {0}
  <2>1. phones'[d].pin.current = 0 => phones'[d].answer.sign = 0
    BY DEF PinsInv, PhoneOK
  <2> QED BY <2>1 DEF Trusted, Believed
<1> QED BY <1>1, <1>2, <1>3 DEF PinFollows

LEMMA VerifiedStays ==
  ASSUME PinsInv, PinsInv', [PressNext]_pressVars, NEW d \in Phones PROVE StaysVerified(d)
<1>1. Trusted(d) \subseteq Trusted(d)'
  BY TrustGrows
<1>2. ASSUME NEW i \in 1..Len(lines), Proof(d, lines[i]) = "ok" PROVE Proof(d, lines[i])' = "ok"
  <2>1. lines'[i] = lines[i]
    BY LogsGrow
  <2>2. lines[i].by # 0 /\ lines[i].by \in Trusted(d)
    BY <1>2 DEF Proof
  <2> QED BY <1>1, <2>1, <2>2 DEF Proof
<1> QED BY <1>1, <1>2 DEF StaysVerified

LEMMA WrappedForThePinned ==
  ASSUME PinsInv, [PressNext]_pressVars, NEW d \in Phones PROVE WrapsForThePinned(d)
<1> SUFFICES ASSUME Len(rooms') > Len(rooms), rooms'[Len(rooms')].opener = "reader",
                    phones'[d].mail # phones[d].mail, phones[d].pin.current # 0
             PROVE  /\ phones[d].pin.pending = 0
                    /\ rooms'[Len(rooms')].to = phones[d].pin.current
  BY DEF WrapsForThePinned
<1>1. rooms \in Seq(Bound) /\ Len(rooms) \in Nat
  BY DEF PinsInv
<1>2. rooms' # rooms
  BY <1>1
<1>3. ~SeatOpensRoom
  <2> SUFFICES ASSUME SeatOpensRoom PROVE FALSE
    OBVIOUS
  <2>1. phones' = phones
    BY DEF SeatOpensRoom
  <2> QED BY <2>1
<1>4. PICK e \in Phones : OpenRoom(e)
  BY <1>2, <1>3 DEF PressNext, pressVars, HandOver, PublishKey, SeatWrites, Ask, Refresh, Accept
<1>5. e = d
  <2> SUFFICES ASSUME e # d PROVE FALSE
    OBVIOUS
  <2>1. PICK mail : phones' = [phones EXCEPT ![e].mail = mail]
    BY <1>4 DEF OpenRoom
  <2> QED BY <2>1 DEF PinsInv
<1>6. PICK box \in wrapsFor(d, phones[d].answer) :
        rooms' = Append(rooms, RoomBinding("reader", 0, box))
  BY <1>2, <1>4, <1>5 DEF OpenRoom
<1>7. rooms'[Len(rooms')] = RoomBinding("reader", 0, box)
  BY <1>1, <1>6
<1>8. /\ phones[d].pin.pending = 0 /\ box = phones[d].answer.box
      /\ phones[d].answer.box # 0 /\ verifyBoxKey(d, phones[d].answer)
  BY <1>6 DEF wrapsFor
<1>9. phones[d].answer.boxBy \in {0, phones[d].answer.box}
  BY PinsTypes DEF Answers
<1>10. phones[d].answer.boxBy = phones[d].pin.current
  BY <1>8 DEF verifyBoxKey, Believed
<1> QED BY <1>7, <1>8, <1>9, <1>10 DEF RoomBinding

\* pinSignKeys, acceptPin and wrapsFor: for every set of phones, number of
\* holders, rooms, lines and answers on their way, what a phone believes of a
\* seat moves on proof alone, what it verified stays so, and nothing is wrapped
\* for a key it has not pinned.
THEOREM PinsMoveOnProof == PressSpec => TrustMovesOnProof
<1>1. PinsInv /\ PinsInv' /\ [PressNext]_pressVars
        => [\A d \in Phones : MovesOnProof(d) /\ StaysVerified(d) /\ WrapsForThePinned(d)]_pressVars
  BY PinsFollow, VerifiedStays, WrappedForThePinned DEF PinFollows
<1> QED BY <1>1, PinsInit, PinsStep, PTL DEF PressSpec, TrustMovesOnProof
================================================================================
