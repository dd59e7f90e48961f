---------------------------- MODULE PressRoom ----------------------------
(***************************************************************************)
(* One room of the press panel: PressRoom of PressPanel.tsx on the phones  *)
(* of its members, and the server routes behind it. A message is sealed    *)
(* for the number it takes, loads overtake each other, answers are lost,   *)
(* the database refuses a write and the server restarts.                   *)
(***************************************************************************)
EXTENDS Naturals, Sequences, FiniteSets

CONSTANTS
  Members,    \* the holders in the room
  You,        \* the one whose panel this is
  PageSize,   \* messages in a page
  Quota,      \* messages a sender may keep in this game
  MaxTexts,   \* bound on texts typed
  MaxPressTurns,  \* bound on the phases of the game
  MaxOthers,  \* bound on the messages of another member
  MaxLost     \* bound on answers lost

ASSUME RoomAssumption ==
  You \in Members /\ PageSize \in Nat /\ Quota \in Nat /\ MaxTexts \in Nat

VARIABLES
  room,     \* the server's memory: [log, read, unread, stored, turn, open]
  rows,     \* the database: [log, read]
  panel,    \* the panel on the phone of one member, You
  texts,    \* texts typed so far, numbered
  lost      \* answers to a stored message that never arrived, by text

roomVars == <<room, rows, panel, texts, lost>>

NoSender(n) == [h \in Members |-> n]

RoomInit ==
  /\ room = [log |-> <<>>, read |-> NoSender(0), unread |-> NoSender(0), stored |-> NoSender(0),
             turn |-> 1, open |-> TRUE]
  /\ rows = [log |-> <<>>, read |-> NoSender(0)]
  /\ panel =
       [draft |-> 0, posts |-> {}, loads |-> {}, before |-> 0, hi |-> 0,
        marks |-> {}, marked |-> 0, turn |-> 1, seen |-> 0, heard |-> {}]
  /\ texts = 0
  /\ lost = [t \in 1..MaxTexts |-> 0]

-----------------------------------------------------------------------------
(* The server.                                                             *)

Of(log, h) == Cardinality({i \in 1..Len(log) : log[i].sender = h})
countUnread(log, h, seen) == Cardinality({i \in 1..Len(log) : i > seen /\ log[i].sender # h})

\* Mutant of rememberMessage: the sender's own message is counted as unread.
CountedForAll(r, m) ==
  [r EXCEPT !.log = Append(@, m), !.stored[m.sender] = @ + 1,
            !.unread = [h \in Members |-> @[h] + 1]]

(* Counted for the sender's quota and for everybody else's badge. *)
rememberMessage(r, m) ==
  [r EXCEPT !.log = Append(@, m), !.stored[m.sender] = @ + 1,
            !.unread = [h \in Members |-> @[h] + (IF h = m.sender THEN 0 ELSE 1)]]

(* Sealed for this number and this phase, with room left for one more. *)
Fits(h, post) ==
  /\ room.open
  /\ post.seq = Len(room.log) + 1
  /\ post.turn = room.turn
  /\ room.stored[h] < Quota

(* The row first, and the memory only if it landed. *)
Remembered(r, m, written) == IF written THEN rememberMessage(r, m) ELSE r

(* handlePressSend: the gates and the quota, then a token of the rate,     *)
(* which time gives back and a restart too, then the row, which may fail.  *)
Served(h, post, paid, written) ==
  LET m     == [sender |-> h, text |-> post.text]
      taken == Fits(h, post) /\ paid
  IN  [room |-> IF taken THEN Remembered(room, m, written) ELSE room,
       rows |-> IF taken /\ written THEN [rows EXCEPT !.log = Append(@, m)] ELSE rows]

SendServed(post) ==
  /\ post.step = "posting"
  /\ \E paid, written \in BOOLEAN :
       LET served == Served(You, post, paid, written)
           taken  == Len(served.room.log) > Len(room.log)
       IN  /\ room' = served.room /\ rows' = served.rows
           /\ panel' = [panel EXCEPT !.posts =
                (@ \ {post}) \cup IF taken THEN {[post EXCEPT !.step = "stored"]} ELSE {}]
  /\ UNCHANGED <<texts, lost>>

(* Another member's phone reads the room and writes into it. *)
OtherWrites(h) ==
  \E written \in BOOLEAN :
    LET post   == [text |-> 0, seq |-> Len(room.log) + 1, turn |-> room.turn]
        served == Served(h, post, TRUE, written)
    IN  /\ h # You /\ room.stored[h] < MaxOthers /\ served.room # room
        /\ room' = served.room /\ rows' = served.rows
        /\ UNCHANGED <<panel, texts, lost>>

(* handlePressRead: forward only, and never past the last message. *)
ReadServed(seq) ==
  /\ seq \in panel.marks
  /\ \E written \in BOOLEAN :
       LET to    == IF seq > Len(room.log) THEN Len(room.log) ELSE seq
           moves == to > room.read[You]
       IN  /\ room' = IF moves THEN [room EXCEPT !.read[You] = to,
                                                !.unread[You] = countUnread(room.log, You, to)]
                      ELSE room
           /\ rows' = IF moves /\ written THEN [rows EXCEPT !.read[You] = to] ELSE rows
  /\ panel' = [panel EXCEPT !.marks = {}, !.marked = IF seq > @ THEN seq ELSE @]
  /\ UNCHANGED <<texts, lost>>

(* loadPress: the counters are made again from the rows. *)
PressRestart ==
  /\ room' = [room EXCEPT !.log = rows.log, !.read = rows.read,
                          !.unread = [h \in Members |-> countUnread(rows.log, h, rows.read[h])],
                          !.stored = [h \in Members |-> Of(rows.log, h)]]
  /\ UNCHANGED <<rows, panel, texts, lost>>

(* The writing minute closes the room and the next phase opens it. *)
Silence ==
  /\ room.open
  /\ room' = [room EXCEPT !.open = FALSE]
  /\ UNCHANGED <<rows, panel, texts, lost>>

NextTurn ==
  /\ room.turn < MaxPressTurns
  /\ room' = [room EXCEPT !.turn = @ + 1, !.open = TRUE]
  /\ UNCHANGED <<rows, panel, texts, lost>>

-----------------------------------------------------------------------------
(* A panel.                                                                *)

TurnRead ==
  /\ panel.turn < room.turn
  /\ panel' = [panel EXCEPT !.turn = room.turn]
  /\ UNCHANGED <<room, rows, texts, lost>>

Type ==
  /\ texts < MaxTexts
  /\ panel.draft = 0
  /\ texts' = texts + 1
  /\ panel' = [panel EXCEPT !.draft = texts + 1]
  /\ UNCHANGED <<room, rows, lost>>

\* Mutant of MaySend: the flag of the last render, which Enter can outrun.
AnyEnter(p) == p.draft # 0 /\ Cardinality(p.posts) < 2

(* inFlight: one send at a time, however often Enter is pressed. *)
MaySend(p) == p.draft # 0 /\ p.posts = {}

(* send(): the room is read again for the number the message will take. *)
Send ==
  /\ MaySend(panel)
  /\ panel' = [panel EXCEPT !.posts = @ \cup
       {[step |-> "reading", text |-> panel.draft, turn |-> panel.turn, seq |-> 0,
         try |-> Cardinality(@), from |-> panel.before]}]
  /\ UNCHANGED <<room, rows, texts, lost>>

Sealed(post) ==
  /\ post.step = "reading"
  /\ panel' = [panel EXCEPT !.posts =
       (@ \ {post}) \cup {[post EXCEPT !.step = "posting", !.seq = Len(room.log) + 1]}]
  /\ UNCHANGED <<room, rows, texts, lost>>

(* load(): the newest started counts (pageRequest), and what it brings is  *)
(* what the server held as it started.                                     *)
Loading(p, before) ==
  [p EXCEPT !.before = before,
            !.loads = {[load EXCEPT !.newest = FALSE] : load \in @} \cup
                      {[newest |-> TRUE, before |-> before,
                        hi |-> IF before = 0 THEN Len(room.log) ELSE before - 1]}]

(* A stored message's answer clears the draft and loads the newest page: a *)
(* send begun on an older page turns to it, one begun on the newest loads  *)
(* it over whatever page has been turned to since.                         *)
SendHeard(post) ==
  /\ post.step = "stored"
  /\ panel' = [(IF post.from # 0 /\ panel.before = 0 THEN panel ELSE Loading(panel, 0))
                 EXCEPT !.draft = 0, !.posts = @ \ {post}, !.heard = @ \cup {post.text},
                        !.before = IF post.from = 0 THEN panel.before ELSE 0]
  /\ UNCHANGED <<room, rows, texts, lost>>

(* ... or is lost: the panel says so and keeps the draft. *)
SendLost(post) ==
  /\ post.step = "stored" /\ lost[post.text] < MaxLost
  /\ lost' = [lost EXCEPT ![post.text] = @ + 1]
  /\ panel' = [panel EXCEPT !.posts = @ \ {post}]
  /\ UNCHANGED <<room, rows, texts>>

(* The poll, while the newest page is up; Older and Latest messages. *)
Poll ==
  /\ panel.before = 0 /\ Cardinality(panel.loads) < 2
  /\ panel' = Loading(panel, 0)
  /\ UNCHANGED <<room, rows, texts, lost>>

Older ==
  /\ panel.hi > PageSize /\ panel.before # panel.hi - PageSize + 1 /\ Cardinality(panel.loads) < 2
  /\ panel' = Loading(panel, panel.hi - PageSize + 1)
  /\ UNCHANGED <<room, rows, texts, lost>>

Latest ==
  /\ panel.before # 0 /\ Cardinality(panel.loads) < 2
  /\ panel' = Loading(panel, 0)
  /\ UNCHANGED <<room, rows, texts, lost>>

IsCurrent(load) == load.newest

\* Mutant of ToMark: the last message there is, shown or not.
ListedLast(load) == {Len(room.log)}

(* Only the newest page marks, and only what is new. *)
ToMark(load) ==
  IF load.before = 0 /\ load.hi > panel.marked THEN {load.hi} ELSE panel.marks

(* The page of the newest load is shown, then what is new is marked. *)
Loaded(load) ==
  /\ load \in panel.loads
  /\ panel' =
       LET p == [panel EXCEPT !.loads = @ \ {load}]
       IN  IF ~IsCurrent(load) THEN p
           ELSE [p EXCEPT !.hi = load.hi, !.seen = IF load.hi > @ THEN load.hi ELSE @,
                          !.marks = ToMark(load)]
  /\ UNCHANGED <<room, rows, texts, lost>>

(* A request of the panel fails: the message it was for is not sent. *)
Failed ==
  /\ \/ \E post \in panel.posts :
          post.step # "stored" /\ panel' = [panel EXCEPT !.posts = @ \ {post}]
     \/ panel.marks # {} /\ panel' = [panel EXCEPT !.marks = {}]
  /\ UNCHANGED <<room, rows, texts, lost>>

PanelStep ==
  \/ TurnRead \/ Type \/ Send \/ Poll \/ Older \/ Latest \/ Failed
  \/ \E post \in panel.posts : Sealed(post) \/ SendHeard(post) \/ SendLost(post)
  \/ \E load \in panel.loads : Loaded(load)

RoomNext ==
  \/ PanelStep
  \/ \E post \in panel.posts : SendServed(post)
  \/ \E seq \in panel.marks : ReadServed(seq)
  \/ \E h \in Members : OtherWrites(h)
  \/ PressRestart \/ Silence \/ NextTurn

RoomSpec == RoomInit /\ [][RoomNext]_roomVars

-----------------------------------------------------------------------------
(* Properties.                                                             *)

Copies(t) == Cardinality({i \in 1..Len(rows.log) : rows.log[i].text = t})

(* A text is in the room once, and once more only for an answer that was   *)
(* lost (inFlight in send, the sequence check of handlePressSend).         *)
OncePerSend == \A t \in 1..MaxTexts : Copies(t) <= 1 + lost[t]

(* What the panel was told is stored is in the database                    *)
(* (persistPressMessage before rememberMessage).                           *)
HeardIsKept == \A t \in panel.heard : Copies(t) > 0

(* Two quick Enters, a race for the number, a refused write, a lost answer *)
(* and a restart neither lose what the panel was told was sent nor send it *)
(* twice.                                                                  *)
SentOnce == OncePerSend /\ HeardIsKept

(* The badge counts exactly the messages of others past the read mark, and *)
(* the quota exactly the sender's messages, though both are counters kept  *)
(* beside the log and made again from the rows on a restart.               *)
CountersTrue ==
  \A h \in Members :
    /\ room.unread[h] = countUnread(room.log, h, room.read[h])
    /\ room.stored[h] = Of(rows.log, h) /\ room.stored[h] <= Quota

(* Nothing is marked read that was not on this member's screen: a mark     *)
(* follows the page that was shown, not the last one asked for (load).     *)
MarksAreSeen == room.read[You] <= panel.seen
=============================================================================
