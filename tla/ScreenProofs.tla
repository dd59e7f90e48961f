----------------------------- MODULE ScreenProofs ------------------------------
(***************************************************************************)
(* What a screen shows of a game, for every game and every set of pages:   *)
(* the spectator's walk, the review of the last phase, the clock, the lists*)
(* and the sandbox.                                                        *)
(* The screens share nothing; each part has its own invariant.             *)
(***************************************************************************)
EXTENDS PhaseWalk, ReviewSheet, PhaseClock, GamesList, SandboxBoard, SequenceTheorems, TLAPS

-------------------------------------------------------------------------------
(* PhaseWalk: no answer, however old, tells of a phase the game had not    *)
(* reached, and the addresses in the tab's history stay behind.            *)

\* A state of the feed was true once, and the live phase only moves on.
TrueOnce(w) ==
  /\ w.of \in Int /\ w.count \in Nat \ {0} /\ w.current \in BOOLEAN
  /\ w.of <= live /\ w.count <= live + 1
  /\ w.current \/ w.of < live

\* The address of the live phase, or of one that was played.
Behind(i) == i = Live \/ i < live

WalkInv ==
  /\ live \in Nat /\ at \in Int /\ trail \subseteq Int
  /\ watch # Unread => TrueOnce(watch)
  /\ \A r \in reading :
       /\ r.want \in Int
       /\ r.said # Unread /\ r.said.of # Live => TrueOnce(r.said)
  /\ ~blind => Behind(at) /\ \A i \in trail : Behind(i)

LEMMA WalkInitInv == WalkInit => WalkInv
BY WalkAssumption DEF WalkInit, WalkInv, Behind, Live

\* What was true once stays so when the game moves on.
LEMMA TrueStays == ASSUME live \in Nat, live' = live + 1, NEW w, TrueOnce(w)
                   PROVE  TrueOnce(w)'
BY DEF TrueOnce

LEMMA BehindStays == ASSUME live \in Nat, live' = live + 1, NEW i \in Int, Behind(i)
                     PROVE  Behind(i)'
BY DEF Behind

\* What the feed answers is true as it is said.
LEMMA FeedIsTrue ==
  ASSUME live \in Nat, NEW want \in Int, NEW said \in watchState(want), said.of # Live
  PROVE  TrueOnce(said)
<1> DEFINE of == IF want = Live THEN live ELSE want
<1>1. of \in Int /\ of <= live
      /\ said = [of |-> of, count |-> live + 1, current |-> of = live]
  BY DEF watchState
<1> HIDE DEF of
<1>2. said.of = of /\ said.count = live + 1 /\ said.current = (of = live)
  BY <1>1
<1>3. (of = live) \in BOOLEAN /\ (of = live \/ of < live)
  BY <1>1
<1>4. said.current \in BOOLEAN /\ (said.current \/ said.of < live)
  BY <1>2, <1>3, Zenon
<1>5. /\ said.of \in Int /\ said.count \in Nat \ {0}
      /\ said.of <= live /\ said.count <= live + 1
  BY <1>1, <1>2
<1> QED BY <1>4, <1>5 DEF TrueOnce

\* A read that starts has been told nothing.
LEMMA AskedInv ==
  ASSUME WalkInv, NEW want \in Int, NEW r \in reading', reading' = reading \/ Read(want)
  PROVE  r.want \in Int /\ (r.said # Unread /\ r.said.of # Live => TrueOnce(r.said))
BY DEF WalkInv, Read

\* With an answer in hand, the phase before and the phase after an address
\* behind the live phase are behind it too.
LEMMA EarlierIsBehind ==
  ASSUME WalkInv, watch # Unread, Behind(at), NEW i \in prevTo
  PROVE  i \in Int /\ Behind(i)
BY WalkAssumption DEF WalkInv, Behind, prevTo, liveIndex, TrueOnce, Live

LEMMA LaterIsBehind ==
  ASSUME WalkInv, watch # Unread, at # Live
  PROVE  nextTo(at) \in Int /\ Behind(nextTo(at))
BY DEF WalkInv, Behind, nextTo, liveIndex, TrueOnce, Live

\* Walking to an address that is behind, unless no answer is in hand.
LEMMA GoKeeps ==
  ASSUME WalkInv, NEW next \in Int, go(next), ~blind /\ watch # Unread => Behind(next)
  PROVE  WalkInv'
<1>1. live' = live /\ watch' = watch /\ at' = next /\ trail' = trail \cup {next}
      /\ blind' = (blind \/ watch = Unread)
  BY DEF go, Stand
<1>2. reading' = reading \/ Read(next)
  BY DEF go, Stand
<1>3. \A r \in reading' :
        /\ r.want \in Int
        /\ r.said # Unread /\ r.said.of # Live => TrueOnce(r.said)
  BY <1>2, AskedInv
<1> QED BY <1>1, <1>3 DEF WalkInv, Behind, TrueOnce

LEMMA WalkStep == WalkInv /\ [WalkNext]_walkVars => WalkInv'
<1> SUFFICES ASSUME WalkInv, [WalkNext]_walkVars PROVE WalkInv'
  OBVIOUS
<1>1. CASE advanceWatch
  <2>1. live \in Nat /\ live' = live + 1
        /\ UNCHANGED <<at, asked, watch, missing, reading, trail, blind>>
    BY <1>1 DEF advanceWatch, WalkInv
  <2> QED BY <2>1, TrueStays, BehindStays DEF WalkInv
<1>2. CASE poll
  <2>1. UNCHANGED <<live, at, asked, watch, missing, trail, blind>> /\ Read(at) /\ at \in Int
    BY <1>2 DEF poll, WalkInv
  <2>2. \A r \in reading' :
          r.want \in Int /\ (r.said # Unread /\ r.said.of # Live => TrueOnce(r.said))
    BY <2>1, AskedInv
  <2> QED BY <2>1, <2>2 DEF WalkInv, TrueOnce, Behind
<1>3. CASE Earlier
  <2>1. PICK i \in prevTo : go(i)
    BY <1>3 DEF Earlier
  <2>2. i \in Int
    BY <2>1, WalkAssumption DEF prevTo
  <2> QED BY <2>1, <2>2, EarlierIsBehind, GoKeeps DEF WalkInv
<1>4. CASE Later
  <2>1. at # Live /\ go(nextTo(at)) /\ nextTo(at) \in Int
    BY <1>4 DEF Later, nextTo, WalkInv, Live
  <2> QED BY <2>1, LaterIsBehind, GoKeeps
<1>5. CASE onPop
  <2>1. PICK next \in trail : Stand(next) /\ UNCHANGED <<live, watch, missing, trail, blind>>
    BY <1>5 DEF onPop
  <2>2. next \in Int /\ at' = next /\ (reading' = reading \/ Read(next))
    BY <2>1 DEF Stand, WalkInv
  <2>3. \A r \in reading' :
          r.want \in Int /\ (r.said # Unread /\ r.said.of # Live => TrueOnce(r.said))
    BY <2>2, AskedInv
  <2> QED BY <2>1, <2>2, <2>3 DEF WalkInv, TrueOnce, Behind
<1>6. ASSUME NEW r \in reading, handleWatch(r) PROVE WalkInv'
  <2>1. PICK served \in BOOLEAN :
          LET said == IF served THEN watchState(r.want) ELSE {}
          IN reading' = (reading \ {r}) \cup
               {[r EXCEPT !.said = IF said = {} THEN [of |-> Live] ELSE CHOOSE w \in said : TRUE]}
    BY <1>6 DEF handleWatch
  <2> DEFINE said == IF served THEN watchState(r.want) ELSE {}
             told == IF said = {} THEN [of |-> Live] ELSE CHOOSE w \in said : TRUE
  <2>2. told.of # Live => TrueOnce(told)
    <3>1. CASE said = {}
      BY <3>1
    <3>2. CASE said # {}
      <4>1. told \in said /\ told \in watchState(r.want)
        BY <3>2
      <4>2. r.want \in Int /\ live \in Nat
        BY DEF WalkInv
      <4> HIDE DEF told, said
      <4> QED BY <4>1, <4>2, FeedIsTrue
    <3> QED BY <3>1, <3>2
  <2> DEFINE s == [r EXCEPT !.said = told]
  <2>3. reading' = (reading \ {r}) \cup {s}
    BY <2>1
  <2>4. s.want = r.want /\ s.said = told
    OBVIOUS
  <2> HIDE DEF s, told, said
  <2>5. UNCHANGED <<live, at, watch, trail, blind>>
    BY <1>6 DEF handleWatch
  <2> QED BY <2>2, <2>3, <2>4, <2>5 DEF WalkInv, TrueOnce, Behind
<1>7. ASSUME NEW r \in reading, read(r) PROVE WalkInv'
  BY <1>7 DEF read, WalkInv, TrueOnce, Behind
<1>8. CASE UNCHANGED walkVars
  BY <1>8 DEF walkVars, WalkInv, TrueOnce, Behind
<1> QED BY <1>1, <1>2, <1>3, <1>4, <1>5, <1>6, <1>7, <1>8 DEF WalkNext

\* WatchPage.tsx prevTo and nextTo: in every game, whichever answer the page
\* holds, a viewer with one in hand is at Live or at a phase that was played,
\* and orders are drawn for phases that were.
THEOREM StaysBehind == WalkSpec => []WalkStaysBehind
<1>1. WalkInv => WalkStaysBehind
  BY DEF WalkInv, WalkStaysBehind, TrueOnce, Behind, Drawn
<1> QED BY <1>1, WalkInitInv, WalkStep, PTL DEF WalkSpec

-------------------------------------------------------------------------------
(* ReviewSheet: a page that shows a review has handled the key of that     *)
(* very review, and the review it handled last is open or was put away:    *)
(* which phases had no orders is settled before any page can hold them.    *)

Sheet == [shown : Nat, seen : Nat, reviewing : BOOLEAN, peeking : BOOLEAN, guiding : BOOLEAN]

SheetTypeOK ==
  /\ resolved \in Nat
  /\ blank \subseteq 1..resolved
  /\ sheet \in [Page -> Sheet]
  /\ fresh \subseteq [page : Page, got : 0..resolved]

\* What a page handled is open until it is put away.
HandledOpen(p, s, written, away) ==
  s.seen # NoReview /\ ~s.reviewing =>
    s.seen \in written \/ [page |-> p, review |-> s.seen] \in away

\* A page knows of no phase the server has not resolved, has handled the
\* review it shows, and keeps what it handled open until it is put away.
Handled(p) ==
  /\ sheet[p].shown <= resolved
  /\ HasReview(p) => sheet[p].seen = sheet[p].shown
  /\ HandledOpen(p, sheet[p], kept, putAway)

SheetInv == SheetTypeOK /\ \A p \in Page : Handled(p)

LEMMA SheetInit == ReviewInit => SheetInv
BY DEF ReviewInit, SheetInv, SheetTypeOK, Handled, HandledOpen, Sheet, FreshPage, NoReview,
       HasReview, reviewPlan

\* The effect on a review's key, on a page that has handled what it shows.
LEMMA OpenedHandles ==
  ASSUME SheetInv, NEW p \in Page, NEW n \in 0..resolved,
         NEW s, s = ReviewOpened(sheet[p], n)
  PROVE  /\ s \in Sheet
         /\ s.shown = n
         /\ reviewPlan(n) # NoReview => s.seen = n
         /\ HandledOpen(p, s, kept, putAway)
<1> DEFINE key == reviewKey(reviewPlan(n))
<1>1. sheet[p] \in Sheet /\ n \in Nat /\ key \in Nat
  BY DEF SheetInv, SheetTypeOK, reviewKey, reviewPlan, NoReview
<1>2. HandledOpen(p, sheet[p], kept, putAway)
  BY DEF SheetInv, Handled
<1>3. CASE key = NoReview \/ sheet[p].seen = key
  <2>1. s = [sheet[p] EXCEPT !.shown = n]
    BY <1>3 DEF ReviewOpened
  <2>2. reviewPlan(n) # NoReview => key = n
    BY DEF reviewKey, reviewPlan
  <2> QED BY <1>1, <1>2, <1>3, <2>1, <2>2 DEF Sheet, HandledOpen, reviewKey
<1>4. CASE ~(key = NoReview \/ sheet[p].seen = key)
  <2>1. s = [sheet[p] EXCEPT !.shown = n, !.seen = key, !.reviewing = (key \notin kept)]
    BY <1>4 DEF ReviewOpened, isDismissed
  <2>2. key = n
    BY <1>4 DEF reviewKey, reviewPlan
  <2>3. /\ s.shown = n /\ s.seen = key /\ s.reviewing = (key \notin kept)
        /\ s.peeking = sheet[p].peeking /\ s.guiding = sheet[p].guiding
    BY <1>1, <2>1 DEF Sheet
  <2>4. s \in Sheet
    BY <1>1, <2>1 DEF Sheet
  <2> QED BY <2>2, <2>3, <2>4 DEF HandledOpen
<1> QED BY <1>3, <1>4

\* What a page may do to the review in front of it: neither what it shows nor
\* what it handled changes, and one that is closed is put away.
LEMMA PlayerKeeps ==
  ASSUME SheetInv, NEW p \in Page, NEW s \in Sheet,
         s.shown = sheet[p].shown, s.seen = sheet[p].seen,
         Put(p, s), kept \subseteq kept', putAway \subseteq putAway',
         HandledOpen(p, s, kept', putAway')
  PROVE  SheetInv'
<1>1. SheetTypeOK'
  BY DEF SheetInv, SheetTypeOK, Put
<1>2. ASSUME NEW q \in Page PROVE Handled(q)'
  <2>1. sheet'[q] = IF q = p THEN s ELSE sheet[q]
    BY DEF SheetInv, SheetTypeOK, Put
  <2>2. sheet'[q].shown = sheet[q].shown /\ sheet'[q].seen = sheet[q].seen
    BY <2>1
  <2>3. resolved' = resolved /\ blank' = blank
    BY DEF Put
  <2>4. HandledOpen(q, sheet[q], kept, putAway) => HandledOpen(q, sheet[q], kept', putAway')
    BY DEF HandledOpen
  <2>5. HandledOpen(q, sheet'[q], kept', putAway')
    BY <2>1, <2>4 DEF SheetInv, Handled
  <2> QED BY <2>2, <2>3, <2>5 DEF SheetInv, Handled, HasReview, reviewPlan
<1> QED BY <1>1, <1>2 DEF SheetInv

LEMMA SheetStep == SheetInv /\ [ReviewNext]_reviewVars => SheetInv'
<1> SUFFICES ASSUME SheetInv, [ReviewNext]_reviewVars PROVE SheetInv'
  OBVIOUS
<1> USE DEF SheetInv
<1>1. CASE resolve
  <2>1. SheetTypeOK'
    BY <1>1 DEF resolve, SheetTypeOK
  <2>2. ASSUME NEW p \in Page PROVE Handled(p)'
    <3>1. sheet[p].shown \in Nat /\ sheet[p].shown <= resolved
      BY DEF SheetTypeOK, Sheet, Handled
    <3>2. HasReview(p)' => HasReview(p)
      BY <1>1, <3>1 DEF resolve, HasReview, reviewPlan
    <3> QED BY <1>1, <3>1, <3>2 DEF resolve, Handled, SheetTypeOK
  <2> QED BY <2>1, <2>2
<1>2. ASSUME NEW p \in Page, ReviewRefresh(p) PROVE SheetInv'
  BY <1>2 DEF ReviewRefresh, SheetTypeOK, Handled, HasReview, reviewPlan
<1>3. ASSUME NEW p \in Page, Reload(p) PROVE SheetInv'
  <2>1. FreshPage \in Sheet
    BY DEF FreshPage, Sheet, NoReview
  <2>2. SheetTypeOK'
    BY <1>3, <2>1 DEF Reload, SheetTypeOK
  <2>3. ASSUME NEW q \in Page PROVE Handled(q)'
    <3>1. CASE q = p
      BY <1>3, <3>1 DEF Reload, SheetTypeOK, FreshPage, NoReview, HasReview, reviewPlan,
                        Handled, HandledOpen
    <3>2. CASE q # p
      <4>1. sheet'[q] = sheet[q] /\ resolved' = resolved /\ blank' = blank /\ kept' = kept
        BY <1>3, <3>2 DEF Reload, SheetTypeOK
      <4>2. HandledOpen(q, sheet[q], kept, putAway) => HandledOpen(q, sheet[q], kept, putAway')
        BY <1>3, <3>2 DEF Reload, HandledOpen
      <4> QED BY <4>1, <4>2 DEF Handled, HasReview, reviewPlan
    <3> QED BY <3>1, <3>2
  <2> QED BY <2>2, <2>3
<1>4. ASSUME NEW p \in Page, closeReview(p) PROVE SheetInv'
  <2> DEFINE s == [sheet[p] EXCEPT !.reviewing = FALSE]
  <2>1. sheet[p] \in Sheet /\ sheet[p].seen = sheet[p].shown
    BY <1>4 DEF closeReview, Reviewing, SheetTypeOK, Handled
  <2>2. s.shown = sheet[p].shown /\ s.seen = sheet[p].seen /\ s \in Sheet
    BY <2>1 DEF Sheet
  <2>3. kept \subseteq kept' /\ putAway \subseteq putAway' /\ Put(p, s)
    BY <1>4 DEF closeReview, dismiss
  <2>4. [page |-> p, review |-> sheet[p].shown] \in putAway'
    BY <1>4 DEF closeReview
  <2> HIDE DEF s
  <2>5. HandledOpen(p, s, kept', putAway')
    BY <2>1, <2>2, <2>4 DEF HandledOpen
  <2> QED BY <2>2, <2>3, <2>5, PlayerKeeps
<1>5. ASSUME NEW p \in Page, NEW s \in Sheet,
             s.shown = sheet[p].shown, s.seen = sheet[p].seen,
             s.reviewing \/ ~sheet[p].reviewing, Put(p, s), UNCHANGED <<kept, putAway>>
      PROVE  SheetInv'
  <2>1. HandledOpen(p, s, kept', putAway')
    BY <1>5 DEF Handled, HandledOpen
  <2> QED BY <1>5, <2>1, PlayerKeeps
<1>6. ASSUME NEW p \in Page, ReviewAgain(p) PROVE SheetInv'
  <2> DEFINE s == [sheet[p] EXCEPT !.reviewing = TRUE]
  <2>1. s \in Sheet /\ s.shown = sheet[p].shown /\ s.seen = sheet[p].seen /\ s.reviewing
    BY DEF SheetTypeOK, Sheet
  <2>2. Put(p, s) /\ UNCHANGED <<kept, putAway>>
    BY <1>6 DEF ReviewAgain
  <2> HIDE DEF s
  <2> QED BY <1>5, <2>1, <2>2
<1>7. ASSUME NEW p \in Page, NEW peek \in BOOLEAN, Flip(p, peek) PROVE SheetInv'
  <2> DEFINE s == [sheet[p] EXCEPT !.peeking = peek]
  <2>1. /\ s \in Sheet /\ s.shown = sheet[p].shown /\ s.seen = sheet[p].seen
        /\ s.reviewing \/ ~sheet[p].reviewing
    BY DEF SheetTypeOK, Sheet
  <2>2. Put(p, s) /\ UNCHANGED <<kept, putAway>>
    BY <1>7 DEF Flip
  <2> HIDE DEF s
  <2> QED BY <1>5, <2>1, <2>2
<1>8. ASSUME NEW p \in Page, NEW shows \in BOOLEAN,
             Put(p, [sheet[p] EXCEPT !.guiding = shows]), UNCHANGED <<kept, putAway>>
      PROVE  SheetInv'
  <2> DEFINE s == [sheet[p] EXCEPT !.guiding = shows]
  <2>1. /\ s \in Sheet /\ s.shown = sheet[p].shown /\ s.seen = sheet[p].seen
        /\ s.reviewing \/ ~sheet[p].reviewing
    BY DEF SheetTypeOK, Sheet
  <2>2. Put(p, s) /\ UNCHANGED <<kept, putAway>>
    BY <1>8
  <2> HIDE DEF s
  <2> QED BY <1>5, <2>1, <2>2
<1>9. ASSUME NEW r \in fresh, TakeReview(r) PROVE SheetInv'
  <2>1. r.page \in Page /\ r.got \in 0..resolved
    BY DEF SheetTypeOK
  <2> DEFINE s == ReviewOpened(sheet[r.page], r.got)
  <2>2. /\ s \in Sheet
        /\ s.shown = r.got
        /\ reviewPlan(r.got) # NoReview => s.seen = r.got
        /\ HandledOpen(r.page, s, kept, putAway)
    BY <2>1, OpenedHandles
  <2>3. sheet' = [sheet EXCEPT ![r.page] = s] /\ fresh' = fresh \ {r}
        /\ UNCHANGED <<resolved, blank, kept, putAway>>
    BY <1>9 DEF TakeReview
  <2> HIDE DEF s
  <2>4. SheetTypeOK'
    BY <2>1, <2>2, <2>3 DEF SheetTypeOK
  <2>5. ASSUME NEW q \in Page PROVE Handled(q)'
    <3>1. sheet'[q] = IF q = r.page THEN s ELSE sheet[q]
      BY <2>3 DEF SheetTypeOK
    <3>2. CASE q = r.page
      BY <2>1, <2>2, <2>3, <3>1, <3>2 DEF Handled, HasReview, reviewPlan, SheetTypeOK
    <3>3. CASE q # r.page
      BY <2>3, <3>1, <3>3 DEF Handled, HasReview, reviewPlan
    <3> QED BY <3>2, <3>3
  <2> QED BY <2>4, <2>5
<1>10. CASE UNCHANGED reviewVars
  BY <1>10 DEF reviewVars, SheetTypeOK, Handled, HasReview, reviewPlan
<1> QED BY <1>1, <1>2, <1>3, <1>4, <1>6, <1>7, <1>8, <1>9, <1>10
        DEF ReviewNext, onMap, onMoves, onReferee, CloseReferee

\* SeatPage and GmPage: on every device, with however many pages open and
\* reads under way, a review that is not in front of the player was put away.
THEOREM ReviewsOpen == ReviewSpec => []UnreadOpens
<1>1. SheetInv => UnreadOpens
  BY DEF SheetInv, SheetTypeOK, Sheet, Handled, HandledOpen, UnreadOpens, HasReview,
         reviewPlan, NoReview
<1> QED BY <1>1, SheetInit, SheetStep, PTL DEF ReviewSpec

-------------------------------------------------------------------------------
(* PhaseClock: an answer was said no later than now, so the time a screen  *)
(* takes from it never runs ahead of the server's.                         *)

Rules == [minutes : Nat, percent : 1..100, grace : Nat, extra : Nat]
Phase == [first : BOOLEAN, kind : {"Movement", "Retreat"}, rules : Rules, deadline : Int,
          started : BOOLEAN, over : BOOLEAN]

\* A screen that has been answered since its clock was last set never runs
\* ahead of the server, by whichever answer it measures.
ClockInv ==
  /\ now \in Nat
  /\ phase \in Phase
  /\ began \in [at : Nat, lent : Nat]
  /\ device \in [skew : Int, set : BOOLEAN]
  /\ screen \in [offset : Int, known : BOOLEAN, deadline : Int]
  /\ clockReads \subseteq [said : 0..now, deadline : Int]
  /\ ~screen.known => screen.deadline = NoClock
  /\ screen.known /\ ~device.set => device.skew + screen.offset <= 0

LEMMA PostedRules == ClockRules \subseteq Rules
BY ClockAssumption DEF ClockRules, Posted, Rules, Most, Least

LEMMA ClockInitInv == ClockInit => ClockInv
<1> SUFFICES ASSUME ClockInit PROVE ClockInv
  OBVIOUS
<1>1. PICK rules \in ClockRules :
        phase = [first |-> TRUE, kind |-> "Movement", rules |-> rules, deadline |-> NoClock,
                 started |-> FALSE, over |-> FALSE]
  BY DEF ClockInit
<1>2. rules \in Rules
  BY PostedRules
<1>3. phase \in Phase
  BY <1>1, <1>2 DEF Phase, NoClock
<1>4. PICK s \in Skews : device = [skew |-> s, set |-> FALSE]
  BY DEF ClockInit
<1>5. s \in Int
  BY ClockAssumption
<1> QED BY <1>3, <1>4, <1>5 DEF ClockInit, ClockInv, NoClock

\* A phase has some minutes, or none where the game has no clock.
LEMMA MinutesType == ASSUME NEW p \in Phase PROVE phaseMinutes(p) \in Nat
<1>1. p.rules \in Rules /\ p.rules.minutes \in Nat /\ p.rules.extra \in Nat
      /\ p.rules.percent \in Nat
  BY DEF Phase, Rules
<1>2. p.rules.minutes * p.rules.percent \in Nat
  BY <1>1
<1>3. (p.rules.minutes * p.rules.percent + 99) \div 100 \in Nat
  BY <1>2
<1> QED BY <1>1, <1>3 DEF phaseMinutes, Most

LEMMA ResetType ==
  ASSUME ClockInv, NEW p \in Phase, NEW carry \in Int, resetDeadline(p, carry)
  PROVE  phase' \in Phase /\ began' \in [at : Nat, lent : Nat]
<1>1. phaseMinutes(p) \in Nat
  BY MinutesType
<1>2. Length(phaseMinutes(p), carry) \in Int
  BY <1>1 DEF Length
<1>3. (IF phaseMinutes(p) = 0 THEN NoClock ELSE now + Length(phaseMinutes(p), carry)) \in Int
  BY <1>2 DEF NoClock, ClockInv
<1>4. phase' \in Phase
  BY <1>3 DEF resetDeadline, Phase
<1> QED BY <1>4 DEF resetDeadline, ClockInv

LEMMA ServerType ==
  ASSUME ClockInv, Server
  PROVE  phase' \in Phase /\ began' \in [at : Nat, lent : Nat]
<1>0. phase \in Phase /\ began \in [at : Nat, lent : Nat] /\ now \in Nat
  BY DEF ClockInv
<1>1. CASE StartClock
  <2>1. [phase EXCEPT !.started = TRUE] \in Phase
    BY <1>0 DEF Phase
  <2> QED BY <1>1, <2>1, ResetType DEF StartClock
<1>2. ASSUME NEW forced \in BOOLEAN, advance(forced)
      PROVE  phase' \in Phase /\ began' \in [at : Nat, lent : Nat]
  <2>1. (IF forced THEN 0 ELSE remaining) \in Int
    BY <1>0 DEF remaining, Most, Phase
  <2>2. ASSUME NEW kind \in {"Movement", "Retreat"}
        PROVE  [phase EXCEPT !.first = FALSE, !.kind = kind] \in Phase
    BY <1>0 DEF Phase
  <2>3. [phase EXCEPT !.over = TRUE, !.deadline = NoClock] \in Phase
    <3>1. \A over \in BOOLEAN, due \in Int :
            [phase EXCEPT !.over = over, !.deadline = due] \in Phase
      BY <1>0 DEF Phase
    <3>2. NoClock \in Int
      BY DEF NoClock
    <3> QED BY <3>1, <3>2
  <2> QED BY <1>0, <1>2, <2>1, <2>2, <2>3, ResetType DEF advance
<1>3. ASSUME NEW typed \in Extensions, onExtend(typed)
      PROVE  phase' \in Phase /\ began' \in [at : Nat, lent : Nat]
  <2>1. Most(1, typed) \in Nat /\ Most(now, phase.deadline) \in Int
    BY <1>0, ClockAssumption DEF Most, Phase
  <2> QED BY <1>0, <1>3, <2>1 DEF onExtend, handleGMExtend, Phase
<1>4. ASSUME NEW revealing \in BOOLEAN, handleGMForce(revealing)
      PROVE  phase' \in Phase /\ began' \in [at : Nat, lent : Nat]
  BY <1>2, <1>4 DEF handleGMForce
<1>5. ASSUME NEW rules \in ClockRules, ClockSettings(rules)
      PROVE  phase' \in Phase /\ began' \in [at : Nat, lent : Nat]
  <2>1. [phase EXCEPT !.rules = rules] \in Phase
    BY <1>0, PostedRules DEF Phase
  <2> QED BY <1>0, <1>5, <2>1, ResetType DEF ClockSettings
<1> QED BY <1>1, <1>2, <1>3, <1>4, <1>5 DEF Server

LEMMA ClockStep == ClockInv /\ [ClockNext]_clockVars => ClockInv'
<1> SUFFICES ASSUME ClockInv, [ClockNext]_clockVars PROVE ClockInv'
  OBVIOUS
<1>1. CASE Server
  BY <1>1, ServerType DEF Server, ClockInv
<1>2. CASE Minute
  BY <1>2 DEF Minute, ClockInv
<1>3. CASE ReadClock
  <2>1. [said |-> now, deadline |-> phase.deadline] \in [said : 0..now, deadline : Int]
    BY DEF ClockInv, Phase
  <2> QED BY <1>3, <2>1 DEF ReadClock, ClockInv
<1>4. CASE SetClock
  BY <1>4, ClockAssumption DEF SetClock, ClockInv
<1>5. ASSUME NEW answer \in clockReads, TakeClock(answer) PROVE ClockInv'
  <2>1. answer.said \in 0..now /\ answer.deadline \in Int /\ device.skew \in Int /\ now \in Nat
    BY DEF ClockInv
  <2>2. /\ screen' = [offset |-> answer.said - (now + device.skew), known |-> TRUE,
                      deadline |-> answer.deadline]
        /\ device' = [device EXCEPT !.set = FALSE]
        /\ UNCHANGED <<now, phase, began>> /\ clockReads' \subseteq clockReads
    BY <1>5 DEF TakeClock, noteServerTime, DateNow
  <2>3. screen' \in [offset : Int, known : BOOLEAN, deadline : Int]
        /\ screen'.known /\ screen'.offset = answer.said - (now + device.skew)
    BY <2>1, <2>2
  <2>4. device' \in [skew : Int, set : BOOLEAN] /\ device'.skew = device.skew
    BY <2>2 DEF ClockInv
  <2>5. device'.skew + screen'.offset <= 0
    BY <2>1, <2>3, <2>4
  <2> QED BY <2>2, <2>3, <2>4, <2>5 DEF ClockInv
<1>6. CASE UNCHANGED clockVars
  BY <1>6 DEF clockVars, ClockInv
<1> QED BY <1>1, <1>2, <1>3, <1>4, <1>5, <1>6 DEF ClockNext

\* clock.ts, Clock.tsx: whatever the clocks of the devices and the rules of
\* the game, and in whatever order answers come, "the deadline has passed" is
\* shown only when the deadline the screen knows has.
THEOREM ToldInTime == ClockSpec => []NobodyIsToldEarly
<1>1. ClockInv => NobodyIsToldEarly
  BY DEF ClockInv, NobodyIsToldEarly, clockTone, msLeft, serverNow, DateNow, NoClock
<1> QED BY <1>1, ClockInitInv, ClockStep, PTL DEF ClockSpec

-------------------------------------------------------------------------------
\* The deadline: what the phase on the board has left is its own period and
\* less than that again, or what it carries on from the phase before it,
\* beside what the master has lent since.
Longest(r) == r.minutes + r.extra
WithinTwo(n, lent) == \E longest \in ClockRules : n < lent + 2 * Longest(longest)

TurnInv ==
  /\ ClockInv
  /\ began.at <= now /\ phase.rules \in ClockRules
  /\ EveryTurnItsClock

LEMMA TurnInitInv == ClockInit => TurnInv
<1> SUFFICES ASSUME ClockInit PROVE TurnInv
  OBVIOUS
<1>1. PICK rules \in ClockRules :
        phase = [first |-> TRUE, kind |-> "Movement", rules |-> rules, deadline |-> NoClock,
                 started |-> FALSE, over |-> FALSE]
  BY DEF ClockInit
<1>2. phase.rules \in ClockRules /\ ~Running
  BY <1>1 DEF Running
<1>3. began.at <= now
  BY DEF ClockInit
<1> QED BY <1>2, <1>3, ClockInitInv DEF TurnInv, EveryTurnItsClock

\* A percentage of the minutes, rounded up, is no more than all of them.
LEMMA ShareOfMinutes ==
  ASSUME NEW m \in Nat \ {0}, NEW p \in 1..100
  PROVE  (m * p + 99) \div 100 \in 1..m
<1>1. m * p \in Nat /\ m * p >= 1 /\ m * p <= m * 100
  OBVIOUS
<1> DEFINE q == m * p
<1> HIDE DEF q
<1>2. q \in Nat /\ q >= 1 /\ q <= m * 100
  BY <1>1 DEF q
<1>3. (q + 99) \div 100 \in 1..m
  BY <1>2
<1> QED BY <1>3 DEF q

\* A phase has a clock when its game has, and none is longer than the longest.
LEMMA PeriodBounds ==
  ASSUME NEW p \in Phase
  PROVE  /\ phaseMinutes(p) \in Nat
         /\ phaseMinutes(p) <= Longest(p.rules)
         /\ phaseMinutes(p) = 0 <=> p.rules.minutes = 0
<1> DEFINE m == p.rules.minutes
           share == (m * p.rules.percent + 99) \div 100
<1>1. m \in Nat /\ p.rules.percent \in 1..100 /\ p.rules.extra \in Nat
  BY DEF Phase, Rules
<1>2. CASE m = 0
  BY <1>1, <1>2 DEF phaseMinutes, Longest
<1>3. CASE m # 0
  <2>1. share \in 1..m
    BY <1>1, <1>3, ShareOfMinutes
  <2> DEFINE base == IF p.kind = "Movement" THEN m ELSE Most(1, share)
  <2> HIDE DEF share
  <2>2. base \in 1..m
    BY <1>1, <1>3, <2>1 DEF Most
  <2>3. phaseMinutes(p) = base + (IF p.first /\ p.kind = "Movement" THEN p.rules.extra ELSE 0)
    BY <1>3 DEF phaseMinutes, share
  <2> HIDE DEF base
  <2> QED BY <1>1, <1>3, <2>2, <2>3 DEF Longest
<1> QED BY <1>2, <1>3

\* A clock that is reset gives the phase its period, and beyond it less than
\* the period again unless what is carried is longer.
LEMMA LengthBounds ==
  ASSUME NEW period \in Nat \ {0}, NEW carry \in Nat
  PROVE  /\ Length(period, carry) \in Nat /\ Length(period, carry) >= period
         /\ Length(period, carry) < 2 * period
              \/ (carry > 0 /\ Length(period, carry) = carry)
BY DEF Length

LEMMA ResetInTime ==
  ASSUME TurnInv, NEW p \in Phase, p.rules \in ClockRules, NEW carry \in Nat,
         resetDeadline(p, carry), now' = now,
         carry > 0 /\ phaseMinutes(p) > 0 => WithinTwo(carry, began.lent)
  PROVE  began'.at <= now' /\ phase'.rules \in ClockRules /\ EveryTurnItsClock'
<1> DEFINE m == phaseMinutes(p)
           deadline == IF m = 0 THEN NoClock ELSE now + Length(m, carry)
           lent == IF carry > 0 THEN began.lent ELSE 0
<1>1. m \in Nat /\ m <= Longest(p.rules) /\ Longest(p.rules) \in Nat
  BY PeriodBounds DEF Phase, Rules, Longest
<1>2. now \in Nat /\ began.lent \in Nat
  BY DEF TurnInv, ClockInv
<1>3. phase' = [p EXCEPT !.deadline = deadline] /\ began' = [at |-> now, lent |-> lent]
  BY DEF resetDeadline
<1>4. /\ phase'.rules = p.rules /\ phase'.kind = p.kind /\ phase'.first = p.first
      /\ phase'.deadline = deadline /\ began'.at = now /\ began'.lent = lent
  BY <1>3 DEF Phase
<1>5. phaseMinutes(phase)' = m
  BY <1>4 DEF phaseMinutes
<1>6. CASE m > 0
  <2>1. deadline = now + Length(m, carry) /\ m \in Nat \ {0} /\ lent \in Nat
    BY <1>1, <1>2, <1>6
  <2> DEFINE l == Length(m, carry)
  <2> HIDE DEF deadline, lent, m, l
  <2>2. l \in Nat /\ l >= m /\ (l < 2 * m \/ (carry > 0 /\ l = carry))
    BY <2>1, LengthBounds DEF l
  <2>3. WithinTwo(l, lent)
    <3>1. CASE l < 2 * m
      BY <1>1, <2>1, <2>2, <3>1 DEF WithinTwo
    <3>2. CASE carry > 0 /\ l = carry
      BY <1>6, <3>2 DEF lent, m
    <3> QED BY <2>2, <3>1, <3>2
  <2>4. phase'.deadline - now = l /\ phase'.deadline >= began'.at + m
    BY <1>2, <1>4, <2>1, <2>2 DEF l
  <2> QED BY <1>2, <1>4, <1>5, <2>3, <2>4 DEF EveryTurnItsClock, WithinTwo, Longest
<1>7. CASE ~(m > 0)
  BY <1>2, <1>4, <1>5, <1>7 DEF EveryTurnItsClock
<1> QED BY <1>6, <1>7

\* What a phase that is running has left is carried on under the same bound.
LEMMA RemainingCarries ==
  ASSUME TurnInv, Running
  PROVE  /\ remaining \in Nat
         /\ remaining > 0 /\ phaseMinutes(phase) > 0 => WithinTwo(remaining, began.lent)
<1>1. now \in Nat /\ phase.deadline \in Int
  BY DEF TurnInv, ClockInv, Phase
<1>2. remaining \in Nat /\ (remaining > 0 => remaining = phase.deadline - now)
  BY <1>1 DEF remaining, Most
<1> QED BY <1>2 DEF TurnInv, EveryTurnItsClock, WithinTwo, Longest

LEMMA AdvanceInTime ==
  ASSUME TurnInv, NEW forced \in BOOLEAN, advance(forced), now' = now
  PROVE  began'.at <= now' /\ phase'.rules \in ClockRules /\ EveryTurnItsClock'
<1>1. phase \in Phase /\ phase.rules \in ClockRules /\ Running
  BY DEF TurnInv, ClockInv, advance
<1>2. ASSUME NEW k \in {"Movement", "Retreat"},
             resetDeadline([phase EXCEPT !.first = FALSE, !.kind = k],
                           IF forced THEN 0 ELSE remaining)
      PROVE  began'.at <= now' /\ phase'.rules \in ClockRules /\ EveryTurnItsClock'
  <2> DEFINE p == [phase EXCEPT !.first = FALSE, !.kind = k]
             carry == IF forced THEN 0 ELSE remaining
  <2>1. p \in Phase /\ p.rules = phase.rules
    BY <1>1 DEF Phase
  <2>2. carry \in Nat
    BY <1>1, RemainingCarries
  <2> HIDE DEF p
  <2>3. phaseMinutes(p) > 0 => phaseMinutes(phase) > 0
    BY <1>1, <2>1, PeriodBounds
  <2>4. carry > 0 /\ phaseMinutes(p) > 0 => WithinTwo(carry, began.lent)
    BY <1>1, <2>3, RemainingCarries
  <2> HIDE DEF carry
  <2>5. resetDeadline(p, carry)
    BY <1>2 DEF p, carry
  <2> QED BY <1>1, <2>1, <2>2, <2>4, <2>5, ResetInTime
<1>3. CASE phase' = [phase EXCEPT !.over = TRUE, !.deadline = NoClock] /\ UNCHANGED began
  <2>1. ~Running' /\ phase'.rules = phase.rules
    BY <1>1, <1>3 DEF Running, Phase
  <2>2. began'.at <= now'
    BY <1>3 DEF TurnInv
  <2> QED BY <1>1, <2>1, <2>2 DEF EveryTurnItsClock
<1> QED BY <1>2, <1>3 DEF advance

LEMMA ServerInTime ==
  ASSUME TurnInv, Server
  PROVE  began'.at <= now' /\ phase'.rules \in ClockRules /\ EveryTurnItsClock'
<1>0. /\ phase \in Phase /\ began \in [at : Nat, lent : Nat] /\ now \in Nat /\ now' = now
      /\ began.at <= now /\ phase.rules \in ClockRules
  BY DEF TurnInv, ClockInv, Server
<1>1. CASE StartClock
  <2>1. [phase EXCEPT !.started = TRUE] \in Phase
        /\ [phase EXCEPT !.started = TRUE].rules = phase.rules
    BY <1>0 DEF Phase
  <2> DEFINE p == [phase EXCEPT !.started = TRUE]
  <2>2. resetDeadline(p, 0)
    BY <1>1 DEF StartClock
  <2> HIDE DEF p
  <2>3. p \in Phase /\ p.rules \in ClockRules
    BY <1>0, <2>1 DEF p
  <2> QED BY <1>0, <2>2, <2>3, ResetInTime
<1>2. CASE advance(FALSE)
  BY <1>0, <1>2, AdvanceInTime
<1>3. ASSUME NEW typed \in Extensions, onExtend(typed)
      PROVE  began'.at <= now' /\ phase'.rules \in ClockRules /\ EveryTurnItsClock'
  <2> DEFINE lent == Most(1, typed)
             deadline == Most(now, phase.deadline) + lent
  <2>1. lent \in Nat \ {0}
    BY ClockAssumption DEF Most
  <2>2. /\ phase' = [phase EXCEPT !.deadline = deadline]
        /\ began' = [began EXCEPT !.lent = @ + lent]
    BY <1>3 DEF onExtend, handleGMExtend
  <2>3. /\ phase'.rules = phase.rules /\ phase'.kind = phase.kind /\ phase'.first = phase.first
        /\ phase'.started = phase.started /\ phase'.over = phase.over
        /\ phase'.deadline = deadline /\ began'.at = began.at /\ began'.lent = began.lent + lent
    BY <1>0, <2>2 DEF Phase
  <2>4. phaseMinutes(phase)' = phaseMinutes(phase) /\ Running' = Running
    BY <2>3 DEF phaseMinutes, Running
  <2>5. ASSUME Running, phaseMinutes(phase) > 0
        PROVE  /\ deadline >= began.at + phaseMinutes(phase)
               /\ WithinTwo(deadline - now, began.lent + lent)
    <3>1. /\ phase.deadline >= began.at + phaseMinutes(phase)
          /\ WithinTwo(phase.deadline - now, began.lent)
      BY <2>5 DEF TurnInv, EveryTurnItsClock, WithinTwo, Longest
    <3>2. phaseMinutes(phase) \in Nat /\ phase.deadline \in Int /\ began.at \in Nat
          /\ began.lent \in Nat
      BY <1>0, PeriodBounds DEF Phase
    <3>3. deadline >= began.at + phaseMinutes(phase)
      BY <1>0, <2>1, <3>1, <3>2 DEF Most
    <3>4. CASE phase.deadline > now
      <4>0. Most(now, phase.deadline) = phase.deadline
        BY <1>0, <3>2, <3>4 DEF Most
      <4> HIDE DEF lent
      <4>1. deadline - now = phase.deadline - now + lent
        BY <1>0, <2>1, <3>2, <4>0
      <4> HIDE DEF deadline
      <4>2. PICK longest \in ClockRules :
              phase.deadline - now < began.lent + 2 * Longest(longest)
        BY <3>1 DEF WithinTwo
      <4>3. Longest(longest) \in Nat
        BY PostedRules DEF Rules, Longest
      <4> QED BY <1>0, <2>1, <3>2, <3>3, <4>1, <4>2, <4>3 DEF WithinTwo
    <3>5. CASE ~(phase.deadline > now)
      <4>1. deadline - now = lent
        BY <1>0, <2>1, <3>2, <3>5 DEF Most
      <4>2. Longest(phase.rules) \in Nat /\ Longest(phase.rules) > 0
        BY <1>0, <2>5, PeriodBounds DEF Phase, Rules, Longest
      <4> HIDE DEF lent, deadline
      <4> QED BY <1>0, <2>1, <3>2, <3>3, <4>1, <4>2 DEF WithinTwo
    <3> QED BY <3>4, <3>5
  <2> HIDE DEF lent, deadline
  <2> QED BY <1>0, <2>3, <2>4, <2>5 DEF EveryTurnItsClock, WithinTwo, Longest
<1>4. ASSUME NEW revealing \in BOOLEAN, handleGMForce(revealing)
      PROVE  began'.at <= now' /\ phase'.rules \in ClockRules /\ EveryTurnItsClock'
  BY <1>0, <1>4, AdvanceInTime DEF handleGMForce
<1>5. ASSUME NEW rules \in ClockRules, ClockSettings(rules)
      PROVE  began'.at <= now' /\ phase'.rules \in ClockRules /\ EveryTurnItsClock'
  <2> DEFINE p == [phase EXCEPT !.rules = rules]
  <2>1. p \in Phase /\ p.rules = rules
    BY <1>0, PostedRules DEF Phase
  <2>2. CASE resetDeadline(p, 0)
    <3> HIDE DEF p
    <3> QED BY <1>0, <2>1, <2>2, ResetInTime
  <2>3. CASE /\ phase' = p /\ UNCHANGED began
             /\ Running => [rules EXCEPT !.grace = 0] = [phase.rules EXCEPT !.grace = 0]
    <3>1. /\ phase'.rules = rules /\ phase'.kind = phase.kind /\ phase'.first = phase.first
          /\ phase'.started = phase.started /\ phase'.over = phase.over
          /\ phase'.deadline = phase.deadline
      BY <1>0, <2>3 DEF Phase
    <3>2. rules \in Rules /\ phase.rules \in Rules
      BY <1>0, PostedRules DEF Phase
    <3>3. Running => /\ rules.minutes = phase.rules.minutes
                     /\ rules.percent = phase.rules.percent /\ rules.extra = phase.rules.extra
      <4> SUFFICES ASSUME Running
                   PROVE  /\ rules.minutes = phase.rules.minutes
                          /\ rules.percent = phase.rules.percent /\ rules.extra = phase.rules.extra
        OBVIOUS
      <4>1. [rules EXCEPT !.grace = 0] = [phase.rules EXCEPT !.grace = 0]
        BY <2>3
      <4>2. /\ [rules EXCEPT !.grace = 0].minutes = rules.minutes
            /\ [rules EXCEPT !.grace = 0].percent = rules.percent
            /\ [rules EXCEPT !.grace = 0].extra = rules.extra
            /\ [phase.rules EXCEPT !.grace = 0].minutes = phase.rules.minutes
            /\ [phase.rules EXCEPT !.grace = 0].percent = phase.rules.percent
            /\ [phase.rules EXCEPT !.grace = 0].extra = phase.rules.extra
        BY <3>2 DEF Rules
      <4> QED BY <4>1, <4>2
    <3>4. Running' = Running /\ (Running => phaseMinutes(phase)' = phaseMinutes(phase))
      BY <3>1, <3>3 DEF Running, phaseMinutes
    <3> QED BY <1>0, <2>3, <3>1, <3>4 DEF EveryTurnItsClock, TurnInv
  <2> QED BY <1>5, <2>2, <2>3 DEF ClockSettings
<1> QED BY <1>1, <1>2, <1>3, <1>4, <1>5 DEF Server

LEMMA TurnStep == TurnInv /\ [ClockNext]_clockVars => TurnInv'
<1> SUFFICES ASSUME TurnInv, [ClockNext]_clockVars PROVE TurnInv'
  OBVIOUS
<1>0. ClockInv /\ ClockInv'
  BY ClockStep DEF TurnInv
<1>1. CASE Server
  BY <1>0, <1>1, ServerInTime DEF TurnInv
<1>2. CASE Minute
  <2>1. now' = now + 1 /\ UNCHANGED <<phase, began>> /\ now \in Nat /\ phase.deadline \in Int
        /\ began \in [at : Nat, lent : Nat]
    BY <1>0, <1>2 DEF Minute, ClockInv, Phase
  <2>2. Running' = Running /\ phaseMinutes(phase)' = phaseMinutes(phase)
    BY <2>1 DEF Running, phaseMinutes
  <2>3. ASSUME Running, phaseMinutes(phase) > 0, WithinTwo(phase.deadline - now, began.lent)
        PROVE  WithinTwo(phase.deadline - now', began.lent)
    <3>1. PICK longest \in ClockRules : phase.deadline - now < began.lent + 2 * Longest(longest)
      BY <2>3 DEF WithinTwo
    <3>2. Longest(longest) \in Nat
      BY PostedRules DEF Rules, Longest
    <3> QED BY <2>1, <3>1, <3>2 DEF WithinTwo
  <2>4. EveryTurnItsClock'
    BY <2>1, <2>2, <2>3 DEF TurnInv, EveryTurnItsClock, WithinTwo, Longest
  <2> QED BY <1>0, <2>1, <2>4 DEF TurnInv
<1>3. CASE UNCHANGED <<now, phase, began>>
  BY <1>0, <1>3 DEF TurnInv, EveryTurnItsClock, Running, phaseMinutes
<1> QED BY <1>1, <1>2, <1>3 DEF ClockNext, ReadClock, SetClock, TakeClock, clockVars

\* resetDeadline, "both are at least T": with every clock that may be typed and
\* for every length of game, a phase has its period from where its clock was
\* reset, and what early phases carry on stays under two of the longest.
THEOREM TurnsHaveTheirClock == ClockSpec => []EveryTurnItsClock
<1>1. TurnInv => EveryTurnItsClock
  BY DEF TurnInv
<1> QED BY <1>1, TurnInitInv, TurnStep, PTL DEF ClockSpec

-------------------------------------------------------------------------------
(* GamesList: no game is thrown away by one press.  A row that is armed    *)
(* stands in the list and was pressed while it stood; no list has a game   *)
(* twice, so what unarms a row unarms no other one of that game.           *)

GameRow == [id : Game, started : BOOLEAN]
Times == {0, 1, 2}
Presses == [{"list", "admin"} -> [Game -> Times]]
TwicePressed == [page : {"list", "admin"}, id : Game, block : {"playing", "waiting", "table", "gone"},
                 said : {"none", "deleted", "refused"}, presses : {2, 3}]

EachOnce(list) ==
  list \in Seq(GameRow) /\ \A i, j \in DOMAIN list : list[i].id = list[j].id => i = j
Stands(a, list) == \E k \in DOMAIN list : list[k].id = a.id /\ RowBlock(list[k]) = a.block

\* The armed rows, on a list and with what was pressed.
Armed(rows, list, times) ==
  /\ \A a \in rows : a.id \in Game /\ Stands(a, list) /\ times["list"][a.id] # 0
  /\ \A a, b \in rows : a.id = b.id => a = b

PressInv ==
  /\ EachOnce(games) /\ EachOnce(shownRows) /\ EachOnce(adminTable)
  /\ \A list \in polls : EachOnce(list)
  /\ \A k \in DOMAIN games : games[k].id \in born
  /\ pressed \in Presses
  /\ Armed(armed, shownRows, pressed)
  /\ inPlay # NoGame => inPlay \in Game /\ pressed["admin"][inPlay] # 0
  /\ deletes \subseteq TwicePressed

LEMMA PressInitInv == ListInit => PressInv
BY DEF ListInit, PressInv, EachOnce, Armed, Presses, Times

\* A list without one of its games has every other one, and each once.
LEMMA ListWithoutOne ==
  ASSUME NEW list, EachOnce(list), NEW g
  PROVE  LET rest == ListWithout(list, g)
         IN /\ EachOnce(rest)
            /\ \A k \in DOMAIN rest : \E j \in DOMAIN list : rest[k] = list[j]
            /\ \A j \in DOMAIN list : list[j].id # g => \E k \in DOMAIN rest : rest[k] = list[j]
<1> DEFINE rest == ListWithout(list, g)
           i == Place(list, g)
<1>1. CASE g \in Listed(list)
  <2>1. i \in 1..Len(list) /\ list[i].id = g
    BY <1>1 DEF Place, Listed, EachOnce
  <2>2. /\ Len(list) \in Nat /\ DOMAIN list = 1..Len(list)
        /\ \A k \in 1..Len(list) : list[k] \in GameRow
    BY DEF EachOnce
  <2>3. rest = SubSeq(list, 1, i - 1) \o SubSeq(list, i + 1, Len(list))
    BY <1>1 DEF ListWithout, RemoveAt
  <2> HIDE DEF i, rest
  <2>4. /\ i - 1 \in Int /\ i + 1 \in Int /\ Len(list) \in Int /\ 1 \in Int
        /\ \A k \in 1..(i - 1) : list[k] \in GameRow
        /\ \A k \in (i + 1)..Len(list) : list[k] \in GameRow
    BY <2>1, <2>2
  <2> DEFINE low == SubSeq(list, 1, i - 1)
             high == SubSeq(list, i + 1, Len(list))
  <2>5. /\ low \in Seq(GameRow) /\ Len(low) = i - 1
        /\ \A k \in 1..(i - 1) : low[k] = list[k]
    <3>1. /\ low \in Seq(GameRow) /\ Len(low) = IF 1 <= i - 1 THEN i - 1 - 1 + 1 ELSE 0
          /\ \A k \in 1..(i - 1 - 1 + 1) : low[k] = list[1 + k - 1]
      BY <2>4, SubSeqProperties
    <3>2. Len(low) = i - 1
      BY <2>1, <3>1
    <3>3. \A k \in 1..(i - 1) : low[k] = list[k]
      BY <2>1, <3>1
    <3> QED BY <3>1, <3>2, <3>3
  <2>6. /\ high \in Seq(GameRow) /\ Len(high) = Len(list) - i
        /\ \A k \in 1..(Len(list) - i) : high[k] = list[i + k]
    <3>1. /\ high \in Seq(GameRow)
          /\ Len(high) = IF i + 1 <= Len(list) THEN Len(list) - (i + 1) + 1 ELSE 0
          /\ \A k \in 1..(Len(list) - (i + 1) + 1) : high[k] = list[(i + 1) + k - 1]
      BY <2>4, SubSeqProperties
    <3>2. Len(high) = Len(list) - i
      BY <2>1, <2>2, <3>1
    <3>3. \A k \in 1..(Len(list) - i) : high[k] = list[i + k]
      BY <2>1, <2>2, <3>1
    <3> QED BY <3>1, <3>2, <3>3
  <2> HIDE DEF low, high
  <2>7. /\ rest \in Seq(GameRow) /\ Len(rest) = Len(low) + Len(high)
        /\ \A k \in 1..(Len(low) + Len(high)) :
             rest[k] = IF k <= Len(low) THEN low[k] ELSE high[k - Len(low)]
    BY <2>3, <2>5, <2>6, ConcatProperties DEF low, high
  <2>8. /\ Len(rest) = Len(list) - 1 /\ DOMAIN rest = 1..(Len(list) - 1)
        /\ \A k \in 1..(Len(list) - 1) : rest[k] = list[IF k < i THEN k ELSE k + 1]
    <3>1. Len(rest) = Len(list) - 1 /\ DOMAIN rest = 1..(Len(list) - 1)
      BY <2>1, <2>2, <2>5, <2>6, <2>7
    <3>2. ASSUME NEW k \in 1..(Len(list) - 1)
          PROVE  rest[k] = list[IF k < i THEN k ELSE k + 1]
      <4>1. CASE k < i
        <5>1. k \in 1..(i - 1) /\ k <= i - 1 /\ k \in 1..(Len(low) + Len(high))
          BY <2>1, <2>2, <2>5, <2>6, <4>1
        <5>2. rest[k] = low[k]
          BY <2>5, <2>7, <5>1
        <5> QED BY <2>5, <4>1, <5>1, <5>2
      <4>2. CASE ~(k < i)
        <5>1. k - (i - 1) \in 1..(Len(list) - i) /\ i + (k - (i - 1)) = k + 1
              /\ ~(k <= i - 1) /\ k \in 1..(Len(low) + Len(high))
          BY <2>1, <2>2, <2>5, <2>6, <4>2
        <5>2. rest[k] = high[k - (i - 1)]
          BY <2>5, <2>7, <5>1
        <5> QED BY <2>6, <4>2, <5>1, <5>2
      <4> QED BY <4>1, <4>2
    <3> QED BY <3>1, <3>2
  <2>9. \A j, k \in 1..(Len(list) - 1) : rest[j].id = rest[k].id => j = k
    <3>1. SUFFICES ASSUME NEW j \in 1..(Len(list) - 1), NEW k \in 1..(Len(list) - 1),
                          rest[j].id = rest[k].id
                   PROVE  j = k
      OBVIOUS
    <3> DEFINE to(n) == IF n < i THEN n ELSE n + 1
    <3>2. to(j) \in 1..Len(list) /\ to(k) \in 1..Len(list)
      BY <2>1, <2>2
    <3>3. list[to(j)].id = list[to(k)].id
      BY <2>8, <3>1
    <3>4. to(j) = to(k)
      BY <2>2, <3>2, <3>3 DEF EachOnce
    <3> QED BY <2>1, <2>2, <3>4
  <2>10. \A k \in DOMAIN rest : \E j \in DOMAIN list : rest[k] = list[j]
    BY <2>1, <2>2, <2>8
  <2>11. ASSUME NEW j \in DOMAIN list, list[j].id # g PROVE \E k \in DOMAIN rest : rest[k] = list[j]
    <3>1. j # i
      BY <2>1, <2>11
    <3>2. CASE j < i
      BY <2>1, <2>2, <2>8, <3>2
    <3>3. CASE j > i
      <4>1. j - 1 \in 1..(Len(list) - 1) /\ ~(j - 1 < i) /\ (j - 1) + 1 = j
        BY <2>1, <2>2, <3>3
      <4> QED BY <2>8, <4>1
    <3> QED BY <2>1, <2>2, <3>1, <3>2, <3>3
  <2> QED BY <2>7, <2>8, <2>9, <2>10, <2>11 DEF EachOnce, rest
<1>2. CASE g \notin Listed(list)
  BY <1>2 DEF ListWithout
<1> QED BY <1>1, <1>2

\* Unarming some rows of a page takes nothing from the others.
LEMMA UnpressedTimes ==
  ASSUME pressed \in Presses, NEW page \in {"list", "admin"}, NEW gs
  PROVE  /\ Unpressed(page, gs) \in Presses
         /\ \A g \in Game : g \notin gs => Unpressed(page, gs)[page][g] = pressed[page][g]
         /\ \A other \in {"list", "admin"} :
              other # page => Unpressed(page, gs)[other] = pressed[other]
BY DEF Unpressed, Times, Presses

LEMMA PressedTimes ==
  ASSUME pressed \in Presses, NEW page \in {"list", "admin"}, NEW g \in Game, Pressed(page, g)
  PROVE  /\ pressed' \in Presses
         /\ pressed'[page][g] # 0
         /\ \A h \in Game, other \in {"list", "admin"} :
              pressed[other][h] # 0 => pressed'[other][h] # 0
BY DEF Pressed, Times, Presses

\* A delete that is sent comes of a row that was pressed before.
LEMMA SentTwice ==
  ASSUME PressInv, NEW page \in {"list", "admin"}, NEW g \in Game,
         NEW block \in {"playing", "waiting", "table"}, Sent(page, g, block),
         pressed[page][g] # 0
  PROVE  deletes' \subseteq TwicePressed
<1>1. pressed[page][g] + 1 \in {2, 3}
  BY DEF PressInv, Times, Presses
<1> QED BY <1>1 DEF PressInv, Sent, TwicePressed

\* Fewer rows armed, on a list they still stand in.
LEMMA FewerArmed ==
  ASSUME NEW rows, NEW list, NEW times, Armed(rows, list, times),
         NEW few \in SUBSET rows, NEW after, NEW then,
         \A a \in few : Stands(a, after) /\ then["list"][a.id] # 0
  PROVE  Armed(few, after, then)
BY DEF Armed

LEMMA PressStep == PressInv /\ [ListNext]_listVars => PressInv'
<1> SUFFICES ASSUME PressInv, [ListNext]_listVars PROVE PressInv'
  OBVIOUS
<1> USE ListAssumption
<1>0. /\ EachOnce(games) /\ EachOnce(shownRows) /\ EachOnce(adminTable)
      /\ \A list \in polls : EachOnce(list)
      /\ \A k \in DOMAIN games : games[k].id \in born
      /\ pressed \in Presses
      /\ Armed(armed, shownRows, pressed)
      /\ inPlay # NoGame => inPlay \in Game /\ pressed["admin"][inPlay] # 0
      /\ deletes \subseteq TwicePressed
  BY DEF PressInv
<1>1. ASSUME NEW g \in Game, createGame(g) PROVE PressInv'
  <2> DEFINE one == [id |-> g, started |-> FALSE]
  <2>1. one \in GameRow /\ <<one>> \in Seq(GameRow) /\ games \in Seq(GameRow) /\ one.id = g
    BY <1>0 DEF GameRow, EachOnce
  <2>2. /\ g \notin born /\ born' = born \cup {g} /\ games' = <<one>> \o games
        /\ UNCHANGED <<shownRows, armed, polls, adminTable, inPlay, busy, deletes, pressed>>
    BY <1>1 DEF createGame
  <2> HIDE DEF one
  <2>3. /\ games' \in Seq(GameRow) /\ Len(games') = Len(games) + 1
        /\ \A k \in 1..(Len(games) + 1) : games'[k] = IF k = 1 THEN one ELSE games[k - 1]
    <3>1. /\ games' \in Seq(GameRow) /\ Len(games') = Len(<<one>>) + Len(games)
          /\ \A k \in 1..(Len(<<one>>) + Len(games)) :
               games'[k] = IF k <= Len(<<one>>) THEN <<one>>[k] ELSE games[k - Len(<<one>>)]
      BY <2>1, <2>2, ConcatProperties
    <3>2. Len(<<one>>) = 1 /\ <<one>>[1] = one /\ Len(games) \in Nat
      BY <2>1
    <3> QED BY <3>1, <3>2
  <2>4. \A k \in 2..(Len(games) + 1) : k - 1 \in DOMAIN games /\ games'[k].id \in born
    BY <1>0, <2>1, <2>3
  <2>5. DOMAIN games' = 1..(Len(games) + 1) /\ Len(games) \in Nat
    BY <2>1, <2>3
  <2>6. ASSUME NEW j \in DOMAIN games', NEW k \in DOMAIN games', games'[j].id = games'[k].id
        PROVE  j = k
    <3>1. CASE j = 1
      BY <2>1, <2>2, <2>3, <2>4, <2>5, <2>6, <3>1
    <3>2. CASE k = 1
      BY <2>1, <2>2, <2>3, <2>4, <2>5, <2>6, <3>2
    <3>3. CASE j # 1 /\ k # 1
      <4>1. j \in 2..(Len(games) + 1) /\ k \in 2..(Len(games) + 1)
        BY <2>5, <3>3
      <4>2. games'[j] = games[j - 1] /\ games'[k] = games[k - 1]
        BY <2>3, <3>3, <4>1
      <4>3. j - 1 = k - 1
        BY <1>0, <2>4, <2>6, <4>1, <4>2 DEF EachOnce
      <4> QED BY <4>1, <4>3
    <3> QED BY <3>1, <3>2, <3>3
  <2>7. \A k \in DOMAIN games' : games'[k].id \in born'
    BY <2>1, <2>2, <2>3, <2>4, <2>5
  <2> QED BY <1>0, <2>2, <2>3, <2>6, <2>7 DEF EachOnce, PressInv, Armed, Stands
<1>2. ASSUME NEW g \in Game, StartGame(g) PROVE PressInv'
  <2> DEFINE i == Place(games, g)
  <2>1. /\ i \in DOMAIN games /\ games \in Seq(GameRow)
        /\ games' = [games EXCEPT ![i].started = TRUE]
        /\ UNCHANGED <<born, shownRows, armed, polls, adminTable, inPlay, busy, deletes, pressed>>
    BY <1>0, <1>2 DEF StartGame, Place, Listed, EachOnce
  <2> HIDE DEF i
  <2>2. games[i] \in GameRow
    BY <2>1
  <2>3. [games[i] EXCEPT !.started = TRUE] \in GameRow
        /\ [games[i] EXCEPT !.started = TRUE].id = games[i].id
    BY <2>2 DEF GameRow
  <2>4. games' \in Seq(GameRow) /\ DOMAIN games' = DOMAIN games
        /\ \A k \in DOMAIN games : games'[k].id = games[k].id
    BY <2>1, <2>3
  <2> QED BY <1>0, <2>1, <2>4 DEF EachOnce, PressInv, Armed, Stands
<1>3. CASE handleListGames
  BY <1>0, <1>3 DEF handleListGames, PressInv, EachOnce, Armed, Stands
<1>4. CASE OpenAdmin
  BY <1>0, <1>4 DEF OpenAdmin, PressInv, EachOnce, Armed, Stands
<1>5. CASE DisarmAdmin
  <2>1. /\ inPlay' = NoGame /\ pressed' = Unpressed("admin", Game)
        /\ UNCHANGED <<games, born, shownRows, armed, polls, adminTable, busy, deletes>>
    BY <1>5 DEF DisarmAdmin
  <2>2. pressed' \in Presses /\ pressed'["list"] = pressed["list"]
    BY <1>0, <2>1, UnpressedTimes
  <2> QED BY <1>0, <2>1, <2>2 DEF PressInv, EachOnce, Armed, Stands
<1>6. ASSUME NEW list \in polls, Polled(list) PROVE PressInv'
  <2> DEFINE gone == Game \ {a.id : a \in KeptRow(list)}
  <2>1. /\ shownRows' = list /\ armed' = KeptRow(list) /\ pressed' = Unpressed("list", gone)
        /\ polls' = polls \ {list} /\ UNCHANGED <<games, born, adminTable, inPlay>>
    BY <1>6 DEF Polled, Redrawn
  <2>2. \A d \in deletes' : \E e \in deletes : d \in {e, [e EXCEPT !.block = "gone"]}
    BY <1>6 DEF Polled, Redrawn
  <2>3. armed' \in SUBSET armed /\ \A a \in armed' : a.id \notin gone /\ Stands(a, list)
    BY <2>1 DEF KeptRow, Standing, Stands
  <2> HIDE DEF gone
  <2>4. \A a \in armed' : Stands(a, list) /\ pressed'["list"][a.id] # 0
    BY <1>0, <2>1, <2>3, UnpressedTimes DEF Armed
  <2>5. /\ pressed' \in Presses /\ pressed'["admin"] = pressed["admin"]
    BY <1>0, <2>1, UnpressedTimes
  <2>6. deletes' \subseteq TwicePressed
    BY <1>0, <2>2 DEF TwicePressed
  <2>7. Armed(armed', list, pressed')
    BY <1>0, <2>3, <2>4, FewerArmed
  <2> QED BY <1>0, <2>1, <2>5, <2>6, <2>7 DEF PressInv, EachOnce, Armed, Stands
<1>7. ASSUME NEW k, press(k) PROVE PressInv'
  <2> DEFINE row == Row(shownRows, k)
  <2>1. /\ k \in DOMAIN shownRows /\ Pressed("list", row.id)
        /\ IF ArmedRow(row) = {} THEN armed' = armed \cup {row} /\ UNCHANGED deletes
           ELSE Sent("list", row.id, row.block) /\ UNCHANGED armed
        /\ UNCHANGED <<games, born, shownRows, polls, adminTable, inPlay, busy>>
    BY <1>7 DEF press
  <2>2. shownRows[k] \in GameRow
    BY <1>0, <2>1 DEF EachOnce
  <2>3. row.id \in Game /\ row.block \in {"playing", "waiting"} /\ Stands(row, shownRows)
        /\ row.id = shownRows[k].id /\ row.block = RowBlock(shownRows[k])
    BY <2>1, <2>2 DEF Row, RowBlock, GameRow, Stands
  <2> HIDE DEF row
  <2>4. /\ pressed' \in Presses /\ pressed'["list"][row.id] # 0
        /\ \A h \in Game, other \in {"list", "admin"} :
             pressed[other][h] # 0 => pressed'[other][h] # 0
    BY <1>0, <2>1, <2>3, PressedTimes
  <2>5. CASE ArmedRow(row) = {}
    <3>1. \A a \in armed : a.id # row.id
      <4>1. SUFFICES ASSUME NEW a \in armed, a.id = row.id PROVE FALSE
        OBVIOUS
      <4>2. PICK j \in DOMAIN shownRows : shownRows[j].id = a.id /\ RowBlock(shownRows[j]) = a.block
        BY <1>0, <4>1 DEF Armed, Stands
      <4>3. j = k
        BY <1>0, <2>1, <2>3, <4>1, <4>2 DEF EachOnce
      <4> QED BY <2>3, <2>5, <4>1, <4>2, <4>3 DEF ArmedRow
    <3>2. Armed(armed', shownRows, pressed')
      BY <1>0, <2>1, <2>3, <2>4, <2>5, <3>1 DEF Armed
    <3> QED BY <1>0, <2>1, <2>4, <2>5, <3>2 DEF PressInv, EachOnce, Armed, Stands
  <2>6. CASE ArmedRow(row) # {}
    <3>1. pressed["list"][row.id] # 0
      BY <1>0, <2>6 DEF ArmedRow, Armed
    <3>2. deletes' \subseteq TwicePressed
      BY <2>1, <2>3, <2>6, <3>1, SentTwice
    <3>3. Armed(armed', shownRows, pressed')
      BY <1>0, <2>1, <2>4, <2>6 DEF Armed
    <3> QED BY <1>0, <2>1, <2>4, <3>2, <3>3 DEF PressInv, EachOnce, Armed, Stands
  <2> QED BY <2>5, <2>6
<1>8. ASSUME NEW k, pressAdmin(k) PROVE PressInv'
  <2> DEFINE g == adminTable[k].id
  <2>1. /\ k \in DOMAIN adminTable
        /\ IF inPlay = g
           THEN Sent("admin", g, "table") /\ Pressed("admin", g) /\ UNCHANGED inPlay
           ELSE /\ inPlay' = g /\ UNCHANGED deletes
                /\ pressed' = [pressed EXCEPT !["admin"] = [h \in Game |-> IF h = g THEN 1 ELSE 0]]
        /\ UNCHANGED <<games, born, shownRows, armed, polls, adminTable>>
    BY <1>8 DEF pressAdmin
  <2>2. adminTable[k] \in GameRow
    BY <1>0, <2>1 DEF EachOnce
  <2>3. g \in Game
    BY <2>2 DEF GameRow
  <2> HIDE DEF g
  <2>4. CASE inPlay = g
    <3>1. /\ pressed' \in Presses
          /\ \A h \in Game, other \in {"list", "admin"} :
               pressed[other][h] # 0 => pressed'[other][h] # 0
      BY <1>0, <2>1, <2>3, <2>4, PressedTimes
    <3>2. pressed["admin"][g] # 0
      BY <1>0, <2>3, <2>4
    <3>3. deletes' \subseteq TwicePressed
      BY <2>1, <2>3, <2>4, <3>2, SentTwice
    <3>4. Armed(armed', shownRows, pressed')
      BY <1>0, <2>1, <3>1 DEF Armed
    <3>5. inPlay' \in Game /\ pressed'["admin"][inPlay'] # 0
      BY <2>1, <2>3, <2>4, <3>1, <3>2
    <3> QED BY <1>0, <2>1, <3>1, <3>3, <3>4, <3>5 DEF PressInv, EachOnce, Armed, Stands
  <2>5. CASE inPlay # g
    <3>1. /\ pressed' \in Presses
          /\ pressed'["admin"][g] # 0 /\ pressed'["list"] = pressed["list"]
      BY <1>0, <2>1, <2>3, <2>5 DEF Times, Presses
    <3> QED BY <1>0, <2>1, <2>3, <2>5, <3>1 DEF PressInv, EachOnce, Armed, Stands
  <2> QED BY <2>4, <2>5
<1>9. ASSUME NEW a \in armed, Disarm(a) PROVE PressInv'
  <2>1. /\ armed' = armed \ {a} /\ pressed' = Unpressed("list", {a.id})
        /\ UNCHANGED <<games, born, shownRows, polls, adminTable, inPlay, busy, deletes>>
    BY <1>9 DEF Disarm
  <2>2. /\ pressed' \in Presses /\ pressed'["admin"] = pressed["admin"]
        /\ \A b \in armed' : pressed'["list"][b.id] # 0
    BY <1>0, <2>1, UnpressedTimes DEF Armed
  <2>3. Armed(armed', shownRows, pressed')
    BY <1>0, <2>1, <2>2 DEF Armed
  <2> QED BY <1>0, <2>1, <2>2, <2>3 DEF PressInv, EachOnce, Armed, Stands
<1>10. ASSUME NEW d \in deletes, handleAdminDeleteGame(d) PROVE PressInv'
  <2>1. PICK session \in BOOLEAN :
          /\ deletes' = (deletes \ {d}) \cup
               {[d EXCEPT !.said = IF session /\ d.id \in Listed(games) THEN "deleted" ELSE "refused"]}
          /\ games' = IF session THEN ListWithout(games, d.id) ELSE games
    BY <1>10 DEF handleAdminDeleteGame
  <2>2. deletes' \subseteq TwicePressed
    BY <1>0, <2>1 DEF TwicePressed
  <2>3. EachOnce(games') /\ \A k \in DOMAIN games' : \E j \in DOMAIN games : games'[k] = games[j]
    BY <1>0, <2>1, ListWithoutOne
  <2>4. \A k \in DOMAIN games' : games'[k].id \in born
    BY <1>0, <2>3
  <2>5. UNCHANGED <<born, shownRows, armed, polls, adminTable, inPlay, busy, pressed>>
    BY <1>10 DEF handleAdminDeleteGame
  <2> QED BY <1>0, <2>2, <2>3, <2>4, <2>5 DEF PressInv, EachOnce, Armed, Stands
<1>11. ASSUME NEW d \in deletes, deleteGame(d) PROVE PressInv'
  <2> DEFINE over == {a \in armed : a.id = d.id /\ (d.said = "deleted" \/ a.block = d.block)}
  <2>1. /\ deletes' = deletes \ {d} /\ armed' = armed \ over
        /\ pressed' = Unpressed("list", {a.id : a \in over})
        /\ shownRows' = IF d.said = "deleted" THEN ListWithout(shownRows, d.id) ELSE shownRows
        /\ UNCHANGED <<games, born, polls, adminTable, inPlay, busy>>
    BY <1>11 DEF deleteGame
  <2>2. /\ EachOnce(shownRows')
        /\ \A a \in armed : d.said = "deleted" => (a.id # d.id => Stands(a, shownRows'))
    BY <1>0, <2>1, ListWithoutOne DEF Armed, Stands
  <2>3. \A a \in armed' : Stands(a, shownRows')
    BY <1>0, <2>1, <2>2 DEF Armed
  <2>4. /\ pressed' \in Presses /\ pressed'["admin"] = pressed["admin"]
        /\ \A b \in armed' : pressed'["list"][b.id] # 0
    BY <1>0, <2>1, UnpressedTimes DEF Armed
  <2>5. Armed(armed', shownRows', pressed')
    BY <1>0, <2>1, <2>3, <2>4 DEF Armed
  <2> QED BY <1>0, <2>1, <2>2, <2>4, <2>5 DEF PressInv, EachOnce
<1>12. ASSUME NEW d \in deletes, remove(d) PROVE PressInv'
  <2>1. /\ deletes' = deletes \ {d} /\ inPlay' = NoGame /\ pressed' = Unpressed("admin", Game)
        /\ adminTable' = IF d.said = "deleted" THEN ListWithout(adminTable, d.id) ELSE adminTable
        /\ UNCHANGED <<games, born, shownRows, armed, polls>>
    BY <1>12 DEF remove
  <2>2. EachOnce(adminTable')
    BY <1>0, <2>1, ListWithoutOne
  <2>3. pressed' \in Presses /\ pressed'["list"] = pressed["list"]
    BY <1>0, <2>1, UnpressedTimes
  <2> QED BY <1>0, <2>1, <2>2, <2>3 DEF PressInv, EachOnce, Armed, Stands
<1>13. CASE UNCHANGED listVars
  BY <1>0, <1>13 DEF listVars, PressInv, EachOnce, Armed, Stands
<1> QED BY <1>1, <1>2, <1>3, <1>4, <1>5, <1>6, <1>7, <1>8, <1>9, <1>10, <1>11, <1>12, <1>13
        DEF ListNext

\* DeleteGame and GameTable: whatever the games, the polls and the owner do, a
\* delete that was sent was pressed twice on its own row.
THEOREM DeletesArePressedTwice == ListSpec => []PressedTwice
<1>1. PressInv => PressedTwice
  BY DEF PressInv, PressedTwice, TwicePressed
<1> QED BY <1>1, PressInitInv, PressStep, PTL DEF ListSpec

-------------------------------------------------------------------------------
(* SandboxBoard: a read that still counts is of the page's board and power,*)
(* and as long as answers are taken as they were given, the last on its way*)
(* brings the server's board.                                              *)

\* The sandbox: what the plan is read from.
Position == [phase : Nat, orders : SUBSET Site, over : BOOLEAN]
Answer == [what : {"order", "adjudicate"}, got : Position]
IsRead(r) ==
  r \in [power : {r.power}, kind : {r.kind}, left : SUBSET Site, open : SUBSET Site,
         missed : SUBSET Site, cancelled : BOOLEAN]

\* No answer on its way brings another board than the page's.
Settling == \A i \in DOMAIN answers : answers[i].got = shown

\* As long as answers are taken as they were given, the last on its way brings
\* the server's board, and with none the page has it.
LastIsServer ==
  /\ \A i \in DOMAIN answers : i = Len(answers) => answers[i].got = sandbox
  /\ answers = <<>> /\ shown # NoBoard => shown = sandbox

Offered == {p \in candidates(shown, power) : Offers(sandbox, p)}

\* A read that still counts is of the page's board and power, and what it was
\* answered is what the server would say now, unless another board comes.
ReadGood(r) ==
  /\ r.power = power /\ r.kind = phaseKind(shown)
  /\ r.left \subseteq candidates(shown, power) /\ r.left \cap r.missed = {}
  /\ Settling => r.open = (Offered \ r.left) \ r.missed

PlanGood ==
  /\ plan.power = power /\ plan.kind = phaseKind(shown)
  /\ Settling => plan.trees = Offered \ plan.missed

PlanComes == (\E r \in reads : ~r.cancelled) \/ PlanGood

InOrder ==
  /\ LastIsServer
  /\ shown # NoBoard => PlanComes /\ \A r \in reads : ~r.cancelled => ReadGood(r)

SandInv ==
  /\ sandbox \in Position /\ answers \in Seq(Answer) /\ overtaken \in BOOLEAN
  /\ \A q \in posts : q.what \in {"order", "adjudicate"}
                      /\ (q.what = "order" => q.site \in Site)
  /\ \A r \in reads : IsRead(r) /\ r.cancelled \in BOOLEAN
  /\ \A r, s \in reads : ~r.cancelled /\ ~s.cancelled => r = s
  /\ ~overtaken => InOrder

LEMMA SandInitInv == SandboxInit => SandInv
<1> SUFFICES ASSUME SandboxInit PROVE SandInv
  OBVIOUS
<1>1. sandbox \in Position /\ answers \in Seq(Answer) /\ overtaken \in BOOLEAN
      /\ posts = {} /\ reads = {} /\ shown = NoBoard /\ DOMAIN answers = {}
  <2>1. << >> \in Seq(Answer) /\ DOMAIN << >> = {}
    OBVIOUS
  <2> QED BY <2>1 DEF SandboxInit, Position
<1> QED BY <1>1 DEF SandInv, InOrder, LastIsServer

LEMMA CancelledRead ==
  ASSUME NEW r, IsRead(r)
  PROVE  IsRead(Cancelled(r)) /\ Cancelled(r).cancelled = TRUE
BY DEF IsRead, Cancelled

\* The page redraws: on a board it has already, for the power it has already,
\* nothing changes; else the reads are cancelled and the plan is read anew.
LEMMA DrawKeeps ==
  ASSUME SandInv, NEW b, NEW of, Draw(b, of), sandbox' = sandbox, posts' = posts,
         answers' \in Seq(Answer), overtaken' \in BOOLEAN,
         ~overtaken' => ~overtaken /\ LastIsServer',
         ~overtaken' /\ b = shown /\ Settling' => Settling
  PROVE  SandInv'
<1>1. shown' = b /\ power' = Settled(b, of)
  BY DEF Draw
<1>2. CASE b = shown /\ power' = power
  <2>1. UNCHANGED <<shown, power, plan, reads>>
    BY <1>1, <1>2 DEF Draw
  <2>2. Offered' = Offered /\ candidates(shown, power)' = candidates(shown, power)
    BY <2>1 DEF Offered, candidates, phaseKind, Offers
  <2>3. ASSUME ~overtaken', shown' # NoBoard PROVE (PlanComes /\ \A r \in reads : ~r.cancelled => ReadGood(r))'
    <3>1. PlanComes /\ \A r \in reads : ~r.cancelled => ReadGood(r)
      BY <2>1, <2>3 DEF SandInv, InOrder
    <3>2. Settling' => Settling
      BY <1>2, <2>3
    <3>3. PlanGood => PlanGood'
      BY <2>1, <2>2, <3>2 DEF PlanGood, phaseKind
    <3>4. \A r \in reads : ReadGood(r) => ReadGood(r)'
      BY <2>1, <2>2, <3>2 DEF ReadGood, phaseKind
    <3> QED BY <2>1, <3>1, <3>3, <3>4 DEF PlanComes
  <2> QED BY <2>1, <2>3 DEF SandInv, InOrder
<1>3. CASE ~(b = shown /\ power' = power)
  <2> DEFINE past == {Cancelled(r) : r \in reads}
             next == NewRead(b, Settled(b, of))
  <2>1. \A r \in past : IsRead(r) /\ r.cancelled = TRUE
    BY CancelledRead DEF SandInv
  <2>2. CASE phaseKind(b) = "movement"
    <3>1. plan' = emptyPlan(power', "movement") /\ reads' = past
      BY <1>1, <1>3, <2>2 DEF Draw
    <3>2. candidates(shown, power)' = {} /\ phaseKind(shown)' = "movement"
      BY <1>1, <2>2 DEF candidates, phaseKind
    <3>3. PlanGood'
      BY <3>1, <3>2 DEF PlanGood, emptyPlan, Offered
    <3> HIDE DEF past
    <3>4. /\ \A r \in reads' : IsRead(r) /\ r.cancelled \in BOOLEAN
          /\ \A r, s \in reads' : ~r.cancelled /\ ~s.cancelled => r = s
          /\ \A r \in reads' : r.cancelled
      BY <2>1, <3>1
    <3>5. ~overtaken' => InOrder'
      BY <3>3, <3>4 DEF InOrder, PlanComes
    <3> QED BY <3>4, <3>5 DEF SandInv
  <2>3. CASE phaseKind(b) # "movement"
    <3>1. reads' = past \cup {next}
      BY <1>1, <1>3, <2>3 DEF Draw
    <3>2. IsRead(next) /\ next.cancelled = FALSE
      <4>1. candidates(b, Settled(b, of)) \in SUBSET Site
        BY DEF candidates
      <4> QED BY <4>1 DEF IsRead, NewRead
    <3>3. ReadGood(next)'
      BY <1>1 DEF ReadGood, NewRead, Offered, phaseKind
    <3> HIDE DEF past, next
    <3>4. /\ \A r \in reads' : IsRead(r) /\ r.cancelled \in BOOLEAN
          /\ \A r, s \in reads' : ~r.cancelled /\ ~s.cancelled => r = s
          /\ (\A r \in reads : ~r.cancelled => ReadGood(r))'
      BY <2>1, <3>1, <3>2, <3>3
    <3>5. ~overtaken' => InOrder'
      BY <3>1, <3>2, <3>4 DEF InOrder, PlanComes
    <3> QED BY <3>4, <3>5 DEF SandInv
  <2> QED BY <2>2, <2>3
<1> QED BY <1>2, <1>3

LEMMA TakeKeeps ==
  ASSUME SandInv, NEW i \in DOMAIN answers, takeState(i) PROVE SandInv'
<1> DEFINE n == Len(answers) - 1
           rest == [j \in 1..n |-> IF j < i THEN answers[j] ELSE answers[j + 1]]
<1>1. answers \in Seq(Answer) /\ n \in Nat /\ i \in 1..(n + 1) /\ DOMAIN answers = 1..(n + 1)
      /\ Len(answers) = n + 1 /\ \A j \in 1..(n + 1) : answers[j] \in Answer
  BY DEF SandInv
<1>2. /\ answers' = rest /\ overtaken' = (overtaken \/ i > 1) /\ Draw(answers[i].got, power)
      /\ sandbox' = sandbox /\ posts' = posts
  BY DEF takeState
<1> HIDE DEF n
<1>3. rest \in Seq(Answer) /\ Len(rest) = n /\ DOMAIN rest = 1..n
  BY <1>1
<1>4. ASSUME ~overtaken' PROVE ~overtaken /\ i = 1 /\ \A j \in 1..n : rest[j] = answers[j + 1]
  <2>1. ~overtaken /\ ~(i > 1)
    BY <1>2, <1>4 DEF SandInv
  <2>2. i = 1
    BY <1>1, <2>1
  <2> QED BY <2>1, <2>2
<1> HIDE DEF rest
<1>5. ASSUME ~overtaken' PROVE LastIsServer'
  <2>1. \A j \in DOMAIN answers : j = Len(answers) => answers[j].got = sandbox
    BY <1>4, <1>5 DEF SandInv, InOrder, LastIsServer
  <2>2. ASSUME NEW j \in DOMAIN rest, j = Len(rest) PROVE rest[j].got = sandbox
    <3>1. j = n /\ j \in 1..n /\ n + 1 \in 1..(n + 1)
      BY <1>1, <1>3, <2>2
    <3>2. rest[j] = answers[n + 1]
      BY <1>4, <1>5, <3>1
    <3> QED BY <1>1, <2>1, <3>1, <3>2
  <2>3. ASSUME rest = << >> PROVE shown' = sandbox
    <3>1. n = 0
      BY <1>1, <1>3, <2>3
    <3>2. answers[1].got = sandbox
      BY <1>1, <2>1, <3>1
    <3> QED BY <1>2, <1>4, <1>5, <3>2 DEF Draw
  <2> QED BY <1>2, <2>2, <2>3 DEF LastIsServer
<1>6. ASSUME ~overtaken', answers[i].got = shown, Settling' PROVE Settling
  <2>1. ASSUME NEW j \in DOMAIN answers PROVE answers[j].got = shown
    <3>1. CASE j = 1
      BY <1>4, <1>6, <3>1
    <3>2. CASE j # 1
      <4>1. j - 1 \in 1..n /\ j - 1 + 1 = j
        BY <1>1, <3>2
      <4>2. rest[j - 1] = answers[j]
        BY <1>4, <1>6, <4>1
      <4>3. rest[j - 1].got = shown'
        BY <1>2, <1>3, <1>6, <4>1 DEF Settling
      <4>4. shown' = shown
        BY <1>2, <1>6 DEF Draw
      <4> QED BY <4>2, <4>3, <4>4
    <3> QED BY <3>1, <3>2
  <2> QED BY <2>1 DEF Settling
<1>7. overtaken' \in BOOLEAN /\ answers' \in Seq(Answer)
  BY <1>2, <1>3
<1> QED BY <1>2, <1>4, <1>5, <1>6, <1>7, DrawKeeps

\* What the server answers is on its way to the page: the plan is of the board
\* it leaves, or that board comes.
LEMMA AnsweredKeeps ==
  ASSUME SandInv, NEW q \in posts, NEW refused \in BOOLEAN, NEW b \in Position,
         PostAnswered(q, refused, b)
  PROVE  SandInv'
<1>1. /\ posts' = posts \ {q} /\ UNCHANGED <<shown, power, plan, reads, overtaken>>
  BY DEF PostAnswered
<1>2. CASE refused
  <2>1. UNCHANGED <<sandbox, answers>>
    BY <1>2 DEF PostAnswered
  <2> QED BY <1>1, <2>1 DEF SandInv, InOrder, LastIsServer, PlanComes, PlanGood, ReadGood,
             Settling, Offered, candidates, phaseKind, Offers
<1>3. CASE ~refused
  <2> DEFINE answer == [what |-> q.what, got |-> b]
  <2>1. sandbox' = b /\ answers' = Append(answers, answer)
    BY <1>3 DEF PostAnswered
  <2>2. answer \in Answer /\ answer.got = b
    BY DEF SandInv, Answer
  <2> HIDE DEF answer
  <2>3. /\ answers \in Seq(Answer) /\ answers' \in Seq(Answer)
        /\ DOMAIN answers = 1..Len(answers) /\ DOMAIN answers' = 1..(Len(answers) + 1)
        /\ Len(answers) \in Nat /\ Len(answers') = Len(answers) + 1
        /\ answers'[Len(answers) + 1] = answer
        /\ \A j \in 1..Len(answers) : answers'[j] = answers[j]
    BY <2>1, <2>2 DEF SandInv
  <2>4. LastIsServer'
    BY <2>1, <2>2, <2>3 DEF LastIsServer
  <2>5. ASSUME ~overtaken, shown # NoBoard, Settling'
        PROVE  Settling /\ sandbox' = sandbox
    <3>1. b = shown
      BY <1>1, <2>2, <2>3, <2>5 DEF Settling
    <3>2. Settling
      BY <1>1, <2>3, <2>5 DEF Settling
    <3>3. sandbox = shown
      <4>1. CASE answers = << >>
        BY <2>5, <4>1 DEF SandInv, InOrder, LastIsServer
      <4>2. CASE answers # << >>
        <5>1. Len(answers) \in DOMAIN answers
          BY <2>3, <4>2
        <5> QED BY <2>5, <3>2, <5>1 DEF SandInv, InOrder, LastIsServer, Settling
      <4> QED BY <4>1, <4>2
    <3> QED BY <2>1, <3>1, <3>2, <3>3
  <2>6. ASSUME ~overtaken, shown # NoBoard
        PROVE  (PlanComes /\ \A r \in reads : ~r.cancelled => ReadGood(r))'
    <3>1. PlanComes /\ \A r \in reads : ~r.cancelled => ReadGood(r)
      BY <2>6 DEF SandInv, InOrder
    <3>2. candidates(shown, power)' = candidates(shown, power) /\ phaseKind(shown)' = phaseKind(shown)
      BY <1>1 DEF candidates, phaseKind
    <3>3. Settling' => Settling /\ Offered' = Offered
      BY <2>5, <2>6, <3>2 DEF Offered
    <3>4. PlanGood => PlanGood'
      BY <1>1, <3>2, <3>3 DEF PlanGood
    <3>5. \A r \in reads : ReadGood(r) => ReadGood(r)'
      BY <1>1, <3>2, <3>3 DEF ReadGood
    <3> QED BY <1>1, <3>1, <3>4, <3>5 DEF PlanComes
  <2>7. ~overtaken' => InOrder'
    BY <1>1, <2>4, <2>6 DEF InOrder
  <2> QED BY <1>1, <2>1, <2>3, <2>7 DEF SandInv
<1> QED BY <1>2, <1>3

\* One more province is answered, or fails, and the read is of the same plan.
LEMMA OneAnswered ==
  ASSUME SandInv, NEW r \in reads, NEW s, IsRead(s), s.power = r.power, s.kind = r.kind,
         s.cancelled = r.cancelled, reads' = (reads \ {r}) \cup {s},
         UNCHANGED <<sandbox, shown, power, plan, mailVars>>,
         shown # NoBoard /\ ~overtaken /\ ReadGood(r) => ReadGood(s)
  PROVE  SandInv'
<1>1. UNCHANGED <<sandbox, shown, power, plan, posts, answers, overtaken>>
  BY DEF mailVars
<1>2. /\ \A t \in reads' : IsRead(t) /\ t.cancelled \in BOOLEAN
      /\ \A t, u \in reads' : ~t.cancelled /\ ~u.cancelled => t = u
  BY DEF SandInv
<1>3. ASSUME ~overtaken, shown # NoBoard
      PROVE  (PlanComes /\ \A t \in reads : ~t.cancelled => ReadGood(t))'
  <2>1. PlanComes /\ \A t \in reads : ~t.cancelled => ReadGood(t)
    BY <1>3 DEF SandInv, InOrder
  <2>2. PlanGood' = PlanGood /\ \A t : ReadGood(t)' = ReadGood(t)
    BY <1>1 DEF PlanGood, ReadGood, Offered, candidates, phaseKind, Offers, Settling
  <2>3. (\A t \in reads : ~t.cancelled => ReadGood(t))'
    BY <1>3, <2>1, <2>2
  <2>4. (\E t \in reads : ~t.cancelled) => (\E t \in reads' : ~t.cancelled)
    OBVIOUS
  <2> QED BY <2>1, <2>2, <2>3, <2>4 DEF PlanComes
<1>4. LastIsServer' = LastIsServer
  BY <1>1 DEF LastIsServer
<1> QED BY <1>1, <1>2, <1>3, <1>4 DEF SandInv, InOrder

LEMMA OptionsKeep ==
  ASSUME SandInv, NEW r \in reads, NEW p \in Site,
         handleSandboxOptions(r, p) \/ SandboxReadFailed(r, p)
  PROVE  SandInv'
<1>1. IsRead(r) /\ p \in r.left /\ UNCHANGED <<sandbox, shown, power, plan, mailVars>>
  BY DEF SandInv, handleSandboxOptions, SandboxReadFailed
<1>2. CASE handleSandboxOptions(r, p)
  <2> DEFINE open == IF Offers(sandbox, p) THEN r.open \cup {p} ELSE r.open
             s == [r EXCEPT !.left = r.left \ {p}, !.open = open]
  <2>1. reads' = (reads \ {r}) \cup {s}
    BY <1>1, <1>2 DEF handleSandboxOptions, IsRead
  <2>2. open \in SUBSET Site
    BY <1>1 DEF IsRead
  <2> HIDE DEF open
  <2>3. /\ IsRead(s) /\ s.power = r.power /\ s.kind = r.kind /\ s.cancelled = r.cancelled
        /\ s.left = r.left \ {p} /\ s.open = open /\ s.missed = r.missed
    BY <1>1, <2>2 DEF IsRead
  <2> HIDE DEF s
  <2>4. ASSUME ReadGood(r) PROVE ReadGood(s)
    <3>1. p \in candidates(shown, power) /\ p \notin r.missed
      BY <1>1, <2>4 DEF ReadGood
    <3>2. ASSUME Settling PROVE s.open = (Offered \ s.left) \ s.missed
      <4>1. r.open = (Offered \ r.left) \ r.missed
        BY <2>4, <3>2 DEF ReadGood
      <4>2. p \in Offered <=> Offers(sandbox, p)
        BY <3>1 DEF Offered
      <4> HIDE DEF Offered
      <4> QED BY <1>1, <2>3, <3>1, <4>1, <4>2 DEF open
    <3> QED BY <2>3, <2>4, <3>2 DEF ReadGood
  <2> QED BY <1>1, <2>1, <2>3, <2>4, OneAnswered
<1>3. CASE SandboxReadFailed(r, p)
  <2> DEFINE s == [r EXCEPT !.left = r.left \ {p}, !.missed = r.missed \cup {p}]
  <2>1. reads' = (reads \ {r}) \cup {s}
    BY <1>1, <1>3 DEF SandboxReadFailed, IsRead
  <2>2. /\ IsRead(s) /\ s.power = r.power /\ s.kind = r.kind /\ s.cancelled = r.cancelled
        /\ s.left = r.left \ {p} /\ s.open = r.open /\ s.missed = r.missed \cup {p}
    BY <1>1 DEF IsRead
  <2> HIDE DEF s
  <2>3. ASSUME ReadGood(r) PROVE ReadGood(s)
    BY <1>1, <2>2, <2>3 DEF ReadGood
  <2> QED BY <1>1, <2>1, <2>2, <2>3, OneAnswered
<1> QED BY <1>2, <1>3

\* The read that counts is in: the plan is its answers.
LEMMA PlanReadKeeps ==
  ASSUME SandInv, NEW r \in reads, SandboxPlanRead(r) PROVE SandInv'
<1>1. /\ r.left = {} /\ reads' = reads \ {r}
      /\ UNCHANGED <<sandbox, shown, power, posts, answers, overtaken>>
  BY DEF SandboxPlanRead, mailVars
<1>2. ASSUME ~overtaken, shown # NoBoard
      PROVE  (PlanComes /\ \A t \in reads : ~t.cancelled => ReadGood(t))'
  <2>1. PlanComes /\ \A t \in reads : ~t.cancelled => ReadGood(t)
    BY <1>2 DEF SandInv, InOrder
  <2>2. \A t : ReadGood(t)' = ReadGood(t)
    BY <1>1 DEF ReadGood, Offered, candidates, phaseKind, Offers, Settling
  <2>3. (\A t \in reads : ~t.cancelled => ReadGood(t))'
    BY <1>1, <2>1, <2>2
  <2>4. CASE r.cancelled
    <3>1. plan' = plan
      BY <2>4 DEF SandboxPlanRead
    <3>2. PlanGood' = PlanGood
      BY <1>1, <3>1 DEF PlanGood, Offered, candidates, phaseKind, Offers, Settling
    <3>3. (\E t \in reads : ~t.cancelled) => (\E t \in reads' : ~t.cancelled)
      BY <1>1, <2>4
    <3> QED BY <2>1, <2>3, <3>2, <3>3 DEF PlanComes
  <2>5. CASE ~r.cancelled
    <3>1. plan' = [kind |-> r.kind, power |-> r.power, trees |-> r.open, missed |-> r.missed]
      BY <2>5 DEF SandboxPlanRead
    <3>2. ReadGood(r)
      BY <2>1, <2>5
    <3>3. Settling' = Settling /\ Offered' = Offered /\ phaseKind(shown)' = phaseKind(shown)
      BY <1>1 DEF Offered, candidates, phaseKind, Offers, Settling
    <3>4. PlanGood'
      BY <1>1, <3>1, <3>2, <3>3 DEF PlanGood, ReadGood
    <3> QED BY <2>3, <3>4 DEF PlanComes
  <2> QED BY <2>4, <2>5
<1>3. LastIsServer' = LastIsServer
  BY <1>1 DEF LastIsServer
<1> QED BY <1>1, <1>2, <1>3 DEF SandInv, InOrder

LEMMA SandStep == SandInv /\ [SandboxNext]_sandboxVars => SandInv'
<1> SUFFICES ASSUME SandInv, [SandboxNext]_sandboxVars PROVE SandInv'
  OBVIOUS
<1>1. CASE FirstState
  <2>1. /\ shown = NoBoard /\ Draw(sandbox, power) /\ sandbox' = sandbox /\ posts' = posts
        /\ answers' = answers /\ overtaken' = overtaken
    BY <1>1 DEF FirstState, mailVars
  <2>2. shown' = sandbox
    BY <2>1 DEF Draw
  <2>3. ~overtaken => LastIsServer'
    BY <2>1, <2>2 DEF SandInv, InOrder, LastIsServer
  <2>4. sandbox = shown /\ Settling' => Settling
    BY <2>1, <2>2 DEF Settling
  <2> QED BY <2>1, <2>3, <2>4, DrawKeeps DEF SandInv
<1>2. ASSUME NEW of, pickPower(of) PROVE SandInv'
  <2>1. /\ Draw(shown, of) /\ sandbox' = sandbox /\ posts' = posts
        /\ answers' = answers /\ overtaken' = overtaken /\ shown' = shown
    BY <1>2 DEF pickPower, mailVars, Draw
  <2>2. ~overtaken => LastIsServer'
    BY <2>1 DEF SandInv, InOrder, LastIsServer
  <2>3. Settling' => Settling
    BY <2>1 DEF Settling
  <2> QED BY <2>1, <2>2, <2>3, DrawKeeps DEF SandInv
<1>3. ASSUME NEW what, SandboxPost(what), what.what \in {"order", "adjudicate"},
             what.what = "order" => what.site \in Site
      PROVE  SandInv'
  <2>1. UNCHANGED <<sandbox, shown, power, plan, reads, answers, overtaken>>
        /\ posts' = posts \cup {what}
    BY <1>3 DEF SandboxPost
  <2> QED BY <1>3, <2>1 DEF SandInv, InOrder, LastIsServer, PlanComes, PlanGood, ReadGood,
             Settling, Offered, candidates, phaseKind, Offers
<1>4. CASE adjudicate
  BY <1>3, <1>4 DEF adjudicate
<1>5. ASSUME NEW p \in Site, NEW give \in BOOLEAN, order(p, give) PROVE SandInv'
  BY <1>3, <1>5 DEF order
<1>6. CASE CloseReview \/ UNCHANGED sandboxVars
  <2>1. UNCHANGED <<sandbox, shown, power, plan, reads, posts, answers, overtaken>>
    BY <1>6 DEF CloseReview, sandboxVars, mailVars
  <2> QED BY <2>1 DEF SandInv, InOrder, LastIsServer, PlanComes, PlanGood, ReadGood,
             Settling, Offered, candidates, phaseKind, Offers
<1>7. ASSUME NEW q \in posts, handleSandboxOrder(q) PROVE SandInv'
  <2> DEFINE b == [sandbox EXCEPT !.orders = IF q.give THEN @ \cup {q.site} ELSE @ \ {q.site}]
             refused == sandbox.over \/ Owner[q.site] # q.as
  <2>1. q.site \in Site /\ sandbox \in Position
    BY <1>7 DEF handleSandboxOrder, SandInv
  <2>2. b \in Position /\ refused \in BOOLEAN
    BY <2>1 DEF Position
  <2>3. PostAnswered(q, refused, b)
    BY <1>7 DEF handleSandboxOrder
  <2> HIDE DEF b, refused
  <2> QED BY <2>2, <2>3, AnsweredKeeps
<1>8. ASSUME NEW q \in posts, handleSandboxAdjudicate(q) PROVE SandInv'
  <2> DEFINE b == IF sandbox.phase = Len(Phases) THEN [sandbox EXCEPT !.over = TRUE]
                  ELSE [phase |-> sandbox.phase + 1, orders |-> {}, over |-> FALSE]
             refused == sandbox.over
  <2>1. /\ sandbox \in [phase : {sandbox.phase}, orders : {sandbox.orders}, over : {sandbox.over}]
        /\ sandbox.phase \in Nat /\ sandbox.orders \in SUBSET Site /\ sandbox.over \in BOOLEAN
    BY DEF SandInv, Position
  <2>2. b \in Position /\ refused \in BOOLEAN
    <3>1. CASE sandbox.phase = Len(Phases)
      <4>1. /\ b.phase = sandbox.phase /\ b.orders = sandbox.orders /\ b.over = TRUE
            /\ b \in [phase : {b.phase}, orders : {b.orders}, over : {b.over}]
        BY <2>1, <3>1
      <4> QED BY <2>1, <4>1 DEF Position
    <3>2. CASE sandbox.phase # Len(Phases)
      <4>1. b = [phase |-> sandbox.phase + 1, orders |-> {}, over |-> FALSE]
        BY <3>2
      <4>2. sandbox.phase + 1 \in Nat
        BY <2>1
      <4> QED BY <2>1, <4>1, <4>2 DEF Position
    <3> QED BY <3>1, <3>2
  <2>3. PostAnswered(q, refused, b)
    BY <1>8 DEF handleSandboxAdjudicate
  <2> HIDE DEF b, refused
  <2> QED BY <2>2, <2>3, AnsweredKeeps
<1> QED BY <1>1, <1>2, <1>4, <1>5, <1>6, <1>7, <1>8, OptionsKeep, PlanReadKeeps, TakeKeeps
        DEF SandboxNext, refusal

\* The plan's effect (SandboxPage): for every variant's powers, provinces and
\* phases, and every order in which orders, adjudications and reads are
\* answered, what lights up once all is in is what the server would now take.
THEOREM PlanStaysTrue == SandboxSpec => []PlanIsTrue
<1>1. SandInv => PlanIsTrue
  <2> SUFFICES ASSUME SandInv, shown # NoBoard, reads = {}, answers = << >>, ~overtaken
               PROVE  /\ plan.power = power /\ plan.kind = phaseKind(shown)
                      /\ plan.trees = {p \in candidates(shown, power) : Offers(sandbox, p)}
                                        \ plan.missed
    BY DEF PlanIsTrue
  <2>1. PlanGood /\ Settling
    BY DEF SandInv, InOrder, PlanComes, Settling
  <2> QED BY <2>1 DEF PlanGood, Offered
<1> QED BY <1>1, SandInitInv, SandStep, PTL DEF SandboxSpec
================================================================================
