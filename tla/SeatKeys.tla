------------------------------- MODULE SeatKeys --------------------------------
(***************************************************************************)
(* Holding a seat: joining, signing in, handing it on                      *)
(* (web/src/seatkey.ts, api.ts SeatClient, pages/JoinPage.tsx,             *)
(* pages/HandoverPage.tsx, components/KeepYourSeat.tsx;                    *)
(* internal/server/join.go, handover.go, seatkey.go, routes.go).           *)
(*                                                                         *)
(* A phone makes a seed and the server keeps its public half.  A session   *)
(* lives in the server's memory and in the phone's cookie; a phone that    *)
(* finds its session gone signs in again by itself.  Answers may be lost,  *)
(* the server may restart, and a link may be opened on any phone.          *)
(***************************************************************************)
EXTENDS Integers, Sequences, FiniteSets

CONSTANTS Phone,
          Nation,            \* the powers that the invite may draw
          maxSeatSessions,
          MaxSeeds,          \* bound: seeds made
          MaxLinks           \* bound: links minted

NoSeed == 0
NoPhone == "nobody"

ASSUME SeatAssumption ==
  /\ maxSeatSessions \in Nat \ {0} /\ MaxSeeds \in Nat /\ MaxLinks \in Nat
  /\ NoPhone \notin Phone /\ NoPhone \notin Nation

VARIABLES places,     \* Nation -> the seat's key, its epoch, the device that claimed it
          bySignPub,  \* the index: Nation -> the keys that open it
          sessions,   \* Nation -> the sessions open on it, oldest first
          hands,      \* Phone -> the seed it keeps, what it asks for, the answer
          links,      \* what was shown as a code: handovers, and copies of a seat
          made,       \* seeds made so far
          knew        \* history: Phone -> the seeds it made or kept

seatVars == <<places, bySignPub, sessions, hands, links, made, knew>>

Resting(seed) == [seed |-> seed, doing |-> "nothing", arg |-> NoSeed, link |-> {}, said |-> "none"]

(***************************************************************************)
(* Sessions: one is known by the phone that holds its cookie, or that will *)
(* when the answer is in; others are nobody's.                             *)
(***************************************************************************)
Cookie(d) == [phone |-> d, held |-> TRUE]
Coming(d) == [phone |-> d, held |-> FALSE]
Loose == [phone |-> NoPhone, held |-> FALSE]
OpenSessions(list) == {list[i] : i \in DOMAIN list}

rememberSession(list, one) ==
  Append(IF Len(list) >= maxSeatSessions THEN Tail(list) ELSE list, one)

Renamed(list, one, name) == [i \in DOMAIN list |-> IF list[i] = one THEN name ELSE list[i]]
\* The answer brought the cookie, in the place of the one before, or did not.
CookieSet(d) ==
  [p \in Nation |-> Renamed(Renamed(sessions[p], Cookie(d), Loose), Coming(d), Cookie(d))]
CookieLost(d) == [p \in Nation |-> Renamed(sessions[p], Coming(d), Loose)]

sessionPower(d) == {p \in Nation : Cookie(d) \in OpenSessions(sessions[p])}

(***************************************************************************)
(* Keys.                                                                   *)
(***************************************************************************)
\* Mutant of bindSeatKey: the key the seat leaves still opens it.
BoundBeside(p, seed) == [bySignPub EXCEPT ![p] = @ \cup {seed}]
bindSeatKey(p, seed) == [bySignPub EXCEPT ![p] = (@ \ {places[p].pub}) \cup {seed}]

AskSeat(d, what, seed, link) ==
  /\ hands[d].doing = "nothing"
  /\ hands' = [hands EXCEPT ![d] = [@ EXCEPT !.doing = what, !.arg = seed, !.link = link]]

Say(d, what) == hands' = [hands EXCEPT ![d].said = what]
Waits(d, what) == hands[d].doing = what /\ hands[d].said = "none"

\* replacementSeatSeed and makeSeatSeed: a seed nobody has had.
NewSeed(d, what, link) ==
  /\ made < MaxSeeds /\ made' = made + 1
  /\ AskSeat(d, what, made + 1, link) /\ knew' = [knew EXCEPT ![d] = @ \cup {made + 1}]
  /\ UNCHANGED <<places, bySignPub, sessions, links>>

(***************************************************************************)
(* Joining.                                                                *)
(***************************************************************************)
claim(d) == hands[d].seed = NoSeed /\ NewSeed(d, "join", {})

handleJoin(d) ==
  /\ Waits(d, "join")
  /\ IF \E p \in Nation : places[p].device = d
     THEN Say(d, "yours") /\ UNCHANGED <<places, bySignPub, sessions>>
     ELSE \/ \E p \in Nation :
               /\ places[p].pub = NoSeed
               /\ places' = [places EXCEPT ![p].pub = hands[d].arg, ![p].device = d]
               /\ bySignPub' = bindSeatKey(p, hands[d].arg)
               /\ sessions' = [sessions EXCEPT ![p] = rememberSession(@, Coming(d))]
               /\ Say(d, "keyed")
          \/ /\ \A p \in Nation : places[p].pub # NoSeed
             /\ Say(d, "refused") /\ UNCHANGED <<places, bySignPub, sessions>>
  /\ UNCHANGED <<links, made, knew>>

(***************************************************************************)
(* Links: the holder's handover carries the former seed, the game          *)
(* master's none; a copy of the seat is its seed.                          *)
(***************************************************************************)
Shows(link) == Cardinality(links \cup {link}) <= MaxLinks /\ links' = links \cup {link}
               /\ UNCHANGED <<places, bySignPub, sessions, hands, made, knew>>

CodeOf(p, former) == [power |-> p, epoch |-> places[p].epoch, former |-> former]

\* The seat's menu mints for the seat it is the menu of, and appends the seed.
handleSeatHandover(d, seed) == \E p \in sessionPower(d) : Shows(CodeOf(p, seed))
show(d) == handleSeatHandover(d, hands[d].seed)

\* Every power's row on the game master's page; no seed is there to append.
handleGMHandover(p) == Shows(CodeOf(p, NoSeed))
mintHandover == \E p \in Nation : handleGMHandover(p)
seatLink(d) ==
  hands[d].seed # NoSeed /\ Shows([power |-> NoPhone, epoch |-> 0, former |-> hands[d].seed])

\* A copy opened on another phone: its seed is kept in the place of any other.
takeSeedFromAddress(d, l) ==
  /\ l.power = NoPhone /\ hands[d].doing = "nothing" /\ hands[d].seed # l.former
  /\ hands' = [hands EXCEPT ![d].seed = l.former]
  /\ knew' = [knew EXCEPT ![d] = @ \cup {l.former}]
  /\ UNCHANGED <<places, bySignPub, sessions, links, made>>

take(d, l) == l.power # NoPhone /\ NewSeed(d, "take", {l})

handleHandoverClaim(d) ==
  /\ Waits(d, "take")
  /\ \E l \in hands[d].link :
       IF l.epoch # places[l.power].epoch
       THEN Say(d, "refused") /\ UNCHANGED <<places, bySignPub, sessions>>
       ELSE /\ places' = [places EXCEPT ![l.power] =
                            [pub |-> hands[d].arg, epoch |-> @.epoch + 1, device |-> NoPhone]]
            /\ bySignPub' = bindSeatKey(l.power, hands[d].arg)
            /\ sessions' = [sessions EXCEPT ![l.power] = <<Coming(d)>>]     \* dropSessions
            /\ Say(d, "keyed")
  /\ UNCHANGED <<links, made, knew>>

(***************************************************************************)
(* Calls.  The first 404 is met by signing in and trying once more.        *)
(***************************************************************************)
call(d) == hands[d].seed # NoSeed /\ AskSeat(d, "call", NoSeed, {})
           /\ UNCHANGED <<places, bySignPub, sessions, links, made, knew>>

serveTokenScope(d) ==
  /\ Waits(d, "call") \/ Waits(d, "again")
  /\ Say(d, IF sessionPower(d) = {} THEN "404" ELSE "ok")
  /\ UNCHANGED <<places, bySignPub, sessions, links, made, knew>>

withSession(d) ==
  /\ hands[d].doing = "call" /\ hands[d].said = "404"
  /\ hands' = [hands EXCEPT ![d] =
                 [@ EXCEPT !.doing = "sign", !.arg = hands[d].seed, !.said = "none"]]
  /\ UNCHANGED <<places, bySignPub, sessions, links, made, knew>>

handleSeatSession(d) ==
  /\ Waits(d, "sign")
  /\ \/ \E p \in Nation : /\ hands[d].arg \in bySignPub[p]
                          /\ sessions' = [sessions EXCEPT ![p] = rememberSession(@, Coming(d))]
                          /\ Say(d, "signed")
     \/ /\ \A p \in Nation : hands[d].arg \notin bySignPub[p]
        /\ Say(d, "refused") /\ UNCHANGED sessions
  /\ UNCHANGED <<places, bySignPub, links, made, knew>>

(***************************************************************************)
(* An answer arrives, or is lost on the way: the cookie and the seed that  *)
(* would have been written are then gone.                                  *)
(***************************************************************************)
Answered(d) ==
  /\ hands[d].said # "none" /\ ~(hands[d].doing = "call" /\ hands[d].said = "404")
  /\ sessions' = IF hands[d].said \in {"keyed", "signed"} THEN CookieSet(d) ELSE sessions
  /\ hands' = [hands EXCEPT ![d] =
       CASE @.said = "signed" -> [@ EXCEPT !.doing = "again", !.arg = NoSeed, !.said = "none"]
         [] @.said \in {"keyed", "yours"} -> Resting(@.arg)
         [] OTHER             -> Resting(@.seed)]
  /\ UNCHANGED <<places, bySignPub, links, made, knew>>

AnswerLost(d) ==
  /\ hands[d].said # "none" /\ sessions' = CookieLost(d)
  /\ hands' = [hands EXCEPT ![d] = Resting(@.seed)]
  /\ places' = [p \in Nation |-> IF hands[d].doing = "join" /\ places[p].pub = hands[d].arg
                                 THEN [places[p] EXCEPT !.device = NoPhone] ELSE places[p]]
  /\ UNCHANGED <<bySignPub, links, made, knew>>

\* A browser that keeps no storage: the page closed, its cookies are left.
Forgotten(d) ==
  /\ hands[d].seed # NoSeed /\ hands[d].doing = "nothing"
  /\ hands' = [hands EXCEPT ![d] = Resting(NoSeed)]
  /\ UNCHANGED <<places, bySignPub, sessions, links, made, knew>>

\* Sessions are in memory, the seats in the rows: the index is built from them.
Restart ==
  /\ sessions # [p \in Nation |-> <<>>] /\ sessions' = [p \in Nation |-> <<>>]
  /\ bySignPub' = [p \in Nation |-> {places[p].pub} \ {NoSeed}]
  /\ UNCHANGED <<places, hands, links, made, knew>>

SeatInit ==
  /\ places = [p \in Nation |-> [pub |-> NoSeed, epoch |-> 0, device |-> NoPhone]]
  /\ bySignPub = [p \in Nation |-> {}] /\ sessions = [p \in Nation |-> <<>>]
  /\ hands = [d \in Phone |-> Resting(NoSeed)] /\ links = {} /\ made = 0
  /\ knew = [d \in Phone |-> {}]

SeatNext ==
  \/ Restart \/ mintHandover
  \/ \E d \in Phone :
       \/ claim(d) \/ handleJoin(d) \/ show(d) \/ seatLink(d)
       \/ handleHandoverClaim(d) \/ call(d) \/ serveTokenScope(d) \/ withSession(d)
       \/ handleSeatSession(d) \/ Answered(d) \/ AnswerLost(d) \/ Forgotten(d)
       \/ \E l \in links : takeSeedFromAddress(d, l) \/ take(d, l)

SeatSpec == SeatInit /\ [][SeatNext]_seatVars

(***************************************************************************)
(* Properties.                                                             *)
(***************************************************************************)
\* handleHandoverClaim's "everything the old holder had stops working here":
\* a phone with a session on a power has had the very key the seat has now,
\* whichever links were opened where, whatever was signed before the seat was
\* handed on and is answered after it, across restarts and lost answers.
FormerHolderIsOut ==
  \A p \in Nation : \A d \in Phone :
    {Cookie(d), Coming(d)} \cap OpenSessions(sessions[p]) # {} => places[p].pub \in knew[d]
================================================================================
