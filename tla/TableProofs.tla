------------------------------ MODULE TableProofs ------------------------------
(***************************************************************************)
(* The seats, the draw, the game master's key and desk, for every set of   *)
(* powers, phones and browsers and however long the game: a seat is for    *)
(* whoever holds it now, no survivor is voted out, a key goes with the game*)
(* master's role, and the rules that were agreed to stand.                 *)
(* The parts share nothing; each has its own invariant.                    *)
(***************************************************************************)
EXTENDS SeatKeys, DrawVote, MasterKey, GmDesk, FiniteSetTheorems, SequenceTheorems, TLAPS

-------------------------------------------------------------------------------
(* SeatKeys: the index opens a seat with its own key only, a phone signs   *)
(* with what it made or was given, and a seat that changes hands keeps no  *)
(* session.                                                                *)

Session == [phone : Phone \cup {NoPhone}, held : BOOLEAN]

\* A code for a seat of a power; a copy of a seat carries a seed.
Code == [power : Nation, epoch : Nat, former : Nat]
Copy == [power : {NoPhone}, epoch : Nat, former : Nat \ {NoSeed}]

Doing == {"nothing", "join", "take", "call", "sign", "again"}
Said == {"none", "keyed", "yours", "refused", "404", "ok", "signed"}
Hand == [seed : Nat, doing : Doing, arg : Nat, link : SUBSET Code, said : Said]

SeatTypeOK ==
  /\ places \in [Nation -> [pub : Nat, epoch : Nat, device : Phone \cup {NoPhone}]]
  /\ bySignPub \in [Nation -> SUBSET Nat]
  /\ sessions \in [Nation -> Seq(Session)]
  /\ hands \in [Phone -> Hand]
  /\ links \subseteq Code \cup Copy
  /\ made \in Nat
  /\ knew \in [Phone -> SUBSET (Nat \ {NoSeed})]

\* A phone keeps, and asks with, what it made or was given.
Keeps(h, seeds) ==
  /\ h.seed \in seeds \cup {NoSeed}
  /\ h.arg \in seeds \cup {NoSeed}
  /\ h.doing \in {"join", "take"} => h.arg \in seeds

InHand(list, d) == Cookie(d) \in OpenSessions(list) \/ Coming(d) \in OpenSessions(list)

SeatInv ==
  /\ SeatTypeOK
  /\ \A p \in Nation : bySignPub[p] \subseteq {places[p].pub} \ {NoSeed}
  /\ \A d \in Phone : Keeps(hands[d], knew[d])
  /\ \A p \in Nation : \A d \in Phone : InHand(sessions[p], d) => places[p].pub \in knew[d]

-------------------------------------------------------------------------------
(* Lists of sessions *)

\* A session more opens that one, and at the cap closes the oldest.
LEMMA Remembered ==
  ASSUME NEW list \in Seq(Session), NEW one \in Session
  PROVE  /\ rememberSession(list, one) \in Seq(Session)
         /\ OpenSessions(rememberSession(list, one)) \subseteq OpenSessions(list) \cup {one}
<1> DEFINE kept == IF Len(list) >= maxSeatSessions THEN Tail(list) ELSE list
<1>1. kept \in Seq(Session) /\ OpenSessions(kept) \subseteq OpenSessions(list)
  <2>1. CASE Len(list) >= maxSeatSessions
    <3>1. list # <<>>
      BY <2>1, SeatAssumption
    <3>2. kept = Tail(list) /\ Tail(list) \in Seq(Session) /\ Len(Tail(list)) = Len(list) - 1
      BY <2>1, <3>1, HeadTailProperties
    <3>3. \A i \in 1..Len(Tail(list)) : Tail(list)[i] = list[i + 1]
      BY <3>1, HeadTailProperties
    <3>4. Len(list) \in Nat
      BY LenProperties
    <3>5. \A i \in 1..(Len(list) - 1) : i + 1 \in 1..Len(list)
      BY <3>4
    <3> QED BY <3>2, <3>3, <3>5, LenProperties DEF OpenSessions
  <2>2. CASE ~(Len(list) >= maxSeatSessions)
    BY <2>2
  <2> QED BY <2>1, <2>2
<1>2. rememberSession(list, one) = Append(kept, one)
  BY DEF rememberSession
<1> HIDE DEF kept
<1>3. Append(kept, one) \in Seq(Session) /\ Len(Append(kept, one)) = Len(kept) + 1
      /\ (\A i \in 1..Len(kept) : Append(kept, one)[i] = kept[i])
      /\ Append(kept, one)[Len(kept) + 1] = one
  BY <1>1, AppendProperties
<1>4. OpenSessions(Append(kept, one)) \subseteq OpenSessions(kept) \cup {one}
  <2>1. ASSUME NEW i \in DOMAIN Append(kept, one)
        PROVE  Append(kept, one)[i] \in OpenSessions(kept) \cup {one}
    <3>1. i \in 1..(Len(kept) + 1) /\ Len(kept) \in Nat /\ DOMAIN kept = 1..Len(kept)
      BY <1>1, <1>3, LenProperties
    <3>2. CASE i = Len(kept) + 1
      BY <1>3, <3>2
    <3>3. CASE i \in 1..Len(kept)
      BY <1>3, <3>1, <3>3 DEF OpenSessions
    <3> QED BY <3>1, <3>2, <3>3
  <2> QED BY <2>1 DEF OpenSessions
<1> QED BY <1>1, <1>2, <1>3, <1>4

\* A session renamed opens under its new name only if it was open.
LEMMA RenamedOpen ==
  ASSUME NEW list \in Seq(Session), NEW one \in Session, NEW name \in Session
  PROVE  /\ Renamed(list, one, name) \in Seq(Session)
         /\ \A s \in OpenSessions(Renamed(list, one, name)) :
              \/ s \in OpenSessions(list)
              \/ s = name /\ one \in OpenSessions(list)
<1>1. DOMAIN list = 1..Len(list) /\ Len(list) \in Nat /\ \A i \in DOMAIN list : list[i] \in Session
  BY LenProperties, ElementOfSeq
<1>2. Renamed(list, one, name) \in [1..Len(list) -> Session]
  BY <1>1 DEF Renamed
<1>3. Renamed(list, one, name) \in Seq(Session)
  BY <1>1, <1>2, IsASeq
<1>4. ASSUME NEW i \in DOMAIN list
      PROVE  LET s == Renamed(list, one, name)[i]
             IN  s \in OpenSessions(list) \/ (s = name /\ one \in OpenSessions(list))
  BY DEF Renamed, OpenSessions
<1>5. DOMAIN Renamed(list, one, name) = DOMAIN list
  BY DEF Renamed
<1> QED BY <1>3, <1>4, <1>5 DEF OpenSessions

LEMMA SessionNames ==
  ASSUME NEW d \in Phone
  PROVE  /\ Cookie(d) \in Session /\ Coming(d) \in Session /\ Loose \in Session
         /\ \A e \in Phone : /\ Cookie(d) # Coming(e)
                             /\ Loose # Coming(e) /\ Loose # Cookie(e)
                             /\ Cookie(d) = Cookie(e) => d = e
                             /\ Coming(d) = Coming(e) => d = e
BY SeatAssumption DEF Session, Cookie, Coming, Loose

\* An answer that arrives puts no cookie in a phone that had no session.
LEMMA CookieSetOpen ==
  ASSUME SeatTypeOK, NEW d \in Phone
  PROVE  /\ CookieSet(d) \in [Nation -> Seq(Session)]
         /\ \A p \in Nation : \A e \in Phone : InHand(CookieSet(d)[p], e) => InHand(sessions[p], e)
<1> DEFINE Left(p) == Renamed(sessions[p], Cookie(d), Loose)
<1>1. ASSUME NEW p \in Nation
      PROVE  /\ Renamed(Left(p), Coming(d), Cookie(d)) \in Seq(Session)
             /\ \A e \in Phone : InHand(Renamed(Left(p), Coming(d), Cookie(d)), e)
                                   => InHand(sessions[p], e)
  <2>1. sessions[p] \in Seq(Session)
    BY DEF SeatTypeOK
  <2>2. /\ Left(p) \in Seq(Session)
        /\ \A s \in OpenSessions(Left(p)) : s \in OpenSessions(sessions[p]) \/ s = Loose
    BY <2>1, RenamedOpen, SessionNames
  <2> HIDE DEF Left
  <2>3. /\ Renamed(Left(p), Coming(d), Cookie(d)) \in Seq(Session)
        /\ \A s \in OpenSessions(Renamed(Left(p), Coming(d), Cookie(d))) :
             \/ s \in OpenSessions(Left(p))
             \/ s = Cookie(d) /\ Coming(d) \in OpenSessions(Left(p))
    BY <2>2, RenamedOpen, SessionNames
  <2> QED BY <2>2, <2>3, SessionNames DEF InHand
<1> QED BY <1>1 DEF CookieSet

LEMMA CookieLostOpen ==
  ASSUME SeatTypeOK, NEW d \in Phone
  PROVE  /\ CookieLost(d) \in [Nation -> Seq(Session)]
         /\ \A p \in Nation : \A e \in Phone : InHand(CookieLost(d)[p], e) => InHand(sessions[p], e)
<1>1. ASSUME NEW p \in Nation
      PROVE  /\ Renamed(sessions[p], Coming(d), Loose) \in Seq(Session)
             /\ \A e \in Phone : InHand(Renamed(sessions[p], Coming(d), Loose), e)
                                   => InHand(sessions[p], e)
  <2>1. sessions[p] \in Seq(Session)
    BY DEF SeatTypeOK
  <2>2. /\ Renamed(sessions[p], Coming(d), Loose) \in Seq(Session)
        /\ \A s \in OpenSessions(Renamed(sessions[p], Coming(d), Loose)) :
             s \in OpenSessions(sessions[p]) \/ s = Loose
    BY <2>1, RenamedOpen, SessionNames
  <2> QED BY <2>2, SessionNames DEF InHand
<1> QED BY <1>1 DEF CookieLost

-------------------------------------------------------------------------------
(* The steps *)

LEMMA RestingHand == ASSUME NEW seed \in Nat PROVE Resting(seed) \in Hand
<1>1. seed \in Nat /\ NoSeed \in Nat /\ {} \in SUBSET Code /\ "nothing" \in Doing /\ "none" \in Said
  BY DEF NoSeed, Doing, Said
<1>2. Resting(seed) = [seed |-> seed, doing |-> "nothing", arg |-> NoSeed, link |-> {},
                       said |-> "none"]
  BY DEF Resting
<1>3. \A link \in SUBSET Code, doing \in Doing, said \in Said, arg \in Nat :
        [seed |-> seed, doing |-> doing, arg |-> arg, link |-> link, said |-> said] \in Hand
  BY DEF Hand
<1> QED BY <1>1, <1>2, <1>3

LEMMA SeatInitInv == SeatInit => SeatInv
<1> SUFFICES ASSUME SeatInit PROVE SeatInv
  OBVIOUS
<1>1. \A d \in Phone : hands[d] = [seed |-> NoSeed, doing |-> "nothing", arg |-> NoSeed,
                                   link |-> {}, said |-> "none"]
  BY DEF SeatInit, Resting
<1>2. hands \in [Phone -> Hand]
  BY RestingHand DEF SeatInit, NoSeed
<1>3. \A p \in Nation : sessions[p] = <<>> /\ <<>> \in Seq(Session) /\ OpenSessions(<<>>) = {}
  BY DEF SeatInit, OpenSessions
<1>4. SeatTypeOK
  BY <1>2, <1>3 DEF SeatInit, SeatTypeOK, NoSeed
<1> QED BY <1>1, <1>3, <1>4 DEF SeatInit, SeatInv, Keeps, InHand

\* A phone changes what it keeps and asks for, and the seats are as they were.
LEMMA PhoneKeeps ==
  ASSUME SeatInv, UNCHANGED <<places, bySignPub, sessions>>,
         NEW d \in Phone, NEW h \in Hand, hands' = [hands EXCEPT ![d] = h],
         links' \subseteq Code \cup Copy, made' \in Nat,
         knew' \in [Phone -> SUBSET (Nat \ {NoSeed})],
         \A e \in Phone : knew[e] \subseteq knew'[e],
         Keeps(h, knew'[d])
  PROVE  SeatInv'
<1>1. SeatTypeOK'
  BY DEF SeatInv, SeatTypeOK
<1>2. ASSUME NEW e \in Phone PROVE Keeps(hands'[e], knew'[e])
  <2>1. hands'[e] = IF e = d THEN h ELSE hands[e]
    BY DEF SeatInv, SeatTypeOK
  <2> QED BY <2>1 DEF SeatInv, Keeps
<1> QED BY <1>1, <1>2 DEF SeatInv, InHand

\* A phone is answered: what it keeps and asks with is as it was.
LEMMA SaidKeeps ==
  ASSUME SeatInv, NEW d \in Phone, NEW what \in Said, Say(d, what)
  PROVE  /\ hands' \in [Phone -> Hand]
         /\ \A e \in Phone : Keeps(hands'[e], knew[e])
<1>1. hands[d] \in Hand
  BY DEF SeatInv, SeatTypeOK
<1>2. hands' = [hands EXCEPT ![d] = [hands[d] EXCEPT !.said = what]]
  BY <1>1 DEF Say, SeatInv, SeatTypeOK
<1>3. [hands[d] EXCEPT !.said = what] \in Hand
  BY <1>1 DEF Hand
<1>4. ASSUME NEW e \in Phone PROVE Keeps(hands'[e], knew[e])
  <2>1. /\ hands'[e].seed = hands[e].seed
        /\ hands'[e].arg = hands[e].arg
        /\ hands'[e].doing = hands[e].doing
    BY <1>1, <1>2 DEF SeatInv, SeatTypeOK, Hand
  <2> QED BY <2>1 DEF SeatInv, Keeps
<1> QED BY <1>2, <1>3, <1>4 DEF SeatInv, SeatTypeOK

LEMMA OnlySaidKeeps ==
  ASSUME SeatInv, NEW d \in Phone, NEW what \in Said, Say(d, what),
         UNCHANGED <<places, bySignPub, sessions, links, made, knew>>
  PROVE  SeatInv'
BY SaidKeeps DEF SeatInv, SeatTypeOK, InHand

\* A seat gets a key: the index opens it with that key only, and the phones
\* that keep or get a session on it have had the key.
LEMMA SeatGets ==
  ASSUME SeatInv, NEW d \in Phone, NEW what \in Said, Say(d, what),
         NEW p \in Nation, NEW seed \in Nat \ {NoSeed},
         NEW place \in [pub : Nat, epoch : Nat, device : Phone \cup {NoPhone}],
         NEW list \in Seq(Session),
         place.pub = seed, places' = [places EXCEPT ![p] = place],
         bySignPub' = bindSeatKey(p, seed),
         sessions' = [sessions EXCEPT ![p] = list],
         \A e \in Phone : InHand(list, e) => seed \in knew[e],
         UNCHANGED <<links, made, knew>>
  PROVE  SeatInv'
<1>1. hands' \in [Phone -> Hand] /\ \A e \in Phone : Keeps(hands'[e], knew[e])
  BY SaidKeeps
<1>2. bySignPub' \in [Nation -> SUBSET Nat]
      /\ \A q \in Nation :
           bySignPub'[q] = IF q = p THEN (bySignPub[p] \ {places[p].pub}) \cup {seed}
                                           ELSE bySignPub[q]
  BY DEF bindSeatKey, SeatInv, SeatTypeOK
<1>3. SeatTypeOK'
  BY <1>1, <1>2 DEF SeatInv, SeatTypeOK
<1>4. ASSUME NEW q \in Nation
      PROVE  /\ bySignPub'[q] \subseteq {places'[q].pub} \ {NoSeed}
             /\ \A e \in Phone : InHand(sessions'[q], e) => places'[q].pub \in knew'[e]
  <2>1. CASE q = p
    <3>1. places'[q] = place /\ sessions'[q] = list
      BY <2>1 DEF SeatInv, SeatTypeOK
    <3> QED BY <1>2, <2>1, <3>1 DEF SeatInv
  <2>2. CASE q # p
    <3>1. places'[q] = places[q] /\ sessions'[q] = sessions[q]
      BY <2>2 DEF SeatInv, SeatTypeOK
    <3> QED BY <1>2, <2>2, <3>1 DEF SeatInv
  <2> QED BY <2>1, <2>2
<1> QED BY <1>1, <1>3, <1>4 DEF SeatInv, InHand

LEMMA SeatStep == SeatInv /\ [SeatNext]_seatVars => SeatInv'
<1> SUFFICES ASSUME SeatInv, [SeatNext]_seatVars PROVE SeatInv'
  OBVIOUS
<1>1. CASE Restart
  <2>1. \A p \in Nation : sessions'[p] = <<>> /\ <<>> \in Seq(Session)
    BY <1>1 DEF Restart
  <2>2. \A d \in Phone : \A p \in Nation : ~InHand(sessions'[p], d)
    BY <2>1 DEF InHand, OpenSessions
  <2>3. \A p \in Nation : bySignPub'[p] = {places[p].pub} \ {NoSeed} /\ places[p].pub \in Nat
    BY <1>1 DEF Restart, SeatInv, SeatTypeOK
  <2>4. UNCHANGED <<places, hands, links, made, knew>>
    BY <1>1 DEF Restart
  <2>5. sessions' \in [Nation -> Seq(Session)] /\ bySignPub' \in [Nation -> SUBSET Nat]
    BY <1>1, <2>1, <2>3 DEF Restart
  <2> QED BY <2>2, <2>3, <2>4, <2>5 DEF SeatInv, SeatTypeOK
<1>2. ASSUME NEW link \in Code \cup Copy, Shows(link) PROVE SeatInv'
  <2>1. links' \subseteq Code \cup Copy
    BY <1>2 DEF Shows, SeatInv, SeatTypeOK
  <2>2. UNCHANGED <<places, bySignPub, sessions, hands, made, knew>>
    BY <1>2 DEF Shows
  <2> QED BY <2>1, <2>2 DEF SeatInv, SeatTypeOK
<1>3. ASSUME NEW p \in Nation, NEW seed \in Nat PROVE CodeOf(p, seed) \in Code
  BY DEF CodeOf, Code, SeatInv, SeatTypeOK
<1>4. CASE mintHandover
  BY <1>2, <1>3, <1>4 DEF mintHandover, handleGMHandover, NoSeed
<1>5. ASSUME NEW d \in Phone, show(d) PROVE SeatInv'
  <2>1. hands[d].seed \in Nat
    BY DEF SeatInv, SeatTypeOK, Hand
  <2> QED BY <1>2, <1>3, <1>5, <2>1 DEF show, handleSeatHandover, sessionPower
<1>6. ASSUME NEW d \in Phone, seatLink(d) PROVE SeatInv'
  <2>1. hands[d].seed \in Nat \ {NoSeed}
    BY <1>6 DEF seatLink, SeatInv, SeatTypeOK, Hand
  <2>2. [power |-> NoPhone, epoch |-> 0, former |-> hands[d].seed] \in Copy
    BY <2>1 DEF Copy
  <2> QED BY <1>2, <1>6, <2>2 DEF seatLink
<1>7. ASSUME NEW d \in Phone, NEW what \in {"join", "take"}, NEW link \in SUBSET Code,
             NewSeed(d, what, link)
      PROVE  SeatInv'
  <2> DEFINE h == [hands[d] EXCEPT !.doing = what, !.arg = made + 1, !.link = link]
  <2>1. hands[d] \in Hand /\ made \in Nat /\ Keeps(hands[d], knew[d])
    BY DEF SeatInv, SeatTypeOK
  <2>2. h.seed = hands[d].seed /\ h.arg = made + 1
    BY <2>1 DEF Hand
  <2>3. what \in Doing /\ link \in SUBSET Code /\ made + 1 \in Nat
    BY <1>7, <2>1 DEF Doing
  <2>4. h \in Hand
    BY <2>1, <2>3 DEF Hand
  <2>5. /\ hands' = [hands EXCEPT ![d] = h]
        /\ knew' = [knew EXCEPT ![d] = @ \cup {made + 1}]
        /\ UNCHANGED <<places, bySignPub, sessions, links>>
        /\ made' \in Nat
    BY <1>7, <2>1 DEF NewSeed, AskSeat
  <2> HIDE DEF h
  <2>6. /\ knew' \in [Phone -> SUBSET (Nat \ {NoSeed})]
        /\ \A e \in Phone : knew[e] \subseteq knew'[e]
        /\ made + 1 \in knew'[d]
    BY <2>1, <2>5 DEF SeatInv, SeatTypeOK, NoSeed
  <2>7. Keeps(h, knew'[d])
    BY <2>1, <2>2, <2>6 DEF Keeps
  <2>8. links' \subseteq Code \cup Copy
    BY <2>5 DEF SeatInv, SeatTypeOK
  <2> QED BY <2>4, <2>5, <2>6, <2>7, <2>8, PhoneKeeps
<1>8. ASSUME NEW d \in Phone, claim(d) PROVE SeatInv'
  BY <1>7, <1>8 DEF claim
<1>9. ASSUME NEW d \in Phone, NEW l \in links, take(d, l) PROVE SeatInv'
  <2>1. l \in Code
    BY <1>9, SeatAssumption DEF take, SeatInv, SeatTypeOK, Code, Copy
  <2> QED BY <1>7, <1>9, <2>1 DEF take
<1>10. ASSUME NEW d \in Phone, NEW l \in links, takeSeedFromAddress(d, l) PROVE SeatInv'
  <2> DEFINE h == [hands[d] EXCEPT !.seed = l.former]
  <2>1. l.former \in Nat \ {NoSeed}
    BY <1>10, SeatAssumption DEF takeSeedFromAddress, SeatInv, SeatTypeOK, Code, Copy
  <2>2. hands[d] \in Hand /\ Keeps(hands[d], knew[d])
    BY DEF SeatInv, SeatTypeOK
  <2>3. h \in Hand /\ h.seed = l.former /\ h.arg = hands[d].arg /\ h.doing = hands[d].doing
    BY <2>1, <2>2 DEF Hand, Doing, Said
  <2>4. /\ hands' = [hands EXCEPT ![d] = h]
        /\ knew' = [knew EXCEPT ![d] = @ \cup {l.former}]
        /\ UNCHANGED <<places, bySignPub, sessions, links, made>>
    BY <1>10, <2>2 DEF takeSeedFromAddress, SeatInv, SeatTypeOK
  <2> HIDE DEF h
  <2>5. /\ knew' \in [Phone -> SUBSET (Nat \ {NoSeed})]
        /\ \A e \in Phone : knew[e] \subseteq knew'[e]
        /\ l.former \in knew'[d]
    BY <2>1, <2>4 DEF SeatInv, SeatTypeOK
  <2>6. Keeps(h, knew'[d])
    BY <2>2, <2>3, <2>5 DEF Keeps
  <2>7. links' \subseteq Code \cup Copy /\ made' \in Nat
    BY <2>4 DEF SeatInv, SeatTypeOK
  <2> QED BY <2>3, <2>4, <2>5, <2>6, <2>7, PhoneKeeps
\* A phone asks, is answered or forgets, with the keys it had.
<1>11. ASSUME NEW d \in Phone, NEW h \in Hand, hands' = [hands EXCEPT ![d] = h],
              UNCHANGED <<places, bySignPub, sessions, links, made, knew>>,
              Keeps(h, knew[d])
       PROVE  SeatInv'
  <2>1. /\ knew' \in [Phone -> SUBSET (Nat \ {NoSeed})]
        /\ links' \subseteq Code \cup Copy /\ made' \in Nat
    BY <1>11 DEF SeatInv, SeatTypeOK
  <2> QED BY <1>11, <2>1, PhoneKeeps
<1>12. ASSUME NEW d \in Phone, call(d) PROVE SeatInv'
  <2> DEFINE h == [hands[d] EXCEPT !.doing = "call", !.arg = NoSeed, !.link = {}]
  <2>1. hands[d] \in Hand /\ Keeps(hands[d], knew[d])
    BY DEF SeatInv, SeatTypeOK
  <2>2. {} \in SUBSET Code /\ NoSeed \in Nat
    BY DEF NoSeed
  <2>3. h \in Hand /\ h.seed = hands[d].seed /\ h.arg = NoSeed /\ h.doing = "call"
    BY <2>1, <2>2 DEF Hand, Doing, Said
  <2>4. /\ hands' = [hands EXCEPT ![d] = h]
        /\ UNCHANGED <<places, bySignPub, sessions, links, made, knew>>
    BY <1>12 DEF call, AskSeat
  <2> HIDE DEF h
  <2>5. Keeps(h, knew[d])
    BY <2>1, <2>3 DEF Keeps
  <2> QED BY <1>11, <2>3, <2>4, <2>5
<1>13. ASSUME NEW d \in Phone, serveTokenScope(d) PROVE SeatInv'
  <2>1. PICK what \in {"404", "ok"} : Say(d, what)
    BY <1>13 DEF serveTokenScope
  <2> QED BY <1>13, <2>1, OnlySaidKeeps DEF serveTokenScope, Said
<1>14. ASSUME NEW d \in Phone, withSession(d) PROVE SeatInv'
  <2> DEFINE h == [hands[d] EXCEPT !.doing = "sign", !.arg = hands[d].seed, !.said = "none"]
  <2>1. hands[d] \in Hand /\ Keeps(hands[d], knew[d])
    BY DEF SeatInv, SeatTypeOK
  <2>2. h \in Hand /\ h.seed = hands[d].seed /\ h.arg = hands[d].seed /\ h.doing = "sign"
    BY <2>1 DEF Hand, Doing, Said
  <2>3. /\ hands' = [hands EXCEPT ![d] = h]
        /\ UNCHANGED <<places, bySignPub, sessions, links, made, knew>>
    BY <1>14 DEF withSession
  <2> HIDE DEF h
  <2>4. Keeps(h, knew[d])
    BY <2>1, <2>2 DEF Keeps
  <2> QED BY <1>11, <2>2, <2>3, <2>4
<1>15. ASSUME NEW d \in Phone, Forgotten(d) PROVE SeatInv'
  <2>1. Resting(NoSeed) \in Hand /\ Keeps(Resting(NoSeed), knew[d])
    BY RestingHand DEF NoSeed, Resting, Keeps
  <2> QED BY <1>11, <1>15, <2>1 DEF Forgotten
<1>16. ASSUME NEW d \in Phone, handleJoin(d) PROVE SeatInv'
  <2>1. hands[d].arg \in knew[d] /\ hands[d].arg \in Nat \ {NoSeed}
    BY <1>16 DEF handleJoin, Waits, SeatInv, SeatTypeOK, Keeps
  <2>2. ASSUME NEW what \in Said, Say(d, what), UNCHANGED <<places, bySignPub, sessions>>
        PROVE  SeatInv'
    BY <1>16, <2>2, OnlySaidKeeps DEF handleJoin
  <2>3. CASE \E p \in Nation : places[p].device = d
    BY <1>16, <2>2, <2>3 DEF handleJoin, Said
  <2>4. ASSUME NEW p \in Nation, places[p].pub = NoSeed,
               places' = [places EXCEPT ![p].pub = hands[d].arg, ![p].device = d],
               bySignPub' = bindSeatKey(p, hands[d].arg),
               sessions' = [sessions EXCEPT ![p] = rememberSession(@, Coming(d))],
               Say(d, "keyed")
        PROVE  SeatInv'
    <3> DEFINE place == [places[p] EXCEPT !.pub = hands[d].arg, !.device = d]
               list == rememberSession(sessions[p], Coming(d))
    <3>1. /\ place \in [pub : Nat, epoch : Nat, device : Phone \cup {NoPhone}]
          /\ place.pub = hands[d].arg
          /\ places' = [places EXCEPT ![p] = place]
      <4>1. places[p] \in [pub : Nat, epoch : Nat, device : Phone \cup {NoPhone}]
        BY DEF SeatInv, SeatTypeOK
      <4>2. place \in [pub : Nat, epoch : Nat, device : Phone \cup {NoPhone}]
            /\ place.pub = hands[d].arg
        BY <2>1, <4>1
      <4>3. places' = [places EXCEPT ![p] = place]
        BY <2>4, <4>1 DEF SeatInv, SeatTypeOK
      <4> QED BY <4>2, <4>3
    <3>2. sessions[p] \in Seq(Session) /\ sessions' = [sessions EXCEPT ![p] = list]
      BY <2>4 DEF SeatInv, SeatTypeOK
    <3>3. /\ list \in Seq(Session)
          /\ OpenSessions(list) \subseteq OpenSessions(sessions[p]) \cup {Coming(d)}
      BY <3>2, Remembered, SessionNames
    <3> HIDE DEF place, list
    <3>4. ASSUME NEW e \in Phone, InHand(list, e) PROVE hands[d].arg \in knew[e]
      <4>1. ~InHand(sessions[p], e)
        BY <2>4 DEF SeatInv, SeatTypeOK
      <4>2. e = d
        BY <3>3, <3>4, <4>1, SessionNames DEF InHand
      <4> QED BY <2>1, <4>2
    <3>5. UNCHANGED <<links, made, knew>> /\ "keyed" \in Said
      BY <1>16 DEF handleJoin, Said
    <3> QED BY <2>1, <2>4, <3>1, <3>2, <3>3, <3>4, <3>5, SeatGets
  <2>5. CASE ~\E p \in Nation : places[p].device = d
    <3>1. \/ \E p \in Nation :
               /\ places[p].pub = NoSeed
               /\ places' = [places EXCEPT ![p].pub = hands[d].arg, ![p].device = d]
               /\ bySignPub' = bindSeatKey(p, hands[d].arg)
               /\ sessions' = [sessions EXCEPT ![p] = rememberSession(@, Coming(d))]
               /\ Say(d, "keyed")
          \/ Say(d, "refused") /\ UNCHANGED <<places, bySignPub, sessions>>
      BY <1>16, <2>5 DEF handleJoin
    <3> QED BY <2>2, <2>4, <3>1 DEF Said
  <2> QED BY <2>3, <2>5
<1>17. ASSUME NEW d \in Phone, handleHandoverClaim(d) PROVE SeatInv'
  <2>1. /\ hands[d].arg \in knew[d] /\ hands[d].arg \in Nat \ {NoSeed}
        /\ hands[d].link \subseteq Code
    BY <1>17 DEF handleHandoverClaim, Waits, SeatInv, SeatTypeOK, Keeps, Hand
  <2>2. PICK l \in hands[d].link :
          IF l.epoch # places[l.power].epoch
          THEN Say(d, "refused") /\ UNCHANGED <<places, bySignPub, sessions>>
          ELSE /\ places' = [places EXCEPT ![l.power] =
                               [pub |-> hands[d].arg, epoch |-> @.epoch + 1, device |-> NoPhone]]
               /\ bySignPub' = bindSeatKey(l.power, hands[d].arg)
               /\ sessions' = [sessions EXCEPT ![l.power] = <<Coming(d)>>]
               /\ Say(d, "keyed")
    BY <1>17 DEF handleHandoverClaim
  <2>3. UNCHANGED <<links, made, knew>> /\ "keyed" \in Said /\ "refused" \in Said
    BY <1>17 DEF handleHandoverClaim, Said
  <2>4. CASE l.epoch # places[l.power].epoch
    BY <2>2, <2>3, <2>4, OnlySaidKeeps
  <2>5. CASE ~(l.epoch # places[l.power].epoch)
    <3> DEFINE place == [pub |-> hands[d].arg, epoch |-> places[l.power].epoch + 1,
                         device |-> NoPhone]
               list == <<Coming(d)>>
    <3>1. l.power \in Nation
      BY <2>1 DEF Code
    <3>2. /\ place \in [pub : Nat, epoch : Nat, device : Phone \cup {NoPhone}]
          /\ place.pub = hands[d].arg
          /\ places' = [places EXCEPT ![l.power] = place]
      BY <2>1, <2>2, <2>5, <3>1 DEF SeatInv, SeatTypeOK
    <3>3. list \in Seq(Session) /\ OpenSessions(list) = {Coming(d)}
      BY SessionNames DEF OpenSessions
    <3>4. ASSUME NEW e \in Phone, InHand(list, e) PROVE hands[d].arg \in knew[e]
      <4>1. e = d
        BY <3>3, <3>4, SessionNames DEF InHand
      <4> QED BY <2>1, <4>1
    <3>5. /\ bySignPub' = bindSeatKey(l.power, hands[d].arg)
          /\ sessions' = [sessions EXCEPT ![l.power] = list]
          /\ Say(d, "keyed")
      BY <2>2, <2>5
    <3> HIDE DEF place, list
    <3> QED BY <2>1, <2>3, <3>1, <3>2, <3>3, <3>4, <3>5, SeatGets
  <2> QED BY <2>4, <2>5
<1>18. ASSUME NEW d \in Phone, handleSeatSession(d) PROVE SeatInv'
  <2>1. /\ UNCHANGED <<places, bySignPub, links, made, knew>>
        /\ "signed" \in Said /\ "refused" \in Said
    BY <1>18 DEF handleSeatSession, Said
  <2>2. CASE Say(d, "refused") /\ UNCHANGED sessions
    BY <2>1, <2>2, OnlySaidKeeps
  <2>3. ASSUME NEW p \in Nation, hands[d].arg \in bySignPub[p],
               sessions' = [sessions EXCEPT ![p] = rememberSession(@, Coming(d))],
               Say(d, "signed")
        PROVE  SeatInv'
    <3> DEFINE list == rememberSession(sessions[p], Coming(d))
    <3>1. places[p].pub = hands[d].arg /\ hands[d].arg \in knew[d]
      BY <2>3 DEF SeatInv, Keeps
    <3>2. sessions[p] \in Seq(Session) /\ sessions' = [sessions EXCEPT ![p] = list]
      BY <2>3 DEF SeatInv, SeatTypeOK
    <3>3. /\ list \in Seq(Session)
          /\ OpenSessions(list) \subseteq OpenSessions(sessions[p]) \cup {Coming(d)}
      BY <3>2, Remembered, SessionNames
    <3> HIDE DEF list
    <3>4. ASSUME NEW e \in Phone, InHand(list, e) PROVE places[p].pub \in knew[e]
      <4>1. InHand(sessions[p], e) \/ e = d
        BY <3>3, <3>4, SessionNames DEF InHand
      <4> QED BY <3>1, <4>1 DEF SeatInv
    <3>5. hands' \in [Phone -> Hand] /\ \A e \in Phone : Keeps(hands'[e], knew[e])
      BY <2>1, <2>3, SaidKeeps
    <3>6. SeatTypeOK'
      BY <2>1, <3>2, <3>3, <3>5 DEF SeatInv, SeatTypeOK
    <3>7. ASSUME NEW q \in Nation, NEW e \in Phone, InHand(sessions'[q], e)
          PROVE  places[q].pub \in knew[e]
      <4>1. sessions'[q] = IF q = p THEN list ELSE sessions[q]
        BY <3>2 DEF SeatInv, SeatTypeOK
      <4> QED BY <3>4, <3>7, <4>1 DEF SeatInv
    <3> QED BY <2>1, <3>5, <3>6, <3>7 DEF SeatInv, InHand
  <2> QED BY <1>18, <2>2, <2>3 DEF handleSeatSession
\* An answer arrives or is lost: no phone comes by a session by it, and no
\* seat by a key.
<1>19. ASSUME NEW d \in Phone, NEW h \in Hand, hands' = [hands EXCEPT ![d] = h],
              Keeps(h, knew[d]),
              places' \in [Nation -> [pub : Nat, epoch : Nat, device : Phone \cup {NoPhone}]],
              \A p \in Nation : places'[p].pub = places[p].pub,
              sessions' \in [Nation -> Seq(Session)],
              \A p \in Nation : \A e \in Phone : InHand(sessions'[p], e) => InHand(sessions[p], e),
              UNCHANGED <<bySignPub, links, made, knew>>
       PROVE  SeatInv'
  <2>1. SeatTypeOK'
    BY <1>19 DEF SeatInv, SeatTypeOK
  <2>2. ASSUME NEW e \in Phone PROVE Keeps(hands'[e], knew[e])
    <3>1. hands'[e] = IF e = d THEN h ELSE hands[e]
      BY <1>19 DEF SeatInv, SeatTypeOK
    <3> QED BY <1>19, <3>1 DEF SeatInv
  <2> QED BY <1>19, <2>1, <2>2 DEF SeatInv, InHand
<1>20. ASSUME NEW d \in Phone, Answered(d) PROVE SeatInv'
  <2> DEFINE h == CASE hands[d].said = "signed" ->
                         [hands[d] EXCEPT !.doing = "again", !.arg = NoSeed, !.said = "none"]
                    [] hands[d].said \in {"keyed", "yours"} -> Resting(hands[d].arg)
                    [] OTHER -> Resting(hands[d].seed)
  <2>1. /\ hands[d] \in Hand /\ Keeps(hands[d], knew[d])
        /\ hands[d].seed \in Nat /\ hands[d].arg \in Nat
    BY DEF SeatInv, SeatTypeOK, Hand
  <2>2. hands' = [hands EXCEPT ![d] = h] /\ UNCHANGED <<places, bySignPub, links, made, knew>>
    BY <1>20 DEF Answered
  <2>3. h \in Hand /\ Keeps(h, knew[d])
    <3>1. CASE hands[d].said = "signed"
      <4> DEFINE g == [hands[d] EXCEPT !.doing = "again", !.arg = NoSeed, !.said = "none"]
      <4>1. g.seed = hands[d].seed /\ g.arg = NoSeed /\ g.doing = "again"
        BY <2>1 DEF Hand
      <4>2. NoSeed \in Nat /\ "again" \in Doing /\ "none" \in Said
        BY DEF NoSeed, Doing, Said
      <4>3. g \in Hand
        BY <2>1, <4>2 DEF Hand
      <4>4. h = g
        BY <3>1
      <4> HIDE DEF g, h
      <4> QED BY <2>1, <4>1, <4>3, <4>4 DEF Keeps
    <3>2. ASSUME NEW seed \in Nat, seed \in knew[d] \cup {NoSeed}
          PROVE  Resting(seed) \in Hand /\ Keeps(Resting(seed), knew[d])
      BY <3>2, RestingHand DEF Resting, Keeps
    <3>3. CASE hands[d].said # "signed"
      <4>1. h \in {Resting(hands[d].arg), Resting(hands[d].seed)}
        BY <3>3
      <4>2. hands[d].arg \in knew[d] \cup {NoSeed} /\ hands[d].seed \in knew[d] \cup {NoSeed}
        BY <2>1 DEF Keeps
      <4> HIDE DEF h
      <4> QED BY <2>1, <3>2, <4>1, <4>2
    <3> QED BY <3>1, <3>3
  <2> HIDE DEF h
  <2>4. /\ sessions' \in [Nation -> Seq(Session)]
        /\ \A p \in Nation : \A e \in Phone : InHand(sessions'[p], e) => InHand(sessions[p], e)
    <3>1. CASE sessions' = sessions
      BY <3>1 DEF SeatInv, SeatTypeOK
    <3>2. CASE sessions' = CookieSet(d)
      BY <3>2, CookieSetOpen DEF SeatInv
    <3> QED BY <1>20, <3>1, <3>2 DEF Answered
  <2>5. places' \in [Nation -> [pub : Nat, epoch : Nat, device : Phone \cup {NoPhone}]]
    BY <2>2 DEF SeatInv, SeatTypeOK
  <2> QED BY <1>19, <2>2, <2>3, <2>4, <2>5
<1>21. ASSUME NEW d \in Phone, AnswerLost(d) PROVE SeatInv'
  <2>1. /\ hands[d].seed \in Nat
        /\ Keeps(hands[d], knew[d])
    BY DEF SeatInv, SeatTypeOK, Hand
  <2>2. Resting(hands[d].seed) \in Hand /\ Keeps(Resting(hands[d].seed), knew[d])
    BY <2>1, RestingHand DEF Resting, Keeps
  <2>3. hands' = [hands EXCEPT ![d] = Resting(hands[d].seed)] /\ sessions' = CookieLost(d)
        /\ UNCHANGED <<bySignPub, links, made, knew>>
    BY <1>21 DEF AnswerLost
  <2>4. /\ places' \in [Nation -> [pub : Nat, epoch : Nat, device : Phone \cup {NoPhone}]]
        /\ \A p \in Nation : places'[p].pub = places[p].pub
    <3>1. ASSUME NEW p \in Nation
          PROVE  LET one == IF hands[d].doing = "join" /\ places[p].pub = hands[d].arg
                            THEN [places[p] EXCEPT !.device = NoPhone] ELSE places[p]
                 IN  /\ one \in [pub : Nat, epoch : Nat, device : Phone \cup {NoPhone}]
                     /\ one.pub = places[p].pub
      BY DEF SeatInv, SeatTypeOK
    <3> QED BY <1>21, <3>1 DEF AnswerLost
  <2> QED BY <1>19, <2>2, <2>3, <2>4, CookieLostOpen DEF SeatInv
<1>22. CASE UNCHANGED seatVars
  BY <1>22 DEF seatVars, SeatInv, SeatTypeOK, InHand
<1> QED BY <1>1, <1>4, <1>5, <1>6, <1>8, <1>9, <1>10, <1>12, <1>13, <1>14, <1>15, <1>16, <1>17,
           <1>18, <1>20, <1>21, <1>22 DEF SeatNext

\* handleHandoverClaim's "everything the old holder had stops working here",
\* for every table, whatever is lost, restarted or opened where.
THEOREM FormerHoldersStayOut == SeatSpec => []FormerHolderIsOut
<1>1. SeatInv => FormerHolderIsOut
  BY DEF SeatInv, FormerHolderIsOut, InHand
<1> QED BY <1>1, SeatInitInv, SeatStep, PTL DEF SeatSpec

-------------------------------------------------------------------------------
(* DrawVote: proposals are numbered as they are closed, so one that is     *)
(* closed never ends the game; the one that stands was made of the powers  *)
(* that are still alive, because a phase that resolves withdraws it.       *)

\* k proposals are closed, and the one that stands comes after them.
Numbered(k) ==
  /\ k \in Nat /\ settled = 1..k
  /\ proposal # NoDraw => proposal.n = k + 1

\* The proposal that stands asks the survivors it leaves out, and is confirmed
\* by powers that sent a consent.
ProposalStands ==
  proposal # NoDraw =>
    /\ ~Over
    /\ proposal.required = alive \ proposal.powers
    /\ proposal.confirmed \subseteq consents

\* A consent on its way was sent.
ConsentsAreSent ==
  \A req \in requests :
    req.kind \notin {"draw", "withdraw"} /\ req.accept => req.who \in consents

VoteInv ==
  /\ \E k \in Nat : Numbered(k)
  /\ ProposalStands
  /\ ConsentsAreSent
  /\ NobodyIsVotedOut

LEMMA VoteInitInv == VoteInit => VoteInv
<1> SUFFICES ASSUME VoteInit PROVE VoteInv
  OBVIOUS
<1>1. Numbered(0)
  BY DEF VoteInit, Numbered
<1> QED BY <1>1 DEF VoteInit, VoteInv, ProposalStands, ConsentsAreSent, NobodyIsVotedOut, Over

\* Closing the proposal that stands closes the next number.
LEMMA DroppedCounts ==
  ASSUME NEW k \in Nat, Numbered(k)
  PROVE  \E j \in Nat : Dropped = 1..j /\ Cardinality(Dropped) = j /\ (proposal = NoDraw => j = k)
<1>1. \A j \in Nat : Cardinality(1..j) = j
  BY FS_Interval
<1>2. CASE proposal = NoDraw
  <2>1. Dropped = 1..k
    BY <1>2 DEF Dropped, Numbered
  <2> QED BY <1>1, <2>1
<1>3. CASE proposal # NoDraw
  <2>1. Dropped = (1..k) \cup {k + 1}
    BY <1>3 DEF Dropped, Numbered
  <2>2. Dropped = 1..(k + 1) /\ k + 1 \in Nat
    BY <2>1
  <2>3. Cardinality(Dropped) = k + 1
    BY <1>1, <2>2
  <2> QED BY <1>3, <2>2, <2>3
<1> QED BY <1>2, <1>3

\* Nothing stands any more, and the game goes on or is over as it was.
LEMMA Closed ==
  ASSUME VoteInv, proposal' = NoDraw, settled' = Dropped, result' = result,
         requests' \subseteq requests, consents' = consents
  PROVE  VoteInv'
<1>1. PICK k \in Nat : Numbered(k)
  BY DEF VoteInv
<1>2. PICK j \in Nat : Dropped = 1..j /\ (proposal = NoDraw => j = k)
  BY <1>1, DroppedCounts
<1>3. Numbered(j)'
  BY <1>2 DEF Numbered
<1>4. Over' => Over /\ settled' = settled
  BY <1>1, <1>2 DEF VoteInv, ProposalStands, Numbered, Over
<1>5. NobodyIsVotedOut'
  BY <1>4 DEF VoteInv, NobodyIsVotedOut, Over
<1> QED BY <1>3, <1>5 DEF VoteInv, ProposalStands, ConsentsAreSent

\* A step of a screen: the server is as it was, and no consent is taken back.
LEMMA ScreensKeep ==
  ASSUME VoteInv, UNCHANGED <<alive, proposal, result, settled>>, consents \subseteq consents',
         ConsentsAreSent'
  PROVE  VoteInv'
<1>1. PICK k \in Nat : Numbered(k)
  BY DEF VoteInv
<1>2. Numbered(k)'
  BY <1>1 DEF Numbered
<1> QED BY <1>2 DEF VoteInv, ProposalStands, NobodyIsVotedOut, Over

\* The game master's call is served.
LEMMA ProposedKeeps ==
  ASSUME VoteInv, NEW req, handleGMDraw(req), UNCHANGED <<alive, consents>>,
         requests' \subseteq requests
  PROVE  VoteInv'
<1>0. ConsentsAreSent'
  BY DEF VoteInv, ConsentsAreSent
<1>1. CASE Over \/ ~(req.powers \subseteq alive)
  BY <1>0, <1>1, ScreensKeep DEF handleGMDraw
<1>2. PICK k \in Nat : Numbered(k)
  BY DEF VoteInv
<1>3. PICK j \in Nat : Dropped = 1..j /\ Cardinality(Dropped) = j
  BY <1>2, DroppedCounts
<1>4. CASE ~Over /\ req.powers = alive
  <2>1. proposal' = NoDraw /\ settled' = 1..j
        /\ result' = [powers |-> alive, out |-> alive \ alive, n |-> 0]
    BY <1>3, <1>4 DEF handleGMDraw, endGame
  <2>2. Numbered(j)'
    BY <2>1 DEF Numbered
  <2>3. NobodyIsVotedOut'
    BY <2>1 DEF NobodyIsVotedOut
  <2> QED BY <1>0, <2>1, <2>2, <2>3 DEF VoteInv, ProposalStands
<1>5. CASE ~Over /\ req.powers \subseteq alive /\ req.powers # alive
  <2>1. /\ proposal' = [powers |-> req.powers, required |-> alive \ req.powers,
                        confirmed |-> {}, n |-> j + 1]
        /\ settled' = 1..j /\ result' = result
    BY <1>3, <1>5 DEF handleGMDraw
  <2>2. Numbered(j)'
    BY <2>1 DEF Numbered
  <2>3. ~Over'
    BY <1>5, <2>1 DEF Over
  <2> QED BY <1>0, <2>1, <2>2, <2>3 DEF VoteInv, ProposalStands, NobodyIsVotedOut
<1> QED BY <1>1, <1>4, <1>5

\* A seat's answer is served: only the last consent that was missing ends the
\* game, and then every survivor left out has sent one.
LEMMA AnswerKeeps ==
  ASSUME VoteInv, NEW req, handleSeatDrawResponse(req), UNCHANGED <<alive, consents>>,
         requests' \subseteq requests, req.accept => req.who \in consents
  PROVE  VoteInv'
<1>0. ConsentsAreSent'
  BY DEF VoteInv, ConsentsAreSent
<1>1. CASE proposal = NoDraw \/ Over \/ req.who \notin proposal.required
  BY <1>0, <1>1, ScreensKeep DEF handleSeatDrawResponse
<1>2. CASE ~(proposal = NoDraw \/ Over \/ req.who \notin proposal.required) /\ ~req.accept
  <2>1. proposal' = NoDraw /\ settled' = Dropped /\ result' = result
    BY <1>2 DEF handleSeatDrawResponse
  <2> QED BY <2>1, Closed
<1>3. CASE ~(proposal = NoDraw \/ Over \/ req.who \notin proposal.required) /\ req.accept
  <2> DEFINE confirmed == proposal.confirmed \cup {req.who}
  <2>1. confirmed \subseteq consents
    BY <1>3 DEF VoteInv, ProposalStands
  <2>2. PICK k \in Nat : Numbered(k)
    BY DEF VoteInv
  <2>3. CASE allConfirmed(proposal.required, confirmed)
    <3>1. /\ result' = [powers |-> proposal.powers, out |-> alive \ proposal.powers,
                        n |-> proposal.n]
          /\ proposal' = NoDraw /\ settled' = settled
      BY <1>3, <2>3 DEF handleSeatDrawResponse, endGame
    <3>2. alive \ proposal.powers \subseteq consents
      BY <1>3, <2>1, <2>3 DEF VoteInv, ProposalStands, allConfirmed
    <3>3. proposal.n \notin settled
      BY <1>3, <2>2 DEF Numbered
    <3>4. NobodyIsVotedOut'
      BY <3>1, <3>2, <3>3 DEF NobodyIsVotedOut
    <3>5. Numbered(k)'
      BY <2>2, <3>1 DEF Numbered
    <3> QED BY <1>0, <3>1, <3>4, <3>5 DEF VoteInv, ProposalStands
  <2>4. CASE ~allConfirmed(proposal.required, confirmed)
    <3>1. proposal' = [proposal EXCEPT !.confirmed = confirmed]
          /\ UNCHANGED <<result, settled>>
      BY <1>3, <2>4 DEF handleSeatDrawResponse
    <3> HIDE DEF confirmed
    <3> QED BY <1>0, <1>3, <2>1, <2>2, <3>1
            DEF VoteInv, Numbered, ProposalStands, NobodyIsVotedOut, Over
  <2> QED BY <2>3, <2>4
<1> QED BY <1>1, <1>2, <1>3

LEMMA VoteStep == VoteInv /\ [VoteNext]_drawVoteVars => VoteInv'
<1> SUFFICES ASSUME VoteInv, [VoteNext]_drawVoteVars PROVE VoteInv'
  OBVIOUS
<1>1. ASSUME NEW req \in requests, Serve(req) PROVE VoteInv'
  <2>1. requests' \subseteq requests /\ UNCHANGED <<alive, consents>>
    BY <1>1 DEF Serve
  <2>2. CASE req.kind = "draw"
    BY <1>1, <2>1, <2>2, ProposedKeeps DEF Serve
  <2>3. CASE req.kind = "withdraw"
    BY <1>1, <2>1, <2>3, Closed DEF Serve, handleGMDrawWithdraw
  <2>4. CASE req.kind \notin {"draw", "withdraw"}
    BY <1>1, <2>1, <2>4, AnswerKeeps DEF Serve, VoteInv, ConsentsAreSent
  <2> QED BY <2>2, <2>3, <2>4
<1>2. CASE Resolve
  BY <1>2, Closed DEF Resolve
<1>3. CASE ReadDesk
  BY <1>3, ScreensKeep DEF ReadDesk, VoteInv, ConsentsAreSent
<1>4. CASE onWithdraw
  BY <1>4, ScreensKeep DEF onWithdraw, Call, VoteInv, ConsentsAreSent
<1>5. ASSUME NEW picked \in Ballots, onDraw(picked) PROVE VoteInv'
  BY <1>5, ScreensKeep DEF onDraw, Call, VoteInv, ConsentsAreSent
<1>6. ASSUME NEW p \in Voter, ReadSeat(p) PROVE VoteInv'
  BY <1>6, ScreensKeep DEF ReadSeat, VoteInv, ConsentsAreSent
<1>7. ASSUME NEW p \in Voter, NEW accept \in BOOLEAN, drawResponse(p, accept) PROVE VoteInv'
  <2>1. requests' = requests \cup {[kind |-> "answer", who |-> p, accept |-> accept]}
    BY <1>7 DEF drawResponse, Call
  <2>2. consents \subseteq consents' /\ (accept => p \in consents')
    BY <1>7 DEF drawResponse
  <2>3. ConsentsAreSent'
    BY <2>1, <2>2 DEF VoteInv, ConsentsAreSent
  <2> QED BY <1>7, <2>2, <2>3, ScreensKeep DEF drawResponse
<1>8. CASE UNCHANGED drawVoteVars
  BY <1>8, ScreensKeep DEF drawVoteVars, VoteInv, ConsentsAreSent
<1> QED BY <1>1, <1>2, <1>3, <1>4, <1>5, <1>6, <1>7, <1>8 DEF VoteNext

\* ADR-052, at every table and whatever the delays: a game that ends in a draw
\* ends by a proposal that nobody closed, with a consent sent by every survivor
\* it leaves out.
THEOREM NobodyLeftOutUnasked == VoteSpec => []NobodyIsVotedOut
<1>1. VoteInv => NobodyIsVotedOut
  BY DEF VoteInv
<1> QED BY <1>1, VoteInitInv, VoteStep, PTL DEF VoteSpec

-------------------------------------------------------------------------------
(* MasterKey: a hand-over of the role ends the key and it never comes back;*)
(* a browser keeps a key when the server has told it that it is the game's,*)
(* and one that was just made is nobody's yet.                             *)

Makes == [doing : {"making"}, with : Secret, said : {"none", "made", "refused"}]

\* A key the server has not been asked to keep yet.
Fresh(w) == w.doing = "making" /\ w.said = "none"

\* What a browser may be doing with a key: one it has just made is nobody's,
\* one it was answered for or signs with is the game's, or was.
Told(w, k, ended) ==
  /\ w.doing = "making" => w \in Makes
  /\ Fresh(w) => w.with \notin {k} \cup ended
  /\ (w.doing = "making" /\ w.said = "made")
       \/ w.doing \in {"asking", "claiming", "claimed", "failed"} =>
       w.with \in ({k} \cup ended) \ {NoKey}

KeyInv ==
  /\ key \in Secret \cup {NoKey} /\ retired \subseteq Secret /\ key \notin retired
  /\ DOMAIN stored = Screen /\ DOMAIN work = Screen
  /\ \A s \in Screen : stored[s] \in {NoKey, key} \cup retired
  /\ \A s \in Screen : Told(work[s], key, retired)
  /\ \A s, t \in Screen :
       s # t /\ Fresh(work[s]) /\ Fresh(work[t]) => work[s].with # work[t].with
  /\ paper \subseteq ({key} \cup retired) \ {NoKey}

LEMMA KeyInitInv == KeyInit => KeyInv
BY DEF KeyInit, KeyInv, Told, Fresh, Idle

\* A browser turns to something else, and the game's key is as it was.
LEMMA BusyKeeps ==
  ASSUME KeyInv, NEW s \in Screen, NEW w, Busy(s, w), Told(w, key, retired),
         UNCHANGED <<key, retired, paper>>, DOMAIN stored' = Screen,
         \A t \in Screen : stored'[t] \in {stored[t], key} \cup retired,
         Fresh(w) => \A t \in Screen : Fresh(work[t]) /\ t # s => work[t].with # w.with
  PROVE  KeyInv'
<1>1. \A t \in Screen : work'[t] = IF t = s THEN w ELSE work[t]
  BY DEF Busy, KeyInv
<1>2. DOMAIN work' = Screen
  BY DEF Busy, KeyInv
<1>3. ASSUME NEW t \in Screen PROVE Told(work'[t], key, retired)
  BY <1>1 DEF KeyInv
<1>4. ASSUME NEW t \in Screen, NEW u \in Screen, t # u, Fresh(work'[t]), Fresh(work'[u])
      PROVE  work'[t].with # work'[u].with
  BY <1>1, <1>4 DEF KeyInv
<1>5. /\ key' \in Secret \cup {NoKey} /\ retired' \subseteq Secret /\ key' \notin retired'
      /\ paper' \subseteq ({key'} \cup retired') \ {NoKey}
      /\ \A t \in Screen : stored'[t] \in {NoKey, key'} \cup retired'
  BY DEF KeyInv
<1> HIDE DEF Fresh
<1>6. \A t \in Screen : Told(work'[t], key', retired')
  BY <1>3
<1>7. \A t, u \in Screen :
        t # u /\ Fresh(work'[t]) /\ Fresh(work'[u]) => work'[t].with # work'[u].with
  BY <1>4
<1> QED BY <1>2, <1>5, <1>6, <1>7 DEF KeyInv, Fresh

\* Nothing that matters to the key moves.
LEMMA RestKeeps ==
  ASSUME KeyInv, UNCHANGED <<key, retired, stored, paper, work>>
  PROVE  KeyInv'
BY DEF KeyInv, Told, Fresh

\* The server keeps the key that one browser made, or refuses it.
LEMMA GivenKeeps ==
  ASSUME KeyInv, NEW s \in Screen, handleGMKey(s)
  PROVE  KeyInv'
<1> DEFINE w == work[s]
           taken == ~IsGM(s) \/ (key # NoKey /\ key # w.with)
           answer == [w EXCEPT !.said = IF taken THEN "refused" ELSE "made"]
<1>1. /\ w \in Makes /\ Fresh(w)
      /\ key' = IF taken THEN key ELSE w.with
      /\ Busy(s, answer) /\ UNCHANGED <<retired, stored, paper>>
  BY DEF handleGMKey, KeyInv, Told, Fresh
<1>2. NoKey \notin Secret /\ w.with \in Secret /\ w.with \notin {key} \cup retired
  BY <1>1, KeyAssumption DEF KeyInv, Told, Makes
<1>3. answer \in Makes /\ answer.with = w.with
      /\ answer.said = IF taken THEN "refused" ELSE "made"
  BY <1>1 DEF Makes
<1>4. answer.doing = "making" /\ ~Fresh(answer)
  BY <1>3 DEF Makes, Fresh
<1> HIDE DEF answer
<1>5. key = NoKey \/ key' = key
  BY <1>1, <1>2
<1>6. Told(answer, key', retired')
  BY <1>1, <1>2, <1>3, <1>4 DEF Told
<1>7. DOMAIN work' = Screen /\ \A t \in Screen : work'[t] = IF t = s THEN answer ELSE work[t]
  BY <1>1 DEF Busy, KeyInv
<1>8. ASSUME NEW t \in Screen PROVE Told(work'[t], key', retired')
  <2>1. CASE t = s
    BY <1>6, <1>7, <2>1
  <2>2. CASE t # s
    <3>1. work'[t] = work[t] /\ Told(work[t], key, retired) /\ retired' = retired
      BY <1>1, <1>7, <2>2 DEF KeyInv
    <3>2. Fresh(work[t]) => work[t].with # w.with
      BY <1>1, <2>2 DEF KeyInv
    <3>3. key' = key \/ (key = NoKey /\ key' = w.with)
      BY <1>1, <1>5
    <3> QED BY <3>1, <3>2, <3>3 DEF Told
  <2> QED BY <2>1, <2>2
<1>9. ASSUME NEW t \in Screen, NEW u \in Screen, t # u, Fresh(work'[t]), Fresh(work'[u])
      PROVE  work'[t].with # work'[u].with
  BY <1>4, <1>7, <1>9 DEF KeyInv
<1>10. /\ key' \in Secret \cup {NoKey} /\ retired' \subseteq Secret /\ key' \notin retired'
       /\ paper' \subseteq ({key'} \cup retired') \ {NoKey}
       /\ DOMAIN stored' = Screen
       /\ \A t \in Screen : stored'[t] \in {NoKey, key'} \cup retired'
  BY <1>1, <1>2, <1>5 DEF KeyInv
<1> QED BY <1>7, <1>8, <1>9, <1>10 DEF KeyInv

\* The role is handed over, and the key with which it was held is at its end.
LEMMA HandedKeeps ==
  ASSUME KeyInv, NEW s \in Screen, handleGMRoleClaim(s)
  PROVE  KeyInv'
<1>1. /\ key' = NoKey /\ retired' = retired \cup ({key} \ {NoKey})
      /\ UNCHANGED <<stored, paper, work>>
  BY DEF handleGMRoleClaim, HandedKey
<1>2. NoKey \notin Secret
  BY KeyAssumption
<1>3. ASSUME NEW t \in Screen PROVE Told(work'[t], key', retired')
  <2>1. Told(work[t], key, retired) /\ work'[t] = work[t]
    BY <1>1 DEF KeyInv
  <2>2. work[t] \in Makes => work[t].with # NoKey
    BY <1>2 DEF Makes
  <2> QED BY <1>1, <2>1, <2>2 DEF Told, Fresh
<1> QED BY <1>1, <1>2, <1>3 DEF KeyInv, Fresh

LEMMA KeyStep == KeyInv /\ [KeyNext]_keyVars => KeyInv'
<1> SUFFICES ASSUME KeyInv, [KeyNext]_keyVars PROVE KeyInv'
  OBVIOUS
<1>0. Told(Idle, key, retired) /\ ~Fresh(Idle) /\ DOMAIN stored = Screen
  BY DEF Told, Fresh, Idle, KeyInv
<1>1. CASE Lapse \/ SeatsProve
  BY <1>1, RestKeeps DEF Lapse, SeatsProve, screenVars
<1>2. ASSUME NEW s \in Screen, Make(s) PROVE KeyInv'
  <2> DEFINE new(k) == [doing |-> "making", with |-> k, said |-> "none"]
  <2>1. PICK k \in Untaken : Busy(s, new(k)) /\ stored' = stored
    BY <1>2 DEF Make, Making
  <2>2. Told(new(k), key, retired)
    BY <2>1 DEF Untaken, Told, Makes, Fresh
  <2>3. \A t \in Screen : Fresh(work[t]) => work[t].with # k
    BY <2>1 DEF Untaken, Fresh, Rests, Idle
  <2> QED BY <1>0, <1>2, <2>1, <2>2, <2>3, BusyKeeps DEF Make, serverKeyVars
<1>3. ASSUME NEW s \in Screen, handleGMKey(s) PROVE KeyInv'
  BY <1>3, GivenKeeps
<1>4. ASSUME NEW s \in Screen, Made(s) PROVE KeyInv'
  <2>1. work[s].with \in {key} \cup retired
    BY <1>4 DEF Made, KeyInv, Told
  <2> QED BY <1>0, <1>4, <2>1, BusyKeeps DEF Made, serverKeyVars
<1>5. ASSUME NEW s \in Screen, MakeFailed(s) PROVE KeyInv'
  BY <1>0, <1>5, BusyKeeps DEF MakeFailed, serverKeyVars
<1>6. ASSUME NEW s \in Screen, WriteDown(s) PROVE KeyInv'
  BY <1>6 DEF WriteDown, KeyInv, Told, Fresh, serverKeyVars
<1>7. ASSUME NEW s \in Screen, ReadPage(s) \/ FetchGames(s) PROVE KeyInv'
  BY <1>7, RestKeeps DEF ReadPage, FetchGames, serverKeyVars
<1>8. ASSUME NEW s \in Screen, NEW k \in ({key} \cup retired) \ {NoKey}, Recovering(s, k),
             UNCHANGED <<key, retired, stored, paper>>
      PROVE  KeyInv'
  BY <1>0, <1>8, BusyKeeps DEF Recovering, Told, Fresh
<1>9. ASSUME NEW s \in Screen, recoverFromStoredKey(s) PROVE KeyInv'
  <2>1. stored[s] \in ({key} \cup retired) \ {NoKey}
    BY <1>9 DEF recoverFromStoredKey, Door, KeyInv
  <2> QED BY <1>8, <1>9, <2>1 DEF recoverFromStoredKey, serverKeyVars
<1>10. ASSUME NEW s \in Screen, recoverFromWords(s) PROVE KeyInv'
  BY <1>8, <1>10 DEF recoverFromWords, KeyInv, serverKeyVars
<1>11. ASSUME NEW s \in Screen, NEW w, Busy(s, w), UNCHANGED <<key, retired, stored, paper>>,
              w.doing \in {"asking", "claiming", "claimed", "failed"}, w.with = work[s].with,
              work[s].doing \in {"asking", "claiming"}
       PROVE  KeyInv'
  <2>1. Told(w, key, retired) /\ ~Fresh(w)
    BY <1>11 DEF KeyInv, Told, Fresh
  <2> QED BY <1>0, <1>11, <2>1, BusyKeeps
<1>12. \A w, what : Again(w, what).doing = what /\ Again(w, what).with = w.with
  BY DEF Again
<1>13. ASSUME NEW s \in Screen, handleRecoverChallenge(s) PROVE KeyInv'
  BY <1>11, <1>12, <1>13 DEF handleRecoverChallenge, serverKeyVars
<1>14. ASSUME NEW s \in Screen, handleRecoverClaim(s) PROVE KeyInv'
  <2>1. CASE work[s].with = key /\ consumeNonce(work[s].nonce, key)
    BY <1>11, <1>14, <2>1 DEF handleRecoverClaim
  <2>2. CASE ~(work[s].with = key /\ consumeNonce(work[s].nonce, key))
    <3>1. Refused(work[s]).doing \in {"asking", "failed"} /\ Refused(work[s]).with = work[s].with
      BY <1>12 DEF Refused
    <3> QED BY <1>11, <1>12, <1>14, <2>2, <3>1 DEF handleRecoverClaim
  <2> QED BY <2>1, <2>2
<1>15. ASSUME NEW s \in Screen, Recovered(s) PROVE KeyInv'
  <2>1. work[s].with \in {key} \cup retired
    BY <1>15 DEF Recovered, KeyInv, Told
  <2> QED BY <1>0, <1>15, <2>1, BusyKeeps DEF Recovered, serverKeyVars
<1>16. ASSUME NEW s \in Screen, RecoverOver(s) PROVE KeyInv'
  BY <1>0, <1>16, BusyKeeps DEF RecoverOver, serverKeyVars
<1>17. ASSUME NEW s \in Screen, handleGMRoleClaim(s) PROVE KeyInv'
  BY <1>17, HandedKeeps
<1>18. CASE UNCHANGED keyVars
  BY <1>18, RestKeeps DEF keyVars, serverKeyVars, screenVars
<1> QED BY <1>1, <1>2, <1>3, <1>4, <1>5, <1>6, <1>7, <1>9, <1>10, <1>13, <1>14, <1>15, <1>16,
           <1>17, <1>18 DEF KeyNext

\* GmKeyCard.make, "this device must not be left holding a key the game does
\* not know about", and handover.go's "Recovery belongs to the role holder":
\* for every set of screens, with answers lost and the role moving, a key that
\* is kept or written down is the game's, or was until a hand-over ended it,
\* and an ended key is never the game's again.
THEOREM KeysGoWithTheRole == KeySpec => []KeysFollowTheRole
<1>1. KeyInv => KeysFollowTheRole
  BY DEF KeyInv, KeysFollowTheRole
<1> QED BY <1>1, KeyInitInv, KeyStep, PTL DEF KeySpec

-------------------------------------------------------------------------------
(* The retry.  A try remembers how far the world had moved when it began:  *)
(* every move of the role and every lapse of the challenges counts one,    *)
(* and no refusal of the game's key comes without one, or without a cap.   *)

\* The second try comes after one move at least, unless a cap was met.
Moved(w, n) == w.full \/ n >= w.since + w.attempt

Tries(w, k, sa, ep) ==
  /\ w.doing \in {"asking", "claiming", "failed"} =>
       w.since \in Nat /\ w.attempt \in {0, 1} /\ w.full \in BOOLEAN
  /\ w.doing = "asking" /\ w.with = k => Moved(w, sa + ep)
  /\ w.doing = "claiming" =>
       /\ w.nonce.salt \in Nat /\ w.nonce.salt <= sa
       /\ w.nonce.epoch \in Nat /\ w.nonce.epoch <= ep
       /\ w.with = k => Moved(w, w.nonce.salt + w.nonce.epoch)
  /\ w.doing = "failed" /\ w.with = k => w.full \/ sa + ep >= w.since + 2

\* Every challenge that was used is of an epoch that is over.
TryInv ==
  /\ KeyInv
  /\ salt \in Nat /\ epoch \in Nat
  /\ \A u \in used : u.nonce.epoch \in Nat /\ u.nonce.epoch < epoch
  /\ \A s \in Screen : Tries(work[s], key, salt, epoch)

LEMMA TryInitInv == KeyInit => TryInv
BY KeyInitInv DEF KeyInit, TryInv, Tries, Idle

\* A try only grows older: what is true of it stays so as the world moves, and
\* as the game gets another key than the one it is with.
LEMMA TriesStay ==
  ASSUME NEW w, NEW k, NEW l, NEW sa \in Nat, NEW ep \in Nat, NEW sb \in Nat, NEW eq \in Nat,
         Tries(w, k, sa, ep), sa <= sb, ep <= eq,
         l = k \/ (w.doing \in {"asking", "claiming", "failed"} => w.with # l)
  PROVE  Tries(w, l, sb, eq)
BY DEF Tries, Moved

\* A key that the game gets is no key that is being tried.
LEMMA NewKey ==
  ASSUME KeyInv, KeyNext, NEW s \in Screen
  PROVE  key' = key \/ (work[s].doing \in {"asking", "claiming", "failed"} => work[s].with # key')
<1> USE KeyAssumption
<1>1. ASSUME key' # key, work[s].doing \in {"asking", "claiming", "failed"}
      PROVE  key' = NoKey \/ key' \notin {key} \cup retired
  <2>1. ASSUME NEW t \in Screen, handleGMKey(t) PROVE key' \notin {key} \cup retired
    <3>1. key' = work[t].with /\ Fresh(work[t])
      BY <1>1, <2>1 DEF handleGMKey, Fresh
    <3> QED BY <3>1 DEF KeyInv, Told
  <2>2. ASSUME NEW t \in Screen, handleGMRoleClaim(t) PROVE key' = NoKey
    BY <2>2 DEF handleGMRoleClaim, HandedKey
  <2> QED BY <1>1, <2>1, <2>2
           DEF KeyNext, serverKeyVars, Lapse, SeatsProve, Make, Made, MakeFailed, WriteDown, ReadPage,
               FetchGames, recoverFromStoredKey, recoverFromWords,
               handleRecoverChallenge, handleRecoverClaim, Recovered, RecoverOver
<1> QED BY <1>1 DEF KeyInv, Told

\* A step that leaves what every browser but one is doing, and the challenges.
LEMMA TurnKeeps ==
  ASSUME TryInv, KeyInv', KeyNext, NEW s \in Screen, NEW w, Busy(s, w),
         UNCHANGED <<salt, epoch, used>>, Tries(w, key', salt, epoch)
  PROVE  TryInv'
<1>1. \A t \in Screen : work'[t] = IF t = s THEN w ELSE work[t]
  BY DEF Busy, TryInv, KeyInv
<1>2. ASSUME NEW t \in Screen PROVE Tries(work'[t], key', salt', epoch')
  <2>1. CASE t = s
    BY <1>1, <2>1
  <2>2. CASE t # s
    BY <1>1, <2>2, TriesStay, NewKey DEF TryInv
  <2> QED BY <2>1, <2>2
<1> QED BY <1>2 DEF TryInv

\* A step in which no browser turns to something else.
LEMMA WorldKeeps ==
  ASSUME TryInv, KeyInv', KeyNext, UNCHANGED work, salt' \in Nat, salt <= salt',
         epoch' \in Nat, epoch <= epoch', used' \subseteq used
  PROVE  TryInv'
<1>1. ASSUME NEW t \in Screen PROVE Tries(work'[t], key', salt', epoch')
  BY TriesStay, NewKey DEF TryInv
<1> QED BY <1>1 DEF TryInv

\* A refusal of the game's own key is a move of the role or a lapse since the
\* challenge was made, or a cap was met.
LEMMA RefusedTries ==
  ASSUME TryInv, NEW s \in Screen, work[s].doing = "claiming",
         ~(work[s].with = key /\ consumeNonce(work[s].nonce, key))
  PROVE  Tries(Refused(work[s]), key, salt, epoch)
<1> DEFINE w == work[s]
           r == Refused(w)
           spent == ~challengeCapacity(w.with)
<1>1. /\ w.since \in Nat /\ w.attempt \in {0, 1} /\ w.full \in BOOLEAN
      /\ w.nonce.salt \in Nat /\ w.nonce.salt <= salt
      /\ w.nonce.epoch \in Nat /\ w.nonce.epoch <= epoch
      /\ w.with = key => w.full \/ w.nonce.salt + w.nonce.epoch >= w.since + w.attempt
  BY DEF TryInv, Tries, Moved
<1>2. salt \in Nat /\ epoch \in Nat
  BY DEF TryInv
<1>3. spent \in BOOLEAN
  BY DEF challengeCapacity
<1>4. w.with = key => spent \/ w.nonce.salt < salt \/ w.nonce.epoch < epoch
  BY <1>1, <1>2 DEF consumeNonce, TryInv
<1> HIDE DEF spent
<1>5. w.with = key => spent \/ w.full \/ salt + epoch >= w.since + w.attempt + 1
  BY <1>1, <1>2, <1>4
<1>6. /\ r.doing = IF w.attempt = 0 THEN "asking" ELSE "failed"
      /\ r.with = w.with /\ r.attempt = 1 /\ r.since = w.since /\ r.full = (w.full \/ spent)
  BY DEF Refused, Again, spent
<1> HIDE DEF w, r
<1>7. r.full \in BOOLEAN
      /\ (r.with = key => r.full \/ salt + epoch >= r.since + w.attempt + 1)
  BY <1>1, <1>3, <1>5, <1>6
<1>8. CASE w.attempt = 0
  BY <1>1, <1>2, <1>6, <1>7, <1>8 DEF r, w, Tries, Moved
<1>9. CASE w.attempt = 1
  BY <1>1, <1>2, <1>6, <1>7, <1>9 DEF r, w, Tries, Moved
<1> QED BY <1>1, <1>8, <1>9

\* A try that ends without a second challenge: there is no key, or a cap is met.
LEMMA EndedTries ==
  ASSUME TryInv, NEW s \in Screen, work[s].doing \in {"asking", "claiming"},
         key = NoKey \/ ~canIssueChallenge
  PROVE  Tries(Again(work[s], "failed"), key, salt, epoch)
<1> DEFINE r == Again(work[s], "failed")
<1>1. work[s].with # NoKey /\ work[s].since \in Nat /\ work[s].full \in BOOLEAN
  BY DEF TryInv, Tries, KeyInv, Told
<1>2. /\ r.doing = "failed" /\ r.with = work[s].with /\ r.attempt = 1
      /\ r.since = work[s].since /\ r.full = (work[s].full \/ ~challengeCapacity(work[s].with))
  BY DEF Again
<1>3. ~canIssueChallenge => r.full
  BY <1>2 DEF challengeCapacity
<1>4. r.full \in BOOLEAN
  BY <1>1, <1>2 DEF challengeCapacity
<1> HIDE DEF r
<1> QED BY <1>1, <1>2, <1>3, <1>4 DEF r, Tries

LEMMA TryStep == TryInv /\ [KeyNext]_keyVars => TryInv'
<1> SUFFICES ASSUME TryInv, [KeyNext]_keyVars PROVE TryInv'
  OBVIOUS
<1> USE KeyAssumption
<1>0. KeyInv /\ KeyInv' /\ salt \in Nat /\ epoch \in Nat
  BY KeyStep DEF TryInv
<1>i. \A k, sa, ep : Tries(Idle, k, sa, ep)
  BY DEF Tries, Idle
<1>1. CASE Lapse \/ SeatsProve
  BY <1>0, <1>1, WorldKeeps DEF Lapse, SeatsProve, screenVars, KeyNext
<1>2. ASSUME NEW s \in Screen, Make(s) PROVE TryInv'
  <2>1. PICK k \in Untaken : Making(s, k)
    BY <1>2 DEF Make
  <2>2. Tries([doing |-> "making", with |-> k, said |-> "none"], key', salt, epoch)
    BY DEF Tries
  <2> QED BY <1>0, <1>2, <2>1, <2>2, TurnKeeps DEF Make, Making, serverKeyVars, KeyNext
<1>3. ASSUME NEW s \in Screen, handleGMKey(s) PROVE TryInv'
  <2> DEFINE w == work[s]
             taken == ~IsGM(s) \/ (key # NoKey /\ key # w.with)
             to == [w EXCEPT !.said = IF taken THEN "refused" ELSE "made"]
  <2>1. Busy(s, to) /\ UNCHANGED <<salt, epoch, used>> /\ w.doing = "making"
    BY <1>3 DEF handleGMKey
  <2>2. w \in Makes
    BY <1>0, <2>1 DEF KeyInv, Told
  <2>3. to.doing = "making"
    BY <2>1, <2>2 DEF Makes
  <2>4. Tries(to, key', salt, epoch)
    BY <2>3 DEF Tries
  <2>5. KeyNext
    BY <1>3 DEF KeyNext
  <2> QED BY <1>0, <2>1, <2>4, <2>5, TurnKeeps
<1>4. ASSUME NEW s \in Screen, Made(s) PROVE TryInv'
  BY <1>0, <1>i, <1>4, TurnKeeps DEF Made, serverKeyVars, KeyNext
<1>5. ASSUME NEW s \in Screen, MakeFailed(s) PROVE TryInv'
  BY <1>0, <1>i, <1>5, TurnKeeps DEF MakeFailed, serverKeyVars, KeyNext
<1>6. ASSUME NEW s \in Screen, WriteDown(s) \/ ReadPage(s) \/ FetchGames(s)
      PROVE  TryInv'
  BY <1>0, <1>6, WorldKeeps
     DEF WriteDown, ReadPage, FetchGames, serverKeyVars, KeyNext
<1>7. ASSUME NEW s \in Screen, NEW k, Recovering(s, k), UNCHANGED serverKeyVars, KeyNext
      PROVE  TryInv'
  <2>1. Tries([doing |-> "asking", with |-> k, attempt |-> 0, since |-> salt + epoch,
               full |-> FALSE], key', salt, epoch)
    BY <1>0 DEF Tries, Moved
  <2> QED BY <1>0, <1>7, <2>1, TurnKeeps DEF Recovering, serverKeyVars
<1>8. ASSUME NEW s \in Screen, recoverFromStoredKey(s) \/ recoverFromWords(s) PROVE TryInv'
  BY <1>7, <1>8 DEF recoverFromStoredKey, recoverFromWords, KeyNext
<1>9. ASSUME NEW s \in Screen, handleRecoverChallenge(s) PROVE TryInv'
  <2> DEFINE w == work[s]
             to == [doing |-> "claiming", with |-> w.with, attempt |-> w.attempt,
                    since |-> w.since, full |-> w.full, nonce |-> Challenge(s)]
             none == key = NoKey \/ ~canIssueChallenge
  <2>1. w.doing = "asking" /\ UNCHANGED <<key, salt, epoch, used>> /\ KeyNext
        /\ Busy(s, IF none THEN Again(w, "failed") ELSE to)
    BY <1>9 DEF handleRecoverChallenge, serverKeyVars, KeyNext
  <2>2. to.nonce.salt = salt /\ to.nonce.epoch = epoch
    BY DEF Challenge
  <2>3. Tries(w, key, salt, epoch)
    BY DEF TryInv
  <2>4. Tries(to, key', salt, epoch)
    BY <1>0, <2>1, <2>2, <2>3 DEF Tries, Moved
  <2>5. none => Tries(Again(w, "failed"), key', salt, epoch)
    BY <2>1, EndedTries
  <2> HIDE DEF to, none
  <2> QED BY <1>0, <2>1, <2>4, <2>5, TurnKeeps
<1>10. ASSUME NEW s \in Screen, handleRecoverClaim(s) PROVE TryInv'
  <2> DEFINE w == work[s]
             to == [doing |-> "claimed", with |-> w.with, at |-> epoch + 1]
             good == w.with = key /\ consumeNonce(w.nonce, key)
  <2>1. CASE good
    <3>1. /\ used' = used \cup {[nonce |-> w.nonce, with |-> key]}
          /\ epoch' = epoch + 1 /\ UNCHANGED <<key, salt>> /\ Busy(s, to)
      BY <1>10, <2>1 DEF handleRecoverClaim
    <3>2. \A u \in used' : u.nonce.epoch \in Nat /\ u.nonce.epoch < epoch'
      BY <1>0, <2>1, <3>1 DEF consumeNonce, TryInv
    <3>3. \A t \in Screen : work'[t] = IF t = s THEN to ELSE work[t]
      BY <1>0, <3>1 DEF Busy, KeyInv
    <3>4. ASSUME NEW t \in Screen PROVE Tries(work'[t], key', salt', epoch')
      <4>1. CASE t = s
        BY <3>3, <4>1 DEF Tries
      <4>2. CASE t # s
        BY <1>0, <3>1, <3>3, <4>2, TriesStay DEF TryInv
      <4> QED BY <4>1, <4>2
    <3> QED BY <1>0, <3>1, <3>2, <3>4 DEF TryInv
  <2>2. CASE ~good
    <3>1. /\ Busy(s, IF key = NoKey THEN Again(w, "failed") ELSE Refused(w))
          /\ w.doing = "claiming" /\ UNCHANGED <<key, salt, epoch, used>> /\ KeyNext
      BY <1>10, <2>2 DEF handleRecoverClaim, KeyNext
    <3>2. key = NoKey => Tries(Again(w, "failed"), key', salt, epoch)
      BY <3>1, EndedTries
    <3>3. key # NoKey => Tries(Refused(w), key', salt, epoch)
      BY <2>2, <3>1, RefusedTries
    <3> QED BY <1>0, <3>1, <3>2, <3>3, TurnKeeps
  <2> QED BY <2>1, <2>2
<1>11. ASSUME NEW s \in Screen, Recovered(s) PROVE TryInv'
  BY <1>0, <1>i, <1>11, TurnKeeps DEF Recovered, serverKeyVars, KeyNext
<1>12. ASSUME NEW s \in Screen, RecoverOver(s) PROVE TryInv'
  BY <1>0, <1>i, <1>12, TurnKeeps DEF RecoverOver, serverKeyVars, KeyNext
<1>13. ASSUME NEW s \in Screen, handleGMRoleClaim(s) PROVE TryInv'
  <2>1. KeyNext
    BY <1>13 DEF KeyNext
  <2>2. salt' = salt /\ epoch' = epoch + 1 /\ UNCHANGED <<work, used>>
    BY <1>13 DEF handleGMRoleClaim
  <2>3. epoch' \in Nat /\ epoch <= epoch'
    BY <1>0, <2>2
  <2> QED BY <1>0, <2>1, <2>2, <2>3, WorldKeeps
<1>14. CASE UNCHANGED keyVars
  BY <1>0, <1>14 DEF keyVars, serverKeyVars, screenVars, TryInv, Tries, Moved
<1> QED BY <1>1, <1>2, <1>3, <1>4, <1>5, <1>6, <1>8, <1>9, <1>10, <1>11, <1>12, <1>13, <1>14
        DEF KeyNext

\* recover.ts, "one retry": for every set of browsers, restarts, moves of the
\* role and crowd of other proofs, who signs with the game's key fails only
\* when the role moved or the challenges lapsed twice meanwhile, or a try met a
\* cap on challenges.
THEOREM OneRetryIsEnough == KeySpec => []RetryAbsorbsOne
<1>1. TryInv => RetryAbsorbsOne
  BY DEF TryInv, Tries, RetryAbsorbsOne
<1> QED BY <1>1, TryInitInv, TryStep, PTL DEF KeySpec

-------------------------------------------------------------------------------
(* GmDesk: the rules a game started under stand.  What the server holds is *)
(* a game whose master reads press only where it plays no seat; a form on  *)
(* a page, however old, is no more than a request.                         *)

Games == [started : BOOLEAN, joined : Int, hasKey : BOOLEAN, epoch : Nat,
          keptBy : {"maker", "heir"}, rules : DeskRules]

Sound(g) == g \in Games /\ ~(g.rules.reads /\ g.rules.plays)
Readable(g) == g.hasKey \/ g.keptBy = "heir"

\* How a game may come after another: a start needs the key it will be read
\* with, and nothing that was agreed to changes after it.
Follows(g, h) ==
  /\ Sound(h)
  /\ g.started => h.started /\ h.rules = g.rules /\ (Readable(g) => Readable(h))
  /\ h.started /\ ~g.started /\ h.rules.reads => Readable(h)

AskedOfDesk ==
  [do : {"settings"}, epoch : Nat, said : {"none", "done", "refused"}, patch : DeskRules]
    \cup [do : {"start", "key"}, epoch : Nat, said : {"none", "done", "refused"}]

DeskInv ==
  /\ Sound(game)
  /\ game.started => game.rules = agreed /\ (game.rules.reads => Readable(game))
  /\ desk \in [shown : {desk.shown}, gone : BOOLEAN, epoch : Nat, form : DeskRules]
  /\ out \subseteq AskedOfDesk

LEMMA DeskInitInv == DeskInit => DeskInv
<1> SUFFICES ASSUME DeskInit PROVE DeskInv
  OBVIOUS
<1>1. FirstRules \in DeskRules /\ ~FirstRules.reads
  BY DeskAssumption DEF FirstRules, DeskRules
<1>2. Sound(game) /\ ~game.started
  BY <1>1 DEF DeskInit, Sound, Games
<1>3. desk \in [shown : {desk.shown}, gone : BOOLEAN, epoch : Nat, form : DeskRules]
  BY <1>1 DEF DeskInit, FreshDesk
<1> QED BY <1>2, <1>3 DEF DeskInit, DeskInv

\* What a screen may post: the whole form, or a part of it.
Patches == DeskRules \cup [press : Modes] \cup [plays : BOOLEAN, reads : BOOLEAN]

LEMMA ApplyRules ==
  ASSUME NEW r \in DeskRules, NEW patch \in Patches
  PROVE  /\ apply(patch, r) \in DeskRules
         /\ ~(apply(patch, r).reads /\ apply(patch, r).plays)
<1>1. CASE patch \in DeskRules
  BY <1>1 DEF DeskRules, apply, normalised
<1>2. CASE patch \in [press : Modes]
  BY <1>2 DEF DeskRules, apply, normalised
<1>3. CASE patch \in [plays : BOOLEAN, reads : BOOLEAN]
  BY <1>3 DEF DeskRules, apply, normalised
<1> QED BY <1>1, <1>2, <1>3 DEF Patches

LEMMA SettingsFollow ==
  ASSUME Sound(game), NEW patch \in Patches, NEW h \in handleGMSettings(game, patch)
  PROVE  Follows(game, h)
<1> DEFINE new == apply(patch, game.rules)
<1>1. new \in DeskRules /\ ~(new.reads /\ new.plays) /\ game \in Games /\ game.rules \in DeskRules
  BY ApplyRules DEF Sound, Games
<1>2. /\ h = [game EXCEPT !.rules = new]
      /\ game.started => new.plays = game.rules.plays /\ new.press = game.rules.press
                         /\ new.reads = game.rules.reads
  BY DEF handleGMSettings
<1> HIDE DEF new
<1>3. h \in Games /\ h.rules = new /\ h.started = game.started /\ h.hasKey = game.hasKey
      /\ h.keptBy = game.keptBy
  BY <1>1, <1>2 DEF Games
<1>4. game.started => new = game.rules
  BY <1>1, <1>2 DEF DeskRules
<1> QED BY <1>1, <1>3, <1>4 DEF Follows, Sound, Readable

LEMMA StartFollows ==
  ASSUME Sound(game), NEW h \in handleGMStart(game)
  PROVE  Follows(game, h)
BY DEF handleGMStart, Follows, Sound, Readable, Games

LEMMA KeyFollows ==
  ASSUME Sound(game), NEW h \in DeskKey(game)
  PROVE  Follows(game, h)
BY DEF DeskKey, Follows, Sound, Readable, Games

LEMMA ClaimFollows ==
  ASSUME Sound(game), NEW h \in DeskRoleClaim(game)
  PROVE  Follows(game, h)
<1> DEFINE kept == IF game.started THEN "heir" ELSE game.keptBy
<1>1. h = [game EXCEPT !.hasKey = FALSE, !.epoch = @ + 1, !.keptBy = kept]
  BY DEF DeskRoleClaim
<1>2. kept \in {"maker", "heir"} /\ (game.started => kept = "heir") /\ game \in Games
  BY DEF Sound, Games
<1> HIDE DEF kept
<1>3. game.epoch + 1 \in Nat
  BY <1>2 DEF Games
<1>4. h \in Games /\ h.started = game.started /\ h.rules = game.rules /\ h.keptBy = kept
  BY <1>1, <1>2, <1>3 DEF Games
<1> QED BY <1>2, <1>4 DEF Follows, Sound, Readable

LEMMA DoneFollows ==
  ASSUME Sound(game), NEW c \in AskedOfDesk, NEW h \in DeskDone(game, c)
  PROVE  Follows(game, h)
<1>1. CASE c.do = "settings"
  <2>1. c.patch \in Patches
    BY <1>1 DEF AskedOfDesk, Patches
  <2>2. h \in handleGMSettings(game, c.patch)
    BY <1>1 DEF DeskDone
  <2> QED BY <2>1, <2>2, SettingsFollow
<1>2. CASE c.do = "start"
  BY <1>2, StartFollows DEF DeskDone
<1>3. CASE c.do = "key"
  BY <1>3, KeyFollows DEF DeskDone
<1> QED BY <1>1, <1>2, <1>3 DEF AskedOfDesk

\* Whatever becomes of the game so, the rules stand.
LEMMA ChangedKeeps ==
  ASSUME DeskInv, NEW h, Follows(game, h), Changed(h)
  PROVE  Sound(game') /\ (game'.started => game'.rules = agreed'
                                           /\ (game'.rules.reads => Readable(game')))
BY DEF DeskInv, Follows, Changed, Readable

LEMMA StaysFollows == DeskInv => Follows(game, game)
BY DEF DeskInv, Follows

\* What the page does with what it reads.
LEMMA AdoptedForm ==
  ASSUME NEW form \in DeskRules, NEW was, NEW now \in DeskRules
  PROVE  Adopted(form, was, now) \in DeskRules
BY DEF Adopted, DeskRules

LEMMA TakeStateForm ==
  ASSUME DeskInv, TakeState
  PROVE  desk' \in [shown : {desk'.shown}, gone : BOOLEAN, epoch : Nat, form : DeskRules]
<1>1. FirstRules \in DeskRules /\ game.rules \in DeskRules
  BY DeskAssumption DEF FirstRules, DeskRules, DeskInv, Sound, Games
<1>2. desk.form \in DeskRules
  BY DEF DeskInv
<1>3. Adopted(desk.form, desk.shown.rules, game.rules) \in DeskRules
  BY <1>1, <1>2, AdoptedForm
<1> QED BY <1>1, <1>2, <1>3 DEF TakeState, DeskInv, FreshDesk

\* A step of the page's own, which the server does not see.
LEMMA PageKeeps ==
  ASSUME DeskInv, UNCHANGED <<game, agreed>>, out' \subseteq AskedOfDesk,
         desk' \in [shown : {desk'.shown}, gone : BOOLEAN, epoch : Nat, form : DeskRules]
  PROVE  DeskInv'
BY DEF DeskInv, Sound, Readable

LEMMA DeskStep == DeskInv /\ [DeskNext]_deskVars => DeskInv'
<1> SUFFICES ASSUME DeskInv, [DeskNext]_deskVars PROVE DeskInv'
  OBVIOUS
<1>0. /\ Sound(game) /\ out \subseteq AskedOfDesk
      /\ desk \in [shown : {desk.shown}, gone : BOOLEAN, epoch : Nat, form : DeskRules]
      /\ Follows(game, game)
  BY StaysFollows DEF DeskInv
<1>s. ASSUME NEW h, Follows(game, h), Changed(h), UNCHANGED <<desk, out>> PROVE DeskInv'
  <2>1. Sound(game') /\ (game'.started => game'.rules = agreed'
                                          /\ (game'.rules.reads => Readable(game')))
    BY <1>s, ChangedKeeps
  <2> QED BY <1>s, <2>1 DEF DeskInv, Readable
<1>1. CASE OtherDesk
  <2>1. ASSUME NEW patch \in [press : Modes] \cup [plays : BOOLEAN, reads : BOOLEAN],
               NEW g \in handleGMSettings(game, patch), Changed(g)
        PROVE  DeskInv'
    BY <1>0, <1>1, <1>s, <2>1, SettingsFollow DEF OtherDesk, Patches
  <2>2. ASSUME NEW g \in handleGMStart(game) \cup DeskKey(game), Changed(g) PROVE DeskInv'
    BY <1>0, <1>1, <1>s, <2>2, StartFollows, KeyFollows DEF OtherDesk
  <2> QED BY <1>1, <2>1, <2>2 DEF OtherDesk
<1>2. CASE HandOn
  BY <1>0, <1>2, <1>s, ClaimFollows DEF HandOn
<1>3. CASE Join
  <2> DEFINE h == [game EXCEPT !.joined = @ + 1]
  <2>1. Follows(game, h)
    BY <1>0 DEF Follows, Sound, Games, Readable
  <2> HIDE DEF h
  <2>2. Changed(h) /\ UNCHANGED <<desk, out>>
    BY <1>3 DEF Join, h
  <2> QED BY <1>s, <2>1, <2>2
<1>4. CASE refresh
  BY <1>0, <1>4, TakeStateForm, PageKeeps DEF refresh
<1>5. CASE onSave
  <2>1. desk.epoch \in Nat /\ normalised(desk.form) \in DeskRules
    BY <1>0 DEF normalised, DeskRules
  <2>2. [do |-> "settings", epoch |-> desk.epoch, said |-> "none",
         patch |-> normalised(desk.form)] \in AskedOfDesk
    BY <2>1 DEF AskedOfDesk
  <2> QED BY <1>0, <1>5, <2>2, PageKeeps DEF onSave, AskDesk
<1>6. ASSUME NEW what \in {"start", "key"}, Press(what) PROVE DeskInv'
  <2>1. [do |-> what, epoch |-> desk.epoch, said |-> "none"] \in AskedOfDesk
    BY <1>0 DEF AskedOfDesk
  <2> QED BY <1>0, <1>6, <2>1, PageKeeps DEF Press, AskDesk
<1>7. CASE start \/ makeKey
  BY <1>6, <1>7 DEF start, makeKey
<1>8. ASSUME NEW f \in {"press", "plays", "reads"}, NEW v \in {r[f] : r \in DeskRules}, Enter(f, v)
      PROVE  DeskInv'
  <2>1. desk.form \in DeskRules
    BY <1>0
  <2>2. [desk.form EXCEPT ![f] = v] \in DeskRules
    BY <2>1 DEF DeskRules
  <2>3. desk' \in [shown : {desk'.shown}, gone : BOOLEAN, epoch : Nat, form : DeskRules]
    BY <1>0, <1>8, <2>2 DEF Enter
  <2> QED BY <1>0, <1>8, <2>3, PageKeeps DEF Enter
<1>9. ASSUME NEW c \in out, DeskServe(c) PROVE DeskInv'
  <2> DEFINE after == IF c.epoch # game.epoch THEN {} ELSE DeskDone(game, c)
             h == IF after = {} THEN game ELSE CHOOSE g \in after : TRUE
             said == IF after = {} THEN "refused" ELSE "done"
  <2>1. /\ Changed(h) /\ UNCHANGED desk
        /\ out' = (out \ {c}) \cup {[c EXCEPT !.said = said]}
    BY <1>9 DEF DeskServe
  <2>2. c \in AskedOfDesk
    BY <1>0
  <2>3. Follows(game, h)
    BY <1>0, <2>2, DoneFollows
  <2>4. said \in {"refused", "done"}
    OBVIOUS
  <2> HIDE DEF after, h, said
  <2>5. [c EXCEPT !.said = said] \in AskedOfDesk
    BY <2>2, <2>4 DEF AskedOfDesk
  <2>6. Sound(game') /\ (game'.started => game'.rules = agreed'
                                          /\ (game'.rules.reads => Readable(game')))
    BY <2>1, <2>3, ChangedKeeps
  <2> QED BY <1>0, <2>1, <2>5, <2>6 DEF DeskInv, Readable
<1>10. ASSUME NEW c \in out, act(c) PROVE DeskInv'
  BY <1>0, <1>10, TakeStateForm, PageKeeps DEF act
<1>11. CASE UNCHANGED deskVars
  BY <1>0, <1>11, PageKeeps DEF deskVars
<1> QED BY <1>1, <1>2, <1>3, <1>4, <1>5, <1>7, <1>8, <1>9, <1>10, <1>11 DEF DeskNext

\* settings.go's frozen fields and handleGMStart's key: for every number of
\* seats and every set of press modes, whichever screens hold which old forms,
\* what was agreed to at the start stands.
THEOREM AgreedRulesAreKept == DeskSpec => []AgreedRulesStand
<1>1. DeskInv => AgreedRulesStand
  BY DEF DeskInv, AgreedRulesStand, Sound, Readable
<1> QED BY <1>1, DeskInitInv, DeskStep, PTL DEF DeskSpec
================================================================================
