---------------------------- MODULE PressPins ----------------------------
(***************************************************************************)
(* Press across handovers: press.ts, PressPanel.tsx and HandoverPage.tsx   *)
(* with the server routes they call. One seat is handed from holder to     *)
(* holder, each with keys of its own; the phones of one other seat, the    *)
(* reader, pin the signing keys they are served, open rooms with the seat  *)
(* and check who opened a room and who wrote a line. Nothing is forged:    *)
(* the server stores and serves what it was given.                         *)
(*                                                                         *)
(* Holder n's signing key and press key are both n. 0 is no key: the first *)
(* holder may hold a token, and then signs nothing. The reader's keys are  *)
(* the same on all its phones and never change.                            *)
(***************************************************************************)
EXTENDS Naturals, Sequences, FiniteSets

CONSTANTS
  Phones,      \* the reader's phones
  MaxHolders,  \* bound on the holders of the seat
  MaxRooms,    \* bound on rooms
  MaxLines,    \* bound on lines the seat's holders write
  MaxMail      \* bound on answers on their way to one phone

ASSUME PinsAssumption == MaxHolders \in Nat \ {0}

VARIABLES
  seat,    \* the server: [holder, sign, box, boxBy, chain]
  rooms,   \* the rooms of the two, oldest first
  lines,   \* the lines of the seat's holders: [room, by]
  phones   \* [Phones -> [pin, asks, answer, mail]]

pressVars == <<seat, rooms, lines, phones>>

Holders == 1..MaxHolders
Unpinned == [current |-> 0, pending |-> 0, history |-> {}]
NoAnswer == [of |-> 0, sign |-> 0, box |-> 0, boxBy |-> 0, chain |-> {}, rooms |-> 0]

(* What an opener signs of a room, and whose press key the other's wrap is *)
(* for; a line in the place its writer's signature covers.                 *)
RoomBinding(opener, sig, to) == [opener |-> opener, sig |-> sig, to |-> to]
PressPlace(r, by) == [room |-> r, by |-> by]

PressInit ==
  /\ \E keyed \in {0, 1} :
       seat = [holder |-> 1, sign |-> keyed, box |-> 0, boxBy |-> 0, chain |-> {}]
  /\ rooms = <<>>
  /\ lines = <<>>
  /\ phones =
       [d \in Phones |-> [pin |-> Unpinned, asks |-> FALSE, answer |-> NoAnswer, mail |-> {}]]

(* What GET press answers: the keys, the signed steps, the rooms so far.   *)
PressState == [of |-> seat.holder, sign |-> seat.sign, box |-> seat.box, boxBy |-> seat.boxBy,
               chain |-> seat.chain, rooms |-> Len(rooms)]

-----------------------------------------------------------------------------
(* Pins.                                                                   *)

(* Whether signed steps lead from one key to another: no set of keys that  *)
(* has the first and is closed under the steps leaves the other out.       *)
Path(from, to, links) ==
  \A keys \in SUBSET (0..MaxHolders) :
    from \in keys /\ (\A link \in links : link[1] \in keys => link[2] \in keys) => to \in keys

\* Mutant of chainTo: the last step is looked at, not where the path starts.
LastStepOnly(from, to, links) ==
  IF \E link \in links : link[2] = to THEN {from} ELSE {}

(* The keys a signed path from the pinned key to the served one replaces,  *)
(* {} when there is none. Every key is replaced once, so it is one path.   *)
chainTo(from, to, links) ==
  {k \in Holders : k # to /\ Path(from, k, links) /\ Path(k, to, links)}

(* First seen is pinned; a signed step moves the pin; else it is pending.  *)
pinSignKeys(pin, served, links) ==
  LET walked == chainTo(pin.current, served, links)
  IN  CASE pin.current = 0 -> [pin EXCEPT !.current = served]
        [] pin.current # 0 /\ served \in {0, pin.current} -> [pin EXCEPT !.pending = 0]
        [] pin.current # 0 /\ served \notin {0, pin.current} /\ walked # {} ->
             [current |-> served, pending |-> 0, history |-> pin.history \cup walked]
        [] OTHER -> [pin EXCEPT !.pending = served]

acceptPin(pin) ==
  IF pin.pending = 0 THEN pin
  ELSE [current |-> pin.pending, pending |-> 0, history |-> pin.history \cup {pin.current}]

(* verifiers(): the pin where there is one, else the server's answer.      *)
Believed(d) == IF phones[d].pin.current # 0 THEN phones[d].pin.current ELSE phones[d].answer.sign
Trusted(d) == ({Believed(d)} \cup phones[d].pin.history) \ {0}

-----------------------------------------------------------------------------
(* Rooms and lines, as a phone of the reader reads them.                   *)

(* openRoomKey(): the opener's signature first, then the own wrap. The     *)
(* reader's wraps open, its keys being the same on all its phones.         *)
Opens(d, room) ==
  \/ room.opener = "reader"
  \/ Trusted(d) = {} \/ room.sig \in Trusted(d)

(* verifyPress(): what is said of the writer of a line. *)
Proof(d, line) ==
  CASE line.by = 0 /\ Trusted(d) = {} -> "unsigned"
    [] line.by # 0 /\ line.by \in Trusted(d) -> "ok"
    [] OTHER -> "bad"

verifyBoxKey(d, answer) == Believed(d) = 0 \/ answer.boxBy = Believed(d)

(* The press key a room is wrapped for, none while the seat's key is       *)
(* pending, not published or not signed by the key the phone believes.     *)
wrapsFor(d, answer) ==
  IF phones[d].pin.pending = 0 /\ answer.box # 0 /\ verifyBoxKey(d, answer)
  THEN {answer.box} ELSE {}

(* The seat's holder reads the rooms wrapped for its own key; of those a   *)
(* former holder opened its new phone trusts none.                         *)
HolderOpens(room) == room.to = seat.holder

-----------------------------------------------------------------------------
(* The seat.                                                               *)

(* HandoverPage and handleHandoverClaim: fresh keys, and the step from the *)
(* old key where the link carried the former seed. The published press key *)
(* stays until the new phone opens its panel.                              *)
HandOver(carriesSeed) ==
  /\ seat.holder < MaxHolders
  /\ seat' = [seat EXCEPT !.holder = @ + 1, !.sign = seat.holder + 1,
                          !.chain = IF carriesSeed /\ seat.sign # 0
                                    THEN @ \cup {<<seat.sign, seat.holder + 1>>} ELSE @]
  /\ UNCHANGED <<rooms, lines, phones>>

(* The panel of the seat's phone publishes its press key, signed. *)
PublishKey ==
  /\ seat.box # seat.holder
  /\ seat' = [seat EXCEPT !.box = seat.holder, !.boxBy = seat.sign]
  /\ UNCHANGED <<rooms, lines, phones>>

(* The seat's phone opens a room with the reader, who has published a key: *)
(* a fresh one where it cannot open the newest there is.                   *)
SeatOpensRoom ==
  /\ Len(rooms) < MaxRooms
  /\ \E d \in Phones : phones[d].answer # NoAnswer
  /\ seat.box = seat.holder
  /\ rooms # <<>> => ~HolderOpens(rooms[Len(rooms)])
  /\ rooms' = Append(rooms, RoomBinding("seat", seat.sign, seat.holder))
  /\ UNCHANGED <<seat, lines, phones>>

SeatWrites ==
  /\ Len(lines) < MaxLines
  /\ \E r \in 1..Len(rooms) :
       /\ HolderOpens(rooms[r])
       /\ lines' = Append(lines, PressPlace(r, seat.sign))
  /\ UNCHANGED <<seat, rooms, phones>>

-----------------------------------------------------------------------------
(* The reader's phones.                                                    *)

(* refresh() asks: on the poll, after a line, at the panel's opening. *)
Ask(d) ==
  /\ Cardinality(phones[d].mail) < MaxMail
  /\ phones' = [phones EXCEPT ![d].mail = @ \cup {PressState}]
  /\ UNCHANGED <<seat, rooms, lines>>

(* ... and its answer is shown and its keys are pinned, in any order. *)
Refresh(d) ==
  \E answer \in phones[d].mail :
    LET pin == pinSignKeys(phones[d].pin, answer.sign, answer.chain)
    IN  /\ phones' = [phones EXCEPT ![d] = [pin |-> pin, asks |-> pin.pending # 0,
                                           answer |-> answer, mail |-> @.mail \ {answer}]]
        /\ UNCHANGED <<seat, rooms, lines>>

(* The table confirms the handover the panel asks about. *)
Accept(d) ==
  /\ phones[d].asks
  /\ phones' = [phones EXCEPT ![d].pin = acceptPin(@), ![d].asks = FALSE]
  /\ UNCHANGED <<seat, rooms, lines>>

(* openRoom(): the newest room this phone knows, where it opens; else a    *)
(* new one, and handlePressOpen hands back the newest unless asked for a   *)
(* fresh one. The panel refreshes after it.                                *)
OpenRoom(d) ==
  LET answer == phones[d].answer
      known  == answer.of # 0 /\ answer.rooms > 0
  IN  /\ answer.of # 0
      /\ known => ~Opens(d, rooms[answer.rooms])
      /\ \E box \in wrapsFor(d, answer) :
           IF ~known /\ rooms # <<>> THEN rooms' = rooms
           ELSE /\ Len(rooms) < MaxRooms
                /\ rooms' = Append(rooms, RoomBinding("reader", 0, box))
      /\ Cardinality(phones[d].mail) < MaxMail
      /\ phones' = [phones EXCEPT ![d].mail = @ \cup {[PressState EXCEPT !.rooms = Len(rooms')]}]
      /\ UNCHANGED <<seat, lines>>

PressNext ==
  \/ \E carriesSeed \in BOOLEAN : HandOver(carriesSeed)
  \/ PublishKey \/ SeatOpensRoom \/ SeatWrites
  \/ \E d \in Phones : Ask(d) \/ Refresh(d) \/ Accept(d) \/ OpenRoom(d)

PressSpec == PressInit /\ [][PressNext]_pressVars

-----------------------------------------------------------------------------
(* Properties.                                                             *)

(* A pin moves along the signed steps the former holders left, or to the   *)
(* very key the table was asked about.                                     *)
MovesOnProof(d) ==
  LET old == phones[d].pin
      new == phones'[d].pin
  IN  old.current \notin {0, new.current} =>
        \/ Path(old.current, new.current, seat.chain)
        \/ phones[d].asks /\ new.current = old.pending

(* A line verified as the seat's own, and a room as opened by it, are not  *)
(* called forged afterwards (Pin.history).                                 *)
StaysVerified(d) ==
  /\ \A i \in 1..Len(lines) : Proof(d, lines[i]) = "ok" => Proof(d, lines[i])' = "ok"
  /\ \A r \in 1..Len(rooms) :
       rooms[r].opener = "seat" /\ rooms[r].sig \in Trusted(d) => rooms[r].sig \in Trusted(d)'

(* A room key is wrapped for the holder whose key is pinned, and for       *)
(* nobody while a change of that key waits for the table (wrapsFor).       *)
WrapsForThePinned(d) ==
  Len(rooms') > Len(rooms) /\ rooms'[Len(rooms')].opener = "reader"
    /\ phones'[d].mail # phones[d].mail /\ phones[d].pin.current # 0
    => /\ phones[d].pin.pending = 0
       /\ rooms'[Len(rooms')].to = phones[d].pin.current

(* Whatever answers overtake each other and however often the seat is      *)
(* handed on, signed or not, what a phone believes of it moves on proof    *)
(* alone, what it has verified stays verified, and nothing is sealed for   *)
(* a holder it does not believe in (press.ts pinSignKeys and acceptPin,    *)
(* PressPanel's wrapsFor).                                                 *)
TrustMovesOnProof ==
  [][\A d \in Phones : MovesOnProof(d) /\ StaysVerified(d) /\ WrapsForThePinned(d)]_pressVars
=============================================================================
