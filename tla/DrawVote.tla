------------------------------- MODULE DrawVote --------------------------------
(***************************************************************************)
(* Ending a game in a draw (internal/server/result.go; DrawCard of         *)
(* web/src/pages/GmPage.tsx; the draw proposal of SeatPage.tsx).  The game *)
(* master names the powers in the draw; every survivor left out is asked.  *)
(* Screens show what they read last, and a call may be a long time on the  *)
(* way.                                                                    *)
(***************************************************************************)
EXTENDS Integers, FiniteSets

CONSTANTS Voter,
          Ballots,      \* the results the game master may name
          NoDraw,       \* no proposal, no result
          MaxAsked,     \* proposals made
          MaxSent,      \* calls on their way at once
          MaxResolved   \* phases that resolve meanwhile

ASSUME DrawAssumption == MaxAsked \in Nat /\ MaxSent \in Nat /\ MaxResolved \in Nat

VARIABLES alive,       \* the powers that hold a supply centre
          phaseOver,   \* phases resolved
          proposal,    \* f.drawProposal: powers, required, confirmed, and its number
          result,      \* f.result
          drawDesk,    \* what the game master's page shows: a proposal, or the end
          question,    \* the powers whose phone asks to be left out
          requests,    \* the calls on their way to the server
          settled,     \* proposals that were rejected, withdrawn or passed by
          consents     \* the powers that ever accepted one

drawVoteVars ==
  <<alive, phaseOver, proposal, result, drawDesk, question, requests, settled, consents>>

Asked == Cardinality(settled) + (IF proposal = NoDraw THEN 0 ELSE 1)
Over == result # NoDraw

Dropped == IF proposal = NoDraw THEN settled ELSE settled \cup {proposal.n}

(***************************************************************************)
(* The server.                                                             *)
(***************************************************************************)
endGame(powers, of) == result' = [powers |-> powers, out |-> alive \ powers, n |-> of]

\* Mutant of allConfirmed: the last one to answer is not waited for.
AllButOne(required, confirmed) == Cardinality(required \ confirmed) <= 1
allConfirmed(required, confirmed) == required \subseteq confirmed

\* handleGMDraw: with every survivor named the game ends, otherwise a proposal
\* replaces the one there was.
handleGMDraw(call) ==
  IF Over \/ ~(call.powers \subseteq alive)
  THEN UNCHANGED <<proposal, result, settled>>
  ELSE IF call.powers = alive
  THEN endGame(call.powers, 0) /\ proposal' = NoDraw /\ settled' = Dropped
  ELSE /\ proposal' = [powers |-> call.powers, required |-> alive \ call.powers,
                       confirmed |-> {}, n |-> Cardinality(Dropped) + 1]
       /\ settled' = Dropped
       /\ UNCHANGED result

handleGMDrawWithdraw == proposal' = NoDraw /\ settled' = Dropped /\ UNCHANGED result

\* handleSeatDrawResponse: the answer is to whatever proposal stands.
handleSeatDrawResponse(call) ==
  IF proposal = NoDraw \/ Over \/ call.who \notin proposal.required
  THEN UNCHANGED <<proposal, result, settled>>
  ELSE IF ~call.accept
  THEN proposal' = NoDraw /\ settled' = Dropped /\ UNCHANGED result
  ELSE LET confirmed == proposal.confirmed \cup {call.who}
       IN IF allConfirmed(proposal.required, confirmed)
          THEN /\ endGame(proposal.powers, proposal.n)
               /\ proposal' = NoDraw
               /\ UNCHANGED settled
          ELSE /\ proposal' = [proposal EXCEPT !.confirmed = confirmed]
               /\ UNCHANGED <<result, settled>>

Serve(call) ==
  /\ requests' = requests \ {call}
  /\ CASE call.kind = "draw" -> handleGMDraw(call)
       [] call.kind = "withdraw" -> handleGMDrawWithdraw
       [] OTHER -> handleSeatDrawResponse(call)
  /\ UNCHANGED <<alive, phaseOver, drawDesk, question, consents>>

\* advance: a phase that resolves may end a power, and withdraws the proposal.
Resolve ==
  /\ ~Over /\ phaseOver < MaxResolved
  /\ phaseOver' = phaseOver + 1
  /\ \E left \in SUBSET alive : left # {} /\ alive' = left
  /\ proposal' = NoDraw /\ settled' = Dropped
  /\ UNCHANGED <<result, drawDesk, question, requests, consents>>

(***************************************************************************)
(* The game master's card.                                                 *)
(***************************************************************************)
Call(call) == Cardinality(requests) < MaxSent /\ requests' = requests \cup {call}

ReadDesk ==
  /\ drawDesk' = [proposal |-> proposal # NoDraw, over |-> Over]
  /\ UNCHANGED <<alive, phaseOver, proposal, result, question, requests, settled, consents>>

\* The picks are kept from card to card, and a power ticked before it was
\* eliminated stays picked: what is sent need not be survivors.
onDraw(picked) ==
  /\ ~drawDesk.over /\ ~drawDesk.proposal /\ Asked < MaxAsked
  /\ Call([kind |-> "draw", powers |-> picked])
  /\ UNCHANGED <<alive, phaseOver, proposal, result, drawDesk, question, settled, consents>>

onWithdraw ==
  /\ ~drawDesk.over /\ drawDesk.proposal
  /\ Call([kind |-> "withdraw"])
  /\ UNCHANGED <<alive, phaseOver, proposal, result, drawDesk, question, settled, consents>>

(***************************************************************************)
(* The seats.                                                              *)
(***************************************************************************)
\* The card asks a power that is left out and has not confirmed.
ReadSeat(p) ==
  /\ question' = IF proposal # NoDraw /\ p \in proposal.required \ proposal.confirmed
                 THEN question \cup {p} ELSE question \ {p}
  /\ UNCHANGED <<alive, phaseOver, proposal, result, drawDesk, requests, settled, consents>>

drawResponse(p, accept) ==
  /\ p \in question
  /\ Call([kind |-> "answer", who |-> p, accept |-> accept])
  /\ consents' = IF accept THEN consents \cup {p} ELSE consents
  /\ UNCHANGED <<alive, phaseOver, proposal, result, drawDesk, question, settled>>

VoteInit ==
  /\ alive = Voter /\ phaseOver = 0 /\ proposal = NoDraw /\ result = NoDraw
  /\ drawDesk = [proposal |-> FALSE, over |-> FALSE]
  /\ question = {} /\ requests = {} /\ settled = {} /\ consents = {}

VoteNext ==
  \/ \E call \in requests : Serve(call)
  \/ Resolve
  \/ ReadDesk \/ onWithdraw
  \/ \E picked \in Ballots : onDraw(picked)
  \/ \E p \in Voter :
       \/ ReadSeat(p)
       \/ \E accept \in BOOLEAN : drawResponse(p, accept)

VoteSpec == VoteInit /\ [][VoteNext]_drawVoteVars

(***************************************************************************)
(* Properties.                                                             *)
(***************************************************************************)
\* ADR-052, whatever the delays: a game that ends in a draw ends by a proposal
\* that nobody closed, and every survivor it leaves out sent a consent.  That
\* the consent was to this very result is not the case: an answer names no
\* proposal (handleSeatDrawResponse).
NobodyIsVotedOut == Over => result.n \notin settled /\ result.out \subseteq consents
================================================================================
