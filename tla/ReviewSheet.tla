------------------------------ MODULE ReviewSheet ------------------------------
(***************************************************************************)
(* The review of the phase that just resolved, on one device               *)
(* (web/src/review.ts, components/ReviewOverlay.tsx, ModalLayer.tsx, and   *)
(* its place in SeatPage.tsx and GmPage.tsx).                              *)
(*                                                                         *)
(* A master who plays holds both pages in one browser.  A review opens by  *)
(* itself on each page that brings a new one, unless this browser has      *)
(* written it off; the pages' reads may be answered out of order.          *)
(***************************************************************************)
EXTENDS Integers, FiniteSets

CONSTANTS Page,        \* the pages open on the device
          LastReview,  \* bound: the phases that resolve
          MaxFresh     \* bound: state reads on their way

ASSUME ReviewAssumption == LastReview \in Nat /\ MaxFresh \in Nat

VARIABLES resolved,   \* how many phases have resolved
          blank,      \* the resolved phases in which nobody was asked for anything
          sheet,      \* Page -> the review it holds and what stands in front of it
          fresh,      \* state reads on their way: the page, what was answered
          kept,       \* localStorage: the reviews written off
          putAway     \* history: the reviews put away by hand, and on which page

reviewVars == <<resolved, blank, sheet, fresh, kept, putAway>>

NoReview == 0
FreshPage == [shown |-> NoReview, seen |-> NoReview, reviewing |-> FALSE, peeking |-> FALSE,
              guiding |-> FALSE]

resolve ==
  /\ resolved < LastReview /\ resolved' = resolved + 1
  /\ blank' \in {blank, blank \cup {resolved'}}
  /\ UNCHANGED <<sheet, fresh, kept, putAway>>

\* A phase with no order and no missing power has no review.
reviewPlan(n) == IF n \in blank THEN NoReview ELSE n

\* Mutant of reviewKey: the game names the review, whichever the phase.
OneKey(n) == IF n = NoReview THEN NoReview ELSE 1
reviewKey(n) == n

isDismissed(key) == key \in kept
\* A browser told to keep nothing swallows it.
dismiss(key) == kept' \in {kept, kept \cup {key}}

HasReview(p) == reviewPlan(sheet[p].shown) # NoReview
Reviewing(p) == sheet[p].reviewing /\ HasReview(p)
\* The guide stands before the review, and both before the page.
Reading(p) == (sheet[p].guiding \/ sheet[p].reviewing) /\ HasReview(p)

(***************************************************************************)
(* A state is read, and answered by the server as it then is.              *)
(***************************************************************************)
ReviewRefresh(p) ==
  /\ Cardinality(fresh) < MaxFresh /\ fresh' = fresh \cup {[page |-> p, got |-> resolved]}
  /\ UNCHANGED <<resolved, blank, sheet, kept, putAway>>

\* The effect on the review's key: a key this page has not handled last.
ReviewOpened(s, n) ==
  LET key == reviewKey(reviewPlan(n))
  IN IF key = NoReview \/ s.seen = key THEN [s EXCEPT !.shown = n]
     ELSE [s EXCEPT !.shown = n, !.seen = key, !.reviewing = ~isDismissed(key)]

TakeReview(r) ==
  /\ fresh' = fresh \ {r} /\ sheet' = [sheet EXCEPT ![r.page] = ReviewOpened(@, r.got)]
  /\ UNCHANGED <<resolved, blank, kept, putAway>>

Reload(p) ==
  /\ sheet[p] # FreshPage /\ sheet' = [sheet EXCEPT ![p] = FreshPage]
  /\ fresh' = {r \in fresh : r.page # p}
  /\ putAway' = {c \in putAway : c.page # p}
  /\ UNCHANGED <<resolved, blank, kept>>

(***************************************************************************)
(* The player.                                                             *)
(***************************************************************************)
Put(p, s) == sheet' = [sheet EXCEPT ![p] = s] /\ UNCHANGED <<resolved, blank, fresh>>

closeReview(p) ==
  /\ Reviewing(p) /\ ~sheet[p].guiding
  /\ Put(p, [sheet[p] EXCEPT !.reviewing = FALSE])
  /\ dismiss(reviewKey(sheet[p].shown))
  /\ putAway' = putAway \cup {[page |-> p, review |-> sheet[p].shown]}

\* "Review last phase", "See it on the map", "Read the orders".
ReviewAgain(p) == HasReview(p) /\ ~Reading(p) /\ Put(p, [sheet[p] EXCEPT !.reviewing = TRUE])
            /\ UNCHANGED <<kept, putAway>>
Flip(p, peek) == p = "seat" /\ Reviewing(p) /\ ~sheet[p].guiding /\ sheet[p].peeking = ~peek
                 /\ Put(p, [sheet[p] EXCEPT !.peeking = peek]) /\ UNCHANGED <<kept, putAway>>
onMap(p) == Flip(p, TRUE)
onMoves(p) == Flip(p, FALSE)
\* The guide of TableBoard, opened from the page or from the sheet.
onReferee(p) ==
  /\ HasReview(p) /\ ~sheet[p].guiding /\ ~(sheet[p].reviewing /\ sheet[p].peeking)
  /\ Put(p, [sheet[p] EXCEPT !.guiding = TRUE]) /\ UNCHANGED <<kept, putAway>>
CloseReferee(p) == sheet[p].guiding /\ HasReview(p) /\ Put(p, [sheet[p] EXCEPT !.guiding = FALSE])
                   /\ UNCHANGED <<kept, putAway>>

ReviewInit ==
  /\ resolved = 0 /\ blank = {} /\ sheet = [p \in Page |-> FreshPage] /\ fresh = {}
  /\ kept = {} /\ putAway = {}

ReviewNext ==
  \/ resolve
  \/ \E p \in Page :
       \/ ReviewRefresh(p) \/ Reload(p) \/ closeReview(p) \/ ReviewAgain(p)
       \/ onMap(p) \/ onMoves(p) \/ onReferee(p) \/ CloseReferee(p)
  \/ \E r \in fresh : TakeReview(r)

ReviewSpec == ReviewInit /\ [][ReviewNext]_reviewVars

(***************************************************************************)
(* Properties.                                                             *)
(***************************************************************************)
\* SeatPage and GmPage: what every power ordered is opened by itself.  A page
\* that holds a review and shows none is one on which that very review, of
\* that very phase, was put away by hand, or whose browser remembers that it
\* was; whichever page closed it, however often the pages were reloaded and in
\* whatever order their reads were answered.
UnreadOpens ==
  \A p \in Page :
    HasReview(p) /\ ~sheet[p].reviewing =>
      sheet[p].shown \in kept \/ [page |-> p, review |-> sheet[p].shown] \in putAway
================================================================================
