----------------------------- MODULE SandboxBoard ------------------------------
(***************************************************************************)
(* The sandbox: one browser that drives every power of a board             *)
(* (web/src/pages/SandboxPage.tsx, web/src/board/phases.ts;                *)
(* internal/server/sandbox.go).  It draws one power at a time, and outside *)
(* a movement phase it asks the server, province by province, what that    *)
(* power may order.  SeatPage.tsx reads a seat's plan the same way.        *)
(***************************************************************************)
EXTENDS Integers, Sequences, FiniteSets

CONSTANTS Powers,      \* the variant's powers, in its order
          Site,        \* the provinces that may carry an order
          Owner,       \* Site -> the power they belong to
          Phases,      \* the kinds of the phases the board goes through
          Budget,      \* orders each phase asks of each power
          NoPower, NoBoard,
          MaxPosts, MaxReads   \* requests of each sort out at a time

ASSUME SandboxAssumption ==
  /\ Powers \in Seq(STRING) /\ Powers # <<>>
  /\ \A p \in Site : \E i \in DOMAIN Powers : Owner[p] = Powers[i]
  /\ \A i \in DOMAIN Phases : Phases[i] \in {"movement", "retreat", "adjustment"}

VARIABLES sandbox,    \* the game on the server: its phase and the sites with an order
          shown,      \* SandboxPage.state, and NoBoard before the first answer
          power,      \* the power the driver has picked
          plan,       \* what the page knows may be ordered: kind, power, trees
          reads,      \* plans being read: asked sites, and what each was answered
          posts,      \* orders and adjudications the server has not answered yet
          answers,    \* its answers on their way, in the order it gave them
          overtaken,  \* history: one was taken before another given earlier
          reviewing   \* the review sheet is open

sandboxVars == <<sandbox, shown, power, plan, reads, posts, answers, overtaken, reviewing>>
mailVars == <<posts, answers, overtaken>>

phaseKind(b) == Phases[b.phase]

(***************************************************************************)
(* godip, as the server asks it: a site is offered while the phase has an  *)
(* order left to ask of its power; "once the last build is spent the       *)
(* server stops offering it" (board.ts).                                   *)
(***************************************************************************)
Offers(b, p) ==
  LET of == Owner[p]
      given == {q \in b.orders : Owner[q] = of}
  IN Cardinality(given) < Budget[b.phase][of]
nothingToOrder(b, of) == \A p \in Site : Owner[p] = of => ~Offers(b, p)

(***************************************************************************)
(* Which power is played: it moves on by itself from one that is asked     *)
(* for nothing.                                                            *)
(***************************************************************************)
Settled(b, of) ==
  IF of # NoPower /\ ~nothingToOrder(b, of) THEN of
  ELSE LET asked == {i \in DOMAIN Powers : ~nothingToOrder(b, Powers[i])}
       IN Powers[IF asked = {} THEN 1 ELSE CHOOSE i \in asked : \A j \in asked : i <= j]

candidates(b, of) == IF phaseKind(b) = "movement" THEN {} ELSE {p \in Site : Owner[p] = of}

emptyPlan(of, kind) == [kind |-> kind, power |-> of, trees |-> {}, missed |-> {}]

(***************************************************************************)
(* The plan's effect: it runs when the power or the board on the page has  *)
(* changed, and the reads it had begun are cancelled.                      *)
(***************************************************************************)
\* Mutant of Cancelled: a read that was overtaken still lands.
NeverCancelled(r) == r
Cancelled(r) == [r EXCEPT !.cancelled = TRUE]

NewRead(b, of) ==
  [power |-> of, kind |-> phaseKind(b), left |-> candidates(b, of), open |-> {}, missed |-> {},
   cancelled |-> FALSE]

\* The page with board b, the driver wanting power of.
Draw(b, of) ==
  LET pw == Settled(b, of)
  IN /\ shown' = b /\ power' = pw
     /\ IF b = shown /\ pw = power THEN UNCHANGED <<plan, reads>>
        ELSE /\ Cardinality(reads) < MaxReads
             /\ IF phaseKind(b) = "movement"
                THEN /\ plan' = emptyPlan(pw, "movement")
                     /\ reads' = {Cancelled(r) : r \in reads}
                ELSE /\ reads' = {Cancelled(r) : r \in reads} \cup {NewRead(b, pw)}
                     /\ UNCHANGED plan

pickPower(of) == shown # NoBoard /\ Draw(shown, of) /\ UNCHANGED <<sandbox, mailVars, reviewing>>

\* The server's answer for one site of a read, or a request that failed,
\* which the page takes for an empty tree.
handleSandboxOptions(r, p) ==
  /\ p \in r.left
  /\ reads' = (reads \ {r}) \cup {[r EXCEPT !.left = @ \ {p},
                                    !.open = IF Offers(sandbox, p) THEN @ \cup {p} ELSE @]}
  /\ UNCHANGED <<sandbox, shown, power, plan, mailVars, reviewing>>
SandboxReadFailed(r, p) ==
  /\ p \in r.left
  /\ reads' = (reads \ {r}) \cup {[r EXCEPT !.left = @ \ {p}, !.missed = @ \cup {p}]}
  /\ UNCHANGED <<sandbox, shown, power, plan, mailVars, reviewing>>

SandboxPlanRead(r) ==
  /\ r.left = {} /\ reads' = reads \ {r}
  /\ plan' = IF r.cancelled THEN plan
             ELSE [kind |-> r.kind, power |-> r.power, trees |-> r.open, missed |-> r.missed]
  /\ UNCHANGED <<sandbox, shown, power, mailVars, reviewing>>

(***************************************************************************)
(* Orders and adjudications, answered with the board as it then is.        *)
(***************************************************************************)
SandboxPost(what) ==
  /\ shown # NoBoard /\ Cardinality(posts) + Len(answers) < MaxPosts
  /\ posts' = posts \cup {what}
  /\ UNCHANGED <<sandbox, shown, power, plan, reads, answers, overtaken, reviewing>>

\* A tap on a site of the picked power; one of another power picks that power.
order(p, give) ==
  /\ shown # NoBoard
  /\ Owner[p] = power /\ (give \/ p \in shown.orders)
  /\ SandboxPost([what |-> "order", site |-> p, give |-> give, as |-> power])
refusal(p) == Owner[p] # power /\ pickPower(Owner[p])

adjudicate ==
  /\ ~\E q \in posts : q.what = "adjudicate"      \* the button is busy
  /\ ~\E i \in DOMAIN answers : answers[i].what = "adjudicate"
  /\ shown # NoBoard /\ ~shown.over
  /\ SandboxPost([what |-> "adjudicate"])

\* A refusal says why and brings no board.
PostAnswered(q, refused, b) ==
  /\ posts' = posts \ {q}
  /\ sandbox' = IF refused THEN sandbox ELSE b
  /\ answers' = IF refused THEN answers ELSE Append(answers, [what |-> q.what, got |-> b])
  /\ UNCHANGED <<shown, power, plan, reads, overtaken, reviewing>>

handleSandboxOrder(q) ==
  /\ q.what = "order"
  /\ PostAnswered(q, sandbox.over \/ Owner[q.site] # q.as,
       [sandbox EXCEPT !.orders = IF q.give THEN @ \cup {q.site} ELSE @ \ {q.site}])

handleSandboxAdjudicate(q) ==
  /\ q.what = "adjudicate"
  /\ PostAnswered(q, sandbox.over,
       IF sandbox.phase = Len(Phases) THEN [sandbox EXCEPT !.over = TRUE]
       ELSE [phase |-> sandbox.phase + 1, orders |-> {}, over |-> FALSE])

\* Whichever answer is in: nothing on the page puts them in order.
takeState(i) ==
  /\ answers' = [j \in 1..(Len(answers) - 1) |-> IF j < i THEN answers[j] ELSE answers[j + 1]]
  /\ overtaken' = (overtaken \/ i > 1)
  /\ Draw(answers[i].got, power)
  /\ reviewing' = (reviewing \/ answers[i].what = "adjudicate")
  /\ UNCHANGED <<sandbox, posts>>

FirstState == shown = NoBoard /\ Draw(sandbox, power) /\ UNCHANGED <<sandbox, mailVars, reviewing>>

CloseReview ==
  reviewing /\ reviewing' = FALSE /\ UNCHANGED <<sandbox, shown, power, plan, reads, mailVars>>

SandboxInit ==
  /\ sandbox = [phase |-> 1, orders |-> {}, over |-> FALSE]
  /\ shown = NoBoard /\ power = NoPower /\ plan = emptyPlan(NoPower, "movement")
  /\ reads = {} /\ posts = {} /\ answers = <<>> /\ overtaken = FALSE
  /\ reviewing = FALSE

SandboxNext ==
  \/ FirstState \/ adjudicate \/ CloseReview
  \/ \E i \in DOMAIN Powers : ~reviewing /\ pickPower(Powers[i])
  \/ \E p \in Site : ~reviewing /\ (refusal(p) \/ \E give \in BOOLEAN : order(p, give))
  \/ \E r \in reads :
       \/ SandboxPlanRead(r)
       \/ \E p \in Site : handleSandboxOptions(r, p) \/ SandboxReadFailed(r, p)
  \/ \E q \in posts : handleSandboxOrder(q) \/ handleSandboxAdjudicate(q)
  \/ \E i \in DOMAIN answers : takeState(i)

SandboxSpec == SandboxInit /\ [][SandboxNext]_sandboxVars

(***************************************************************************)
(* Properties.                                                             *)
(***************************************************************************)
\* The plan's effect and its cancelled flag: once every answer is in, what the
\* page lights up is what the server would now take from the picked power,
\* whichever reads overtook each other, whichever power was left meanwhile and
\* whatever orders went out before the plan was read.  Only a province whose
\* question failed is left out.  It rests on the answers to orders coming in
\* as they were given: takeState draws whichever comes, and after one that was
\* overtaken an order may bring the page the board it has already, and no read.
PlanIsTrue ==
  shown # NoBoard /\ reads = {} /\ posts = {} /\ answers = <<>> /\ ~overtaken =>
    /\ plan.power = power /\ plan.kind = phaseKind(shown)
    /\ plan.trees = {p \in candidates(shown, power) : Offers(sandbox, p)} \ plan.missed
================================================================================
