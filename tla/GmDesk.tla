-------------------------------- MODULE GmDesk --------------------------------
(***************************************************************************)
(* The game master's desk: the rules the table agrees to, the start, the   *)
(* key its mailbox needs and the hand on of the role                       *)
(* (web/src/pages/GmPage.tsx; internal/server/gm.go, settings.go,          *)
(* handover.go, gmkey.go).                                                 *)
(*                                                                         *)
(* One page is modelled with the form it holds and the requests it has     *)
(* out; the same link open on another screen asks the server for anything  *)
(* a page could ask.  The rules that may change in a running game (clock,  *)
(* silence, end year) are left out; the key in a browser is MasterKey's,   *)
(* the draw card DrawVote's, the review ReviewSheet's.                     *)
(***************************************************************************)
EXTENDS Integers, FiniteSets

CONSTANTS Seats,      \* how many powers there are
          Modes,      \* press modes, "ftf" among them
          MaxOut      \* requests out at a time

ASSUME DeskAssumption ==
  Seats \in Nat \ {0} /\ "ftf" \in Modes /\ MaxOut \in Nat

NoPage == [started |-> FALSE]

VARIABLES game,       \* the server's game
          desk,       \* GmPage: the game it shows and the form it holds
          out,        \* the page's requests on their way
          agreed      \* history: the rules the game was started under

deskVars == <<game, desk, out, agreed>>

FirstRules == [press |-> "ftf", plays |-> FALSE, reads |-> FALSE]
FreshDesk == [shown |-> NoPage, gone |-> FALSE, epoch |-> 0, form |-> FirstRules]
DeskRules == [press : Modes, plays : BOOLEAN, reads : BOOLEAN]
normalised(r) == [r EXCEPT !.reads = @ /\ ~r.plays]
apply(patch, r) ==
  normalised([f \in DOMAIN r |-> IF f \in DOMAIN patch THEN patch[f] ELSE r[f]])

joinerSeats(g) == IF g.rules.plays THEN Seats - 1 ELSE Seats
allJoined(g) == g.joined >= joinerSeats(g)

(***************************************************************************)
(* The server.  Each answers with the game as it then stands.              *)
(***************************************************************************)
handleGMSettings(g, patch) ==
  LET new == apply(patch, g.rules)
      frozen == g.started /\ (new.plays # g.rules.plays \/ new.press # g.rules.press
                              \/ new.reads # g.rules.reads)
      keyless == new.reads /\ ~g.rules.reads /\ ~g.hasKey
  IN IF frozen \/ keyless THEN {} ELSE {[g EXCEPT !.rules = new]}

\* Mutant of handleGMStart: a game that reads press starts without its key.
StartKeyless(g) ==
  IF g.started \/ ~allJoined(g) \/ (g.rules.plays /\ g.joined # Seats - 1) THEN {}
  ELSE {[g EXCEPT !.started = TRUE]}
handleGMStart(g) ==
  IF \/ g.started \/ ~allJoined(g)
     \/ g.rules.reads /\ ~g.hasKey
     \/ g.rules.plays /\ g.joined # Seats - 1     \* no leftover power to take
  THEN {}
  ELSE {[g EXCEPT !.started = TRUE]}

DeskKey(g) == IF g.hasKey THEN {} ELSE {[g EXCEPT !.hasKey = TRUE]}
\* Whoever opens the link takes the role, and the key goes with the one who held it.
DeskRoleClaim(g) ==
  {[g EXCEPT !.hasKey = FALSE, !.epoch = @ + 1, !.keptBy = IF g.started THEN "heir" ELSE @]}

DeskDone(g, c) ==
  CASE c.do = "settings" -> handleGMSettings(g, c.patch)
    [] c.do = "start"    -> handleGMStart(g)
    [] c.do = "key"      -> DeskKey(g)

Changed(g) ==
  /\ game' = g
  /\ agreed' = IF g.started /\ ~game.started THEN g.rules ELSE agreed

\* A request under a token that was handed on is a 404.
DeskServe(c) ==
  /\ c.said = "none"
  /\ LET after == IF c.epoch # game.epoch THEN {} ELSE DeskDone(game, c)
     IN /\ Changed(IF after = {} THEN game ELSE CHOOSE g \in after : TRUE)
        /\ out' = (out \ {c}) \cup {[c EXCEPT !.said = IF after = {} THEN "refused" ELSE "done"]}
  /\ UNCHANGED desk

(***************************************************************************)
(* The other screen and the players.                                       *)
(***************************************************************************)
OtherDesk ==
  /\ \/ \E patch \in [press : Modes] \cup [plays : BOOLEAN, reads : BOOLEAN] :
          \E g \in handleGMSettings(game, patch) : Changed(g)
     \/ \E g \in handleGMStart(game) \cup DeskKey(game) : Changed(g)
  /\ UNCHANGED <<desk, out>>
HandOn == game.epoch = 0 /\ (\E g \in DeskRoleClaim(game) : Changed(g)) /\ UNCHANGED <<desk, out>>
Join ==
  /\ game.joined < joinerSeats(game) /\ Changed([game EXCEPT !.joined = @ + 1])
  /\ UNCHANGED <<desk, out>>

(***************************************************************************)
(* The page.                                                               *)
(***************************************************************************)
Shown(g) == [started |-> g.started, rules |-> g.rules, hasKey |-> g.hasKey,
             all |-> allJoined(g)]

AskDesk(what) == Cardinality(out) < MaxOut /\ out' = out \cup {what} /\ UNCHANGED <<game, agreed>>

\* A change from another screen wins over the field it changed, no other.
Adopted(form, was, now) ==
  [f \in DOMAIN form |-> IF was[f] = now[f] THEN form[f] ELSE now[f]]

\* A read, taken when it is answered: under a token that was handed on it is
\* a 404, and the page is gone for good, with what was entered on it.
TakeState ==
  desk' = IF game.epoch # desk.epoch THEN [FreshDesk EXCEPT !.gone = TRUE]
             ELSE [desk EXCEPT !.shown = Shown(game),
                     !.form = IF desk.shown = NoPage THEN game.rules
                              ELSE Adopted(@, desk.shown.rules, game.rules)]
refresh == ~desk.gone /\ TakeState /\ UNCHANGED <<game, out, agreed>>

DeskOpen == desk.shown # NoPage /\ ~desk.gone

\* SettingsCard's fields that the table agrees to before the start; once the
\* page knows of the start they are fixed on it and left out of what it posts.
Enter(f, v) ==
  /\ DeskOpen /\ desk.form[f] # v
  /\ ~desk.shown.started
  /\ f = "reads" => desk.form.press # "ftf" /\ ~desk.form.plays /\ desk.shown.hasKey
  /\ desk' = [desk EXCEPT !.form[f] = v] /\ UNCHANGED <<game, out, agreed>>

dirty == desk.form # desk.shown.rules
onSave ==
  /\ DeskOpen /\ ~desk.shown.started /\ dirty
  /\ AskDesk([do |-> "settings", epoch |-> desk.epoch, said |-> "none",
          patch |-> normalised(desk.form)])
  /\ UNCHANGED desk

Press(what) == AskDesk([do |-> what, epoch |-> desk.epoch, said |-> "none"]) /\ UNCHANGED desk
start == DeskOpen /\ ~desk.shown.started /\ desk.shown.all /\ Press("start")
makeKey == DeskOpen /\ ~desk.shown.hasKey /\ Press("key")

\* GmPage.act: what was done is read back; what was refused is only told.
act(c) ==
  /\ c.said # "none" /\ out' = out \ {c}
  /\ IF c.said = "done" /\ ~desk.gone THEN TakeState ELSE UNCHANGED desk
  /\ UNCHANGED <<game, agreed>>

DeskInit ==
  /\ game = [started |-> FALSE, joined |-> 0, hasKey |-> FALSE,
             epoch |-> 0, keptBy |-> "maker", rules |-> FirstRules]
  /\ desk = FreshDesk /\ out = {} /\ agreed = FirstRules

DeskNext ==
  \/ OtherDesk \/ HandOn \/ Join
  \/ refresh \/ onSave \/ start \/ makeKey
  \/ \E f \in {"press", "plays", "reads"} :
       \E v \in {r[f] : r \in DeskRules} : Enter(f, v)
  \/ \E c \in out : DeskServe(c) \/ act(c)

DeskSpec == DeskInit /\ [][DeskNext]_deskVars

(***************************************************************************)
(* Properties.                                                             *)
(***************************************************************************)
\* handleGMStart and handleGMSettings: what the table agreed to when the game
\* started stands, whichever screen held an older form; and a game started to
\* be read by its referee had the key its mailbox is opened with, so only a
\* hand on of the role since then can have left it without one.
AgreedRulesStand ==
  game.started => /\ game.rules = agreed
                  /\ game.rules.reads => ~game.rules.plays /\ (game.hasKey \/ game.keptBy = "heir")
================================================================================
