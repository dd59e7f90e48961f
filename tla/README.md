# Verification of 1901

1901 runs a table of Diplomacy: a Go server that keeps the games
(`src/internal/server`), a web page per player, game master and spectator
(`src/web/src`), and the godip library that adjudicates. What is peculiar to it is
the *sealed game* (ADR-004, 009, 011, 058): the server often is the game master's
own laptop, so orders stay on the phones. A seat locks in by sending its orders
encrypted, and sends the key, unasked, once every seat has locked in or the
deadline has run out. The last key adjudicates.

This directory holds TLA+ models of that protocol, of its storage, of the page that
takes part in it and of fifteen parts around it (the map, press, the seats, the
keys, the desk, the lists), the TLC runs that check them, and proofs of the main
results for every size of table. It has six parts: the inventory of the system,
the modules, the runs, the proofs, what the models and the code disagree on, and
what is not modelled.

`tlc -config SealedGame.cfg MCSealedGame` runs a model; the pairs of module and
configuration are listed under *Runs*. `tlapm SealedGameProofs.tla` checks proofs.

---

## 1. The system

| Component | Code | State it keeps | Operations |
|---|---|---|---|
| **Sealed game** | `sealed.go flow.go seat.go gm.go deadline.go adjudicate.go state.go game.go watch.go` | per game, under one mutex: started, result, deadline, phase index; per seat locked, autoLocked, sealed, revealed; the orders on the board; the commitments of the phase; the public history | start, commit, uncommit, reveal, force, extend, settings; adjudicate with its cascade through phases that ask nobody |
| **Storage** | `store.go schema.go save.go load.go` | SQLite rows of game, seat, order, NMR, commitment | persist, after every handler and twice in `advance`; load and replay at start-up |
| **Seats and sessions** | `join.go create.go handover.go seatkey.go routes.go registry.go cookies.go` | who holds a power: token, public key, nonce; open sessions; the table of games | create, join, start, hand over, sign in, drop |
| **Draws and endings** | `result.go` | proposal, its consents, its hash; the result | propose, withdraw, answer, end; solo and last year |
| **Game master's key** | `gmkey.go challenges.go` | key, nonce; challenges with a lifetime and a capacity | set, challenge, recover, hand over |
| **Live events** | `events.go`, `hooks.ts` | subscribers, a one-frame slot for each, a version | publish, subscribe, revoke; on the page: connect, read, fall back to polling |
| **Press** | `press*.go`, `press.ts` | rooms, messages, read marks, quotas | open, send, read, close |
| **Seat page** | `SeatPage.tsx sealed.ts seatkey.ts` | the state on screen, this phase's draft and key, storage, timers | read, write an order, lock, release the key |
| **Other pages, board** | `GmPage.tsx WatchPage.tsx board.ts ...` | views | read and send |
| **Clock** | `deadline.go`, `clock.ts Clock.tsx` | the deadline; on a screen its offset from the server's clock | reset with carry, extend, settings; note the server's time |
| **Game master's page** | `GmPage.tsx`, `gm.go settings.go join.go` | the game on screen, the settings form | save, start, make the key, hand on, force, draw |
| **Lists, watch page, admin** | `GamesPage.tsx gamelist.ts AdminPage.tsx WatchPage.tsx`, `registry.go admin.go public.go` | the rows on screen, the armed ones; the address walked to | poll, delete; step, go back |
| **Review, guide** | `review.ts referee.ts ReviewOverlay.tsx RefereeGuide.tsx` | which review is open, what was put away; the ticks | open, close; tick |
| **Board** | `board.ts viewbox.ts Board.tsx` | the half-built order, the fingers, the view, the layers | tap, pan, pinch, redraw, send an order |
| **Sandbox** | `sandbox.go SandboxPage.tsx` | one driver's board | the same order path, no seats |
| **Variants** | `internal/variant` | static | parse and check at start-up |
| **godip** | external | rules | resolve a phase, say whom the next one asks |

How they interact. Every handler of a game takes that game's mutex, reads and
writes the state, calls `persist` (which writes the rows and publishes a frame)
and answers with the caller's view of the state. Pages learn of changes from
frames, polls and one timer, always by reading their view again; a frame carries
no state. The clock is not a goroutine: the deadline is a moment that `revealOpen`
and `canForce` compare with now, so the state *changes by itself* when it passes.

What is hard in it:

* **Handlers in any order.** A handler is atomic, so the interleavings are of whole
  handlers, of seats, game master, clock and requests that arrive a phase late.
  The window opens in two ways, and can shut again.
* **One step of several failing.** A reveal applies the list order by order and
  stops at the first it refuses. `advance` saves twice and files NMR rows between.
* **Crash and restart.** The board and the history are not stored; they are
  replayed. A restart settles less than the handler it interrupts would have.
* **The page.** State is read, shown and acted on; answers overtake each other; a
  request is sent on a *change* of what is shown, and only once.
* **Liveness.** A table must never wait for something nobody can do.
* **Credentials that move.** A seat and the game master's role change hands while the
  former phone is open, its links are out and its signatures are on their way; rivals
  decide from signed steps whom to write to.
* **Counters beside what they count**: unread badges, quotas, sequence numbers, the
  carry of unused time.
* **Screens behind the game.** Lists move under the finger, reads are cancelled too
  late, a form is older than the settings it saves, a map redraws a part of itself.

What makes each correct:

| Component | Properties |
|---|---|
| Sealed game | somebody can always act; the deadline always arms the game master; what counts as revealed stands on the board; no orders on the record without a commitment; only two ways to resolve a phase; no envelope changes once one is opened; the record is what was committed; a phase everyone is in resolves by itself |
| Storage | what was answered is stored; the history does not change; the promise survives a restart |
| Seat page | no key goes up early; a phone releases by itself; it gets unstuck |
| Seats | who has left a seat has no session on it; links and late answers do not bring one back |
| Clock | every phase gets its whole period, the carry stays bounded, no screen is told early |
| Draws | a game ends by a draw only when everybody left out sent a consent |
| Key | a key that is kept is the game's until the role is handed over, and none comes back after that; one disturbance never defeats a recovery |
| Press | trust in a seat's key moves on proof; a message is stored once; counters and read marks are true |
| Desk | the rules agreed at the start stand |
| Lists, watch page | a delete takes two presses on its row; a step never asks for the live phase as a past one |
| Review, guide | a review nobody put away opens; the pieces the guide speaks of end where the game has them, once each |
| Board | taps make orders the server offered; the view stays on the map; one tap is one tap; nothing on the map is old |
| Sandbox | the plan is the picked power's |

`PROJECT.json` lists each hazard at its line with the properties that watch it, and
those that no property watches yet.

---

## 2. Modules

### `SealedGame`

One game from its creation to its end. One action per handler, and the handler whole:
`RevealLast` contains the adjudication the last reveal runs, `GMForce` the one a force
runs.

| TLA+ | Code |
|---|---|
| `started over timed phaseIndex` | `flow.started`, `result != nil`, `settings.DeadlineMinutes > 0`, `phaseIndex` |
| `clock` | `deadlineAt` and `GraceMinutes` compared with now: none, running, in grace, passed |
| `idle` | the powers godip offers no order at this position |
| `locked autoLocked sealed revealed` | the seat's fields |
| `openable` | the phone that holds the seat has the key to that envelope |
| `parts` | `game.parts`, by owner |
| `commitments` | `flow.commitments[phaseIndex]` |
| `watch` | `game.watch`, one snapshot per resolved phase |
| `revealOpen awaitingReveal canForce` | the functions of those names |
| `Commit Uncommit Reveal RevealLast RevealRefused` | `handleSeatCommit`, `handleSeatUncommit`, `handleSeatReveal` |
| `Start GMForce GMExtend ChangeClock ChangeGrace` | `handleGMStart`, `handleGMForce`, `handleGMExtend`, `handleGMSettings` |
| `Resolve` | `advance`, `enterPhase` with its cascade, `checkEnd` |
| `EndByDraw` | `endGame` |
| `TimePasses` | no code: now moves past the deadline, then past the grace |
| `LoseKey` | a phone is lost, or a seat moves to one without the key |

Abstractions. `maxAutoPhases` phases without an order are more than a year, so there is no
unit left to move and the phase the cascade gives up on asks nobody either (`Resolve`).
An order list is a function from provinces to orders; the loop of the
reveal is `Applied`, which stops at the first `Refused` entry as the code does. What
the orders *do* is godip's: whom the next position asks (`next`) and whether somebody
won (`solo`) are left open. Cryptography is perfect: a key opens the envelope it
sealed and no other. A lock sealed for an earlier phase and taken by the next one is
`Commit(p, list, FALSE)`: it counts as a lock and no key opens it. Every seat is
claimed once a game has started, so `claimed` is not a variable. `maxAutoPhases`
is 8 in the code and `EndPhase` stands for `EndYear`; both are constants.

Left out: an error from godip, the unsealed order path of games older than
commit-reveal, the event log, the draw vote (one step here; the vote is `DrawVote`).

### `CommitReveal`, `SealedGameRefines`

`CommitReveal` is ADR-004's promise with no server in it: a sheet may be written,
replaced or torn up while nobody has shown theirs, and a round plays the sheets shown
in it. `SealedGameRefines` maps the game onto it (an envelope is the sheet, the
revealed seats are the ones shown, the history is what was played) and states
`KeepsPromise`.

### `GameStore`

`SealedGame` with its rows and a server that may be killed anywhere. A handler that
ends has persisted (`Persist`). A kill inside one is a single step: the writes it got
to, then `Restore`, which is `loadAll` and `restore` with the replay. The places a
kill tells apart: between handlers; after `recordCommitment` wrote its row; in
`advance` between its two saves, with any subset of the NMR rows; after the second
save and before `enterPhase` has settled the phase, after any number of cascaded
ones. `RevealRefused` writes nothing, as in the code, and a restart forgets it. A
database error, which `persist` logs and drops, is left out.

### `SeatPage`

One phone and the server as that seat can see it: the rest of the table is what the
server does by itself (`OthersCommit`, `OthersResolve`, `Extend`, `DeadlinePasses`).

| TLA+ | Code |
|---|---|
| `state ran` | the state on screen; the values the releasing effect of `SeatPage.tsx` last ran on |
| `draftPhase draft stored` | `draftPhase.current`, the key in `draft.current`, the drafts in `localStorage` |
| `fingerprint` | `fingerprint.current`, the summary the last poll acted on |
| `live told armed` | the socket of `useGameEvents`, a frame not acted on, the timer of `useRefreshAt` |
| `asked answers` | requests and answers on their way |
| `Unheard`, `Ignore` | `cancelled` in the effect: the answer to a key comes, and nothing is done with it |
| `Poll ReadOnFrame TimerFires` | the three causes of a read |
| `TakeState`, `Effect` | `takeState` and the render after it, with the effect that sends the key |
| `ServeLock ServeUnlock ServeReveal` | the handlers, from this seat's side |
| `Trouble` | one of: a request or an answer lost, an answer overtaken, the socket lost, the page reloaded |

A poll's summary and the state it then reads are one step, the read a page starts
with is its first poll, and the browser's offline and online events and a handed-over
seat's inherited key are left out. The rest of the table changing what this seat's
effect does not look at is left out with its frames.

### The parts around the game: `MCParts`

Fifteen modules model parts that meet the sealed game only through what the server
answers. Each has its own state, its own server side where it has one, and `...Init`,
`...Next` and `...Spec`. `MCParts` extends them all and chooses one `subject` at the
start: that part moves and the others rest, so that one run checks them side by side
without multiplying their states. They are models of their own, and no behaviour of
`MCParts` relates two of them.

| Module | Code | State | What makes it hard |
|---|---|---|---|
| `BoardOrders` | `board.ts` order builder, `Board.tsx` | `board` (state, plan, builder, review), `orderCalls` | options and posts answered late, coasts and provinces spelled differently, a review put over a half-built order |
| `MapView`, `MapGestures` | `viewbox.ts`, `bindGestures` | `pane view fingers` and the timers of a click, a throw, a wheel | a finger whose release never came, a pinch, a pan without its click |
| `BoardDrawing` | the `render...` functions, the effects of `Board.tsx` | `mount` (what the board was told), `canvas` (what each layer shows), `stack` (their order) | each call redraws some layers; the map comes late; a style is a new board |
| `PressPins` | `press.ts`, `PressPanel.tsx`, `HandoverPage.tsx` | `seat` (holder, keys, signed steps), `rooms lines`, each phone's pin and mail | hand-overs with and without a signed step, answers in any order |
| `PressRoom` | `PressRoom` of the panel, `presshttp.go` | `room` (memory), `rows` (database), `panel` | lost answers, refused writes, restarts, races for a number |
| `TableBoard` | `referee.ts`, `RefereeGuide.tsx` | `position dislodged record`, `table aside` (the real pieces), `done acted` | failed retreats, disbands nobody ordered with a note and without, failed builds, ticks in any order |
| `DrawVote` | `result.go`, `DrawCard`, the seat's proposal | `proposal result`, what each screen shows, calls on their way | an answer that crosses a new proposal, eliminations, withdrawals |
| `MasterKey` | `gmkey.ts recover.ts GmKeyCard.tsx`, `challenges.go` | `key epoch salt used others`, each browser's store and work, the paper | two screens at once, lost answers, restarts, a hand-over that ends the key, the caps per key and per game |
| `SandboxBoard` | `SandboxPage.tsx phases.ts sandbox.go` | `sandbox`, the page's board, power, plan and reads, `posts` and `answers` | overtaken reads, two requests out, answers taken out of order |
| `GamesList` | `GamesPage.tsx AdminPage.tsx registry.go` | `games`, two pages' rows, armed rows, deletes | rows that move between two presses |
| `PhaseWalk` | `WatchPage.tsx watch.go` | `live`, the address, the answer held, reads | answers out of order, history |
| `GmDesk` | `GmPage.tsx gm.go settings.go` | `game`, `desk` (page and form), `out` | a second screen, a role handed on, a stale form |
| `ReviewSheet` | `review.ts ReviewOverlay.tsx` | `resolved`, each page's sheet, `kept` | two pages of a browser, reloads, no storage |
| `SeatKeys` | `seatkey.ts JoinPage.tsx HandoverPage.tsx`, `join.go seatkey.go handover.go` | `places sessions`, each phone's seed, cookie and request, links | a hand-over while the former phone signs in, evictions, restarts |
| `PhaseClock` | `deadline.go clock.ts Clock.tsx` | `now phase`, the device's clock, the screen, reads | carry, changed settings, a clock set wrong |

Variables named *history* in their comments (`began`, `agreed`, `pressed`, `putAway`, `knew`,
`lost`, `acted`, `hand`, `overtaken`, `retired`, `astray`) are not in the code: they record what
a property speaks of, and no guard that stands for code reads them. (`acted` also says which
acts the pusher still has to do; `retired` that a browser never makes a key twice.)

What is abstracted, per module. An option tree is the set of complete orders in it
(`BoardOrders`). Positions are whole map units and ticks of 50 ms (`MapGestures`). A
picture is what a layer shows, not its shape (`BoardDrawing`). Keys are numbers and a
signature is its signer: nothing is forged (`PressPins`, `MasterKey`, `SeatKeys`); the
rate tokens of press are a choice to refuse (`PressRoom`). godip's outcomes are any the
rules could give, of orders that cover all, a part or nothing of what a power owes
(`TableBoard`). Which of the powers that gave nothing are NMR is left open: a force makes
NMRs of the unrevealed, and a seat that revealed an empty list is none
(`adjudicate.go:156-183`). The pusher's pieces are counted by province and power; one that
is to be moved and is not there comes from the box, and one stood beside its province waits
for the retreats, where a dislodged unit always goes (`board.ts:2688`). What the proofs of
the seats' keys do to the game's challenges is any number in `Crowds` (`MasterKey`). Consents are voters
and a ballot is the result it names (`DrawVote`). Time is in minutes (`PhaseClock`).

---

## 3. Runs

| Run | Module and cfg | What it shows |
|---|---|---|
| `sealed_game` | `MCSealedGame`, `SealedGame.cfg` | `TypeOK`, `SomeoneCanAct`, `DeadlineArmsGM`, `RevealedOrdersStand`, `OrdersHaveCommitments`, `TwoPaths`, whatever the game master does with the clock |
| `sealed_game_steady` | `MCSealedGame`, `SealedGameSteady.cfg` | `WindowStaysOpen`, `RecordIsWhatWasCommitted`, `KeepsPromise`, for three powers, under `SteadySpec` |
| `sealed_game_live` | `MCSealedGame`, `SealedGameLive.cfg` | `ResolvesByItself`: a phase everyone is in resolves without the game master |
| `game_store` | `MCGameStore`, `GameStore.cfg` | `AnswersAreStored`, `RevealedOrdersStand`, `OrdersHaveCommitments`, `PlayedOrdersStand`, through every kill |
| `game_store_steady` | `MCGameStore`, `GameStoreSteady.cfg` | `KeepsPromise` through every kill |
| `seat_page` | `SeatPage`, `SeatPage.cfg` | `NoKeyHeld`, `ReleasesByItself`, `ReloadUnsticks` |
| `parts` | `MCParts`, `Parts.cfg` | the twenty properties below, one part at a time |
| `reclosed_window` | `MCSealedGame`, `SealedGameReclosed.cfg` | violated: `RecordIsWhatWasCommitted`, when the clock of an open window may be moved |
| `restart_stuck` | `MCGameStore`, `GameStoreStuck.cfg` | violated: `SomeoneCanAct`, after a kill before `enterPhase` |
| `restart_history` | `MCGameStore`, `GameStoreHistory.cfg` | violated: `HistoryStands`, NMR rows of a force that never finished |
| `page_wake` | `SeatPage`, `SeatPageWake.cfg` | violated: `WakingUnsticks` |
| `page_dice` | `SeatPage`, `SeatPageDice.cfg` | violated: `KeyIsKept`, for a seat without a seed |

**Bounds.** Two powers let one seat be asked and the other idle, one revealed and the
other not, one locked late; every guard quantifies over seats one at a time, and
the proofs below cover any number. The steady run has three, so that an open window
can have revealed, committed and silent seats at once. Two provinces are the least on
which a list can be refused half way. The lists are a whole one, one that leaves a
province out, and one with a refused entry. `EndPhase = 2` is two phases,
so that a lock can be late, a phase can be cascaded over and the history can have
something to change; with `maxAutoPhases = 1` the cascade that gives up then ends the
game. `sealed_game_live` has three phases and one province, and there the phase the
cascade gives up on goes on; the theorems hold for every length.
Powers are symmetric and the runs that check no liveness use that.

`SeatPage` has `MaxMoves = 1` (one phase resolved or one deadline moved), which gives
a page a former phase to be stale about; `MaxAnswers = 2`, the least in which one
answer overtakes another; `MaxTrouble = 1`, one thing going wrong at any moment; and
one tap on the lock button at a time. Its runs do not check deadlock: a quiet page
after its last phase has nothing to do. `page_dice` needs no second phase.

**The run `parts`.** Nothing is shared, so the view compares states by the subject and its
own variables: the rest never change. It does not check deadlock, since a part that has
used up its bounds, and a game that is over, stop.

| Property | Says |
|---|---|
| `TapsSpeakTheTree` | whatever is lit can be tapped, and a post the board takes for legal is an order the server offered |
| `ViewOverMap` | the view is over the map, centred where it is the larger, between fit-all and `MaxZoom` times closer |
| `TapAlwaysLands` | one finger down and up on one spot is never blocked or ignored, unless it was part of a pan or a pinch |
| `MapIsUpToDate` | with no order away every layer shows what the board was last told; a review shows no draft; a province has one label; pieces lie on top |
| `TrustMovesOnProof` | a pin moves along signed steps or by the table's word, what was verified stays so, nothing is wrapped for a key that is pending |
| `SentOnce` | a text is stored once, once more only per lost answer, and what was told stored is |
| `CountersTrue` | badges and quotas equal what they count, through restarts |
| `MarksAreSeen` | no mark passes what this phone has shown |
| `NobodyIsVotedOut` | a draw ends the game by a proposal still open, with a consent from every survivor it leaves out |
| `PlanIsTrue` | once all is answered, and no answer was taken before an earlier one, the plan is what the server would take from the picked power |
| `PressedTwice` | every delete was pressed twice on its own row while that row stood |
| `WalkStaysBehind` | no step asks for the live phase by number, but for a step taken before any answer |
| `AgreedRulesStand` | the rules of a started game are those it started under, and a reading referee had the key |
| `UnreadOpens` | a page that shows no review put this one away, or its browser did |
| `FormerHolderIsOut` | a phone with a session on a seat has had the key the seat has now |
| `EveryTurnItsClock` | a phase has its period from its reset, and the carry stays under two of the longest |
| `NobodyIsToldEarly` | a screen says "over" only once the server's deadline has passed |
| `KeysFollowTheRole` | a key kept in a browser or on paper is the game's, or was until a hand-over of the role ended it; an ended key never opens the game again |
| `RetryAbsorbsOne` | a holder of the game's key fails to take the role back only after two disturbances, or when a try met a cap: its key's share of the challenges, or the game's |
| `OnlyTheUntoldAstray` | a guide that is followed leaves every piece as the game has it, but for those a guide had no true word for: taken by the rules from a power that is no NMR, or of an adjustment order that failed |

**Its bounds.** `BoardOrders`: a fleet beside a province of two coasts, an army that may be
supported, a neighbour, two phases, four gestures and two calls, so that an answer of the first
gesture can meet the order built by the others. `MapGestures`: a map of 4 by 2 in panes of its
shape and wider, two zoom steps. `BoardDrawing`: two provinces of which one has a name record,
each kind of map art, any number of zooms, picks and orders around one switch, style or review.
`PressPins`: three holders and so two hand-overs, one room, one line, two answers on their way.
`PressRoom`: two members, pages of one message, a quota of two, one text typed by You and one by
the other, one lost answer. `TableBoard`: three provinces, two powers, three phases, which is a
movement, its retreats and an adjustment, from an opening with an empty province and from one in
which a power has two units. `DrawVote`: three powers, two proposals, two calls at once, one
phase that resolves. `MasterKey`: two browsers, one of them seated, two keys, one use per key
and two per game, which the seats may have spent, one move of the role and one restart.
`SandboxBoard`: two powers, a movement and a retreat phase that asks one of them, two requests
or answers and two plan reads out. `GamesList`: two games, one poll and one delete on the way.
`PhaseWalk`: two resolved phases, two reads. `GmDesk`: one power, two press modes, one request
of the page out while the other screen does anything. `ReviewSheet`: both pages, two phases, two
reads. `SeatKeys`: one power, two phones, two seeds, two links, two sessions a seat.
`PhaseClock`: no clock and one of two minutes, retreats rounded to the least, two minutes of
game time, a device a minute slow or fast. Each bound is the least in which the hazard its
module is about can happen, and every action of every part is taken.

**Fairness.** `sealed_game_live` assumes of each phone that a reveal which stays
possible is eventually made (`PhonesReveal`); the page does that by itself, as long as
its request arrives, which is what `SeatPage` examines. It assumes nothing of the
game master, the clock, or players. `SeatPage` assumes that the page's own timers
run (poll, frame, `useRefreshAt`) and that requests and answers which trouble does not
remove arrive. Nobody is assumed to tap, to connect a socket, or to reload.

---

## 4. Proofs

`SealedGameProofs` and `SealedGameRefinesProofs`, for every set of powers, provinces and
lists, every `EndPhase` and `maxAutoPhases`, under the assumptions named in `SealedGame`:
there is a power, provinces are numbers (the code sorts them, and the order in which a
list is opened matters), the refused entry is not an order, and both bounds are positive.

| Theorem | Statement |
|---|---|
| `TypeCorrect` | `Spec => []TypeOK` |
| `NeverStuck` | `Spec => []SomeoneCanAct` |
| `DeadlineAlwaysArms` | `Spec => []DeadlineArmsGM` |
| `RevealsStand` | `Spec => []RevealedOrdersStand` |
| `NoOrdersWithoutCommitment` | `Spec => []OrdersHaveCommitments` |
| `OnlyTwoPaths` | `Spec => TwoPaths` |
| `WindowNeverCloses` | `SteadySpec => []WindowStaysOpen` |
| `RecordIsTrue` | `SteadySpec => []RecordIsWhatWasCommitted` |
| `PromiseKept` | `SteadySpec => KeepsPromise` |

**The argument.** None of these is inductive by itself. `IInv` adds what makes them so:

* `LocksAgree`: a seat is locked because it was not asked or because it has an
  envelope. Without it `canForce`, which looks at `locked`, and `revealOpen`, which
  looks at `sealed`, could drift apart, and with them the way out of a phase.
* `AutoLockedGaveNothing`: a seat the server locked has no envelope and no orders,
  so that none of its orders reach the record without a commitment.
* `SomeoneAwaited`: in a running phase some asked seat has not revealed. This is what
  adjudicating on the last reveal, and cascading over phases that ask nobody,
  achieve, and it is what is lost at a restart (`restart_stuck`).
* `NothingBeforeStart`, `BeforeStart`: the lobby, from which the first phase starts.

`SomeoneCanAct` follows: a seat is awaited; if the window is open the game master may
force, and if it is not, an asked seat is unlocked (`Unlocked`).

For the steady game master, `SteadyInv` adds `WindowStaysOpen`, `OpenedAsSealed` (an
opened envelope is still the one that stands there, and a seat whose orders are on the
board without being revealed has an envelope that is refused half way) and the record
itself. `OpenedAsSealed` is what fails when a window shuts. Then each step of
`SteadySpec` is a step of `CommitReveal` or a stutter: a commit is `Choose`, because the
window is shut and so nobody has revealed; a reveal is `Show`; a reveal or force that
adjudicates is `Play`.

### The game with its database

`GameStoreProofs`, from the same assumptions and for every kill of the model:
`StoreTypeCorrect` (`StoreSpec => []StoreTypeOK`), `NothingAnsweredIsLost`
(`[]AnswersAreStored`), `RevealsSurvive` (`[]RevealedOrdersStand`) and `HistorySurvives`
(`PlayedOrdersStand`). A restart puts the rows in place of the game, so the rows must say of
the running phase what the board says, and of every phase behind it what the history shows:
`StoreInv` joins `AnswersAreStored` and `RevealedOrdersStand` with `RecordIsStored` (the
pages of resolved phases are the rows) and with `AutoLocksHold`. The last is needed in
one place: a force freezes the rows of the powers it does not make an NMR of, and a
revealed seat must be one of those, also where a restart has locked it. `IInv` itself does
not survive a kill, as `restart_stuck` shows; nothing of it but typing is used. A handler is
first shown to leave a sound game in memory (`HandlerSaves`), whatever it is, and then
`PersistKeeps` writes it; each kill ends in `RestoreKeeps`.

`OrdersStayOwned` (`[]OrdersHaveCommitments` through kills) needs more. Without kills a
seat the server has locked has given its phase nothing; a restart breaks that, since it
locks every idle seat, also in a phase the cascade gave up on, where such a seat may have
sealed. `OwnedInv` therefore speaks of positions: where somebody is asked, the powers that
are not are locked and have nothing sealed, on the board or in the rows; where nobody
is, a restart locks all of them and nothing adjudicates again. It also says that the rows
hold no orders of phases to come, which a kill in the middle of a cascade reads back.

### The page

`SeatPageProofs`, for every number of phases, extensions, losses, overtaken answers and
reloads: `PageTypeCorrect` (`[]PageTypeOK`) and `NoKeyEarly` (`[]NoKeyHeld`). A page acts on
an old answer as on a new one, so it is not enough to know the newest: `PageInv` says that
everything the page was ever told and may still read, and every key on its way,
is of a phase behind the server's or of the running one with its window open, if it
says so (`Past`); that the keys of drafts, envelopes and storage are of the phase they
are filed under (`KeysFit`); and that without a moved deadline a window shuts only as its phase
ends (`NeverReshut`), which is where the game master who extends comes in.

### The parts

| Theorem | Statement | What makes it inductive |
|---|---|---|
| `NobodyLeftOutUnasked` in `TableProofs` | `VoteSpec => []NobodyIsVotedOut` | `VoteInv`: proposals are numbered as they are closed, so a closed one never ends the game; the one that stands asks the survivors it leaves out, because a phase that resolves withdraws it; an acceptance on its way was sent |
| `FormerHoldersStayOut` in `TableProofs` | `SeatSpec => []FormerHolderIsOut` | `SeatInv`: the index opens a seat by its present key only, a phone keeps and signs with what it made or was given, and a cookie on its way counts as one in hand |
| `KeysGoWithTheRole` in `TableProofs` | `KeySpec => []KeysFollowTheRole` | `KeyInv`: what a screen is about to keep was told to it of the game's key, so it is that key or a hand-over ended it since; a key just made is nobody's yet, and what recovers is kept or on paper |
| `OneRetryIsEnough` in `TableProofs` | `KeySpec => []RetryAbsorbsOne` | `TryInv`: every challenge that was used is of an epoch that is over, and a second attempt begins only after the world has moved once since the first (`Moved`), so two failures take two moves, or a cap that a try met (`full`) |
| `AgreedRulesAreKept` in `TableProofs` | `DeskSpec => []AgreedRulesStand` | `DeskInv`: a game whose master reads the press has one who plays no seat (`Sound`), a started one also somebody with the key, and what was agreed is what it has; a form, however stale, is a request of a known shape |
| `StaysBehind` in `ScreenProofs` | `WalkSpec => []WalkStaysBehind` | `WalkInv`: every answer held or on its way was true once (`TrueOnce`), so its count is not ahead of the game; the tab's history is behind too |
| `ReviewsOpen` in `ScreenProofs` | `ReviewSpec => []UnreadOpens` | `SheetInv`: the review a page handled last is on top or was put away, and the page that shows one has handled that very one |
| `ToldInTime` in `ScreenProofs` | `ClockSpec => []NobodyIsToldEarly` | `ClockInv`: the offset never puts a device ahead, since an answer is older than its receipt; a read holds the time at which it was answered |
| `TurnsHaveTheirClock` in `ScreenProofs` | `ClockSpec => []EveryTurnItsClock` | `TurnInv`: a turn began no later than now, under settings that can be entered; with `ClockInv`, and the property itself |
| `DeletesArePressedTwice` in `ScreenProofs` | `ListSpec => []PressedTwice` | `PressInv`: every list has a game once, its games were born, and an armed row is on the list it was pressed on |
| `PlanStaysTrue` in `ScreenProofs` | `SandboxSpec => []PlanIsTrue` | `SandInv`: at most one read counts, it is of the board and power on screen, and, as long as answers were taken in the order given, the last on its way brings the server's board (`InOrder`) |
| `EveryTextOnce`, `CountersStayTrue`, `OnlySeenIsRead` in `PressProofs` | `RoomSpec => []SentOnce`, `[]CountersTrue`, `[]MarksAreSeen` | `RoomInv`: memory and rows hold the same messages; every copy of a text is one the panel has heard of or is about to, or a lost answer (`Accounted`); one send is out at a time, of the draft; every mark is of a page that was shown |
| `PinsMoveOnProof` in `PressProofs` | `PressSpec => TrustMovesOnProof` | `PinsInv`: every answer a phone holds or is about to get, however old, carries only steps that were signed, and a signed press key is the signer's own; a phone that has pinned nothing was never served a key |
| `TapsLand` in `BoardProofs` | `GestureSpec => []TapAlwaysLands` | `TapInv`: while one finger alone is down the board's own list of pointers is that finger, and no block of an earlier gesture is left over |
| `ViewsStay` in `BoardProofs` | `GestureSpec => []ViewOverMap` | `ViewInv`: panes and views are whole numbers; the rest is that each way of making a view ends in the clamp |
| `MapStaysTrue` in `BoardProofs` | `DrawSpec => []MapIsUpToDate` | `DrawInv`: once the map is in, the canvas is the picture of what the board was told and of nothing older, and the stack has every layer once with pieces on top; page and board agree on the review |
| `TapsStayInTheTree` in `BoardProofs` | `BoardSpec => []TapsSpeakTheTree` | `OrdersInv`: the tree in hand is its unit's in a phase there was, and a coast on the chip is a key of that tree; a walk posts only where no key is left (`HeadOfAnOrder`, `WalkGood`) |
| `TableFollowsTheGame` in `BoardProofs` | `TableSpec => []OnlyTheUntoldAstray` | `TableInv`: of every piece no guide has passed over, a province has on the table those of the game's position, one more for an act still to take one away, one less for an act still to bring one; no two acts of a guide move one piece, so the count is never clamped, in whatever order they are done |

The modules group the parts by what they are about and the parts share nothing; each section
has its own invariant. `TableProofs` is the seats, the draw, the key and the desk;
`ScreenProofs` the watch page, the review, the clock, the lists and the sandbox;
`PressProofs` the press; `BoardProofs` the map of a seat and the real board.

The parts assume little of their constants. `NoPhone`, `NoKey` and the like are not members of
the set they are missing from; settings and skews are integers; a seat keeps at least one
session, a challenge store has room for one; there is at least one holder, one power, one
press mode and one kind of phase; provinces are finitely many and every opening puts at most one
piece on each. The parts of an order are strings (`Words`), which keeps
them apart from the sequences they make up. One assumption says more. `MapAssumption` asks
that the width at which all of the map is seen divides by `MaxZoom`: the code computes with
floating-point numbers and the model with integers, so the theorem is about the sizes at
which the two agree.

**Model-checked only.** Liveness (`ResolvesByItself`, `ReleasesByItself`, `ReloadUnsticks`)
is outside this prover. `KeepsPromise` through kills is checked by `game_store_steady` only: it
would need all of `SteadyInv` of the rows too. Every other safety and action property of
a passing run is stated by a theorem.

---

## 5. Where the code and its documents part

1. **An open window can shut** (`reclosed_window`). `sealed.go:301-304` says envelopes stop
   being replaceable once the window is open. A window that the *deadline* opened shuts
   when the game master extends it, or changes the clock or the grace period. Seats that
   have revealed can then re-seal knowing the others' orders, and orders already on the
   board stay there. `WindowStaysOpen`, `RecordIsWhatWasCommitted` and `KeepsPromise`
   hold as long as nobody does that, and are proved for that case.
2. **A restart can leave a phase nobody can move** (`restart_stuck`). `advance` saves the
   resolved phase before `enterPhase` has looked at the next position, and `restore` runs
   `autoLock` alone. Killed in between, the game comes back in a phase that asks nobody.
3. **A restart can change the history** (`restart_history`). NMR rows are written before the
   phase resolves, never removed, and read at a restart.
4. **A phone that failed to release does not try again** (`page_wake`). The effect that sends
   the key runs when `revealOpen` or `youRevealed` *changes*, not when they are read
   again. A lost request, or a window that shut and opened again before the page had
   read it shut, leaves the phone with the key in hand until it is reloaded.
5. **A key of a seat without a seed is not kept** (`page_dice`). It is stored with the first
   order of the phase; a lock without orders and a reload lose it.

Noticed beside these, and not checked by a run of their own. In the sealed game: with an
extension, a page sends a key to a window that shuts before the key arrives, so the server
has seen a key of a phase that is still being written (which is why `NoKeyHeld` asks that no
deadline was moved); and a lock that arrives after its phase was forced is taken for the
next phase, where no key opens it.

While modelling the parts, each of these was met as a state of the model that a comment of
the code, or its evident purpose, rules out. The properties of `parts` are stated so that they hold,
and say where these lie outside them.

* **Draws.** An answer names no proposal (`result.go:285`). A consent given to one result is
  counted for the one that replaced it while the answer was on its way. `NobodyIsVotedOut` asks
  for a consent, not for a consent to this result.
* **Press.** A rival that saw a hand-over of an unsigned seat calls the former holder's lines
  forged (`press.ts:423-425`). A send begun on the newest page loads the newest page over an
  older one opened meanwhile; clearing the draft after a send drops what was typed since.
* **Seats.** The seed is written only after the server has answered (`JoinPage.tsx:53-55`, and
  the same on `HandoverPage.tsx`): a lost answer leaves a seat whose key nobody has. A phone
  that lost its seed and kept its cookie joins again and stores a seed the seat does not know.
  Two tabs of one phone may claim two powers, and one seed overwrites the other; so does opening
  another seat's backup link. `SeatMenu.tsx:21` says a menu left open never shows a code that
  was used: it does until the next read.
* **Game master.** A hand-over of the role clears the game's key on purpose
  (`handover.go:414-417`) and cannot clear the former browser's. `GmKeyCard.tsx:93` says "This
  game has a key and this device holds it" from two facts that nobody compares, so a former game
  master who has the address again may be shown words that open nothing. The key of a lost
  answer is the game's and on no device. Turning on `gmPlays` after every power has joined
  leaves a start that answers 500 until it is turned off (`gm.go:275-281`). The role handed on
  in a game that reads press leaves it without a key (`gm.go:262-265` against
  `handover.go:417`). A form saved late posts its untouched fields as they were
  (`GmPage.tsx:773`). Two hand-over codes can stand on one screen although one is meant to
  (`GmPage.tsx:475-480`). An armed "Force" stays armed across a phase. A playing game master who
  lost the role's address finds no Recover button on the list.
* **Board.** An answer to a question asked before a review opens a builder in it. A mark of an
  illegal order stays on a legal one when an order's answer was lost (`Board.tsx:70-112`). With
  brief names, a zoom leaves the codes over the order the layers are listed in
  (`board.ts:1053-1066`), and fallback codes keep the size they were made with.
* **Guide.** A unit may be gone from the game and from every line. A seat may mark ready with
  orders missing (`SeatPage.tsx:566-581`); what the rules then take from it has no line, and the
  note that would cover it is written for NMRs only, which a reveal never makes. A failed build
  or disband keeps the line of one that came off. With all lines ticked `RefereeGuide.tsx:111`
  still says "Every piece is where it should be". `OnlyTheUntoldAstray` says that these pieces
  are the only ones that are not. A dislodged unit whose order failed is listed under "Leave
  these alone" and "Take these off". Closing the guide loses the ticks.
* **Sandbox.** Nothing puts the answers to two requests in order (`takeState`): of two orders
  out at once, the earlier answer arriving last leaves the page with the older board, and what
  it may order with that, until the next request.
* **Lists and watch page.** A poll asked before a delete and answered after it puts the row
  back. A handler that held a game while it was deleted writes its rows again, and the next
  restart loads them. A "Later phase" before any answer may ask for the live phase by number
  (`WatchPage.tsx:219-222`).

---

## 6. Not modelled

Variants and maps (pure functions of static files), the godip rules (a library, taken as any
outcome), export and process start, the pages that are a form or a text (`NewGame`,
`VariantsPage`, `DatcPage`, `FaqPage`, the gallery for development), the map's lightbox and the
split of the panes, the positions and shapes of what is drawn, the sentences of orders and
reviews, and cryptography, which is taken to do what it promises.

Within the modelled parts:

* A request is authorised and acted on in one step. In the code `serveTokenScope` gives the
  mutex back in between (`routes.go:271`), so one request of a former holder that was let
  through still lands.
* `persist` failing is modelled for press messages only (`save.go:40`): what a failed write
  loses elsewhere depends on which of the following ones succeed.
* The server's side of live events: the one-frame slot of a subscriber, revocation, the cap.
* The token seats of games made before the keys.
* An error of godip's `Next` (`adjudicate.go:201`), which would leave a phase half resolved.

What would come next: an `Events` module for the one-frame slot, with the promise that a
subscriber always reads the newest state, on which `SeatPage` would then rest; the gap
between authorising and acting as a second step in `SeatKeys`; and the proof of
`KeepsPromise` through kills.
