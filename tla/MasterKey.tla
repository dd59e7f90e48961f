------------------------------- MODULE MasterKey --------------------------------
(***************************************************************************)
(* The game master's key: made on one screen, kept by the server as its    *)
(* public half, written down as twelve words, and used to take the role    *)
(* back (web/src/gmkey.ts, recover.ts, components/GmKeyCard.tsx,           *)
(* pages/GamesPage.tsx; internal/server/gmkey.go, challenges.go).          *)
(*                                                                         *)
(* A key and its public half are one value: who signs with it has it.  A   *)
(* challenge is what the server checks of it: the process that made it,    *)
(* the epoch of the role, and who asked, which stands for its random part. *)
(* A browser shows one page of the game at a time.                         *)
(***************************************************************************)
EXTENDS Integers, FiniteSets

CONSTANTS Screen,           \* the browsers
          Secret,           \* the keys they may make
          NoKey,
          Seated,           \* the browsers that hold a seat of the game
          maxKeyChallenges, \* the share of one key in the used challenges
          maxGameChallenges, \* what all keys of the game may have used
          Crowds,           \* what the seats' keys may have used of them
          MaxEpochs,        \* moves of the role
          MaxSalts          \* restarts of the server, and windows that pass

ASSUME KeyAssumption ==
  /\ NoKey \notin Secret /\ Seated \subseteq Screen
  /\ maxKeyChallenges \in Nat \ {0} /\ maxGameChallenges \in Nat \ {0}
  /\ Crowds \subseteq Nat /\ MaxEpochs \in Nat /\ MaxSalts \in Nat

VARIABLES key,       \* f.gmPublicKey
          epoch,     \* f.gmEpoch, and with it the game master's address
          salt,      \* which process's challengeSalt, and which window
          used,      \* challenges.used: consumed, inside their window, with who signed
          others,    \* how many more of them the seats' own keys have used
          stored,    \* localStorage: each browser's key for the game
          paper,     \* the words somebody wrote down
          address,   \* the epoch of the game master address each browser holds, or -1
          listed,    \* whether the game list shows each browser as the referee
          knows,     \* whether each browser's page says the game has a key
          work,      \* what each browser is doing about its key
          retired    \* history: the keys a hand-over of the role has ended

serverKeyVars == <<key, epoch, salt, used, others, retired>>
screenVars == <<stored, paper, address, listed, knows, work>>
keyVars == <<serverKeyVars, screenVars>>

Idle == [doing |-> "idle"]
Rests(s) == work[s] = Idle
Busy(s, what) == work' = [work EXCEPT ![s] = what]

IsGM(s) == address[s] = epoch

(***************************************************************************)
(* Making a key (GmKeyCard.make, handleGMKey).                             *)
(***************************************************************************)
Untaken == Secret \ ({key} \cup retired \cup paper \cup {stored[s] : s \in Screen}
                     \cup {work[s].with : s \in {t \in Screen : ~Rests(t)}})
\* Mutant of Making: the browser keeps the key before the server has it.
KeptFirst(s, k) ==
  /\ stored' = [stored EXCEPT ![s] = k]
  /\ Busy(s, [doing |-> "making", with |-> k, said |-> "none"])
Making(s, k) ==
  /\ UNCHANGED stored
  /\ Busy(s, [doing |-> "making", with |-> k, said |-> "none"])

Make(s) ==
  /\ Rests(s) /\ IsGM(s) /\ ~knows[s]
  /\ \E k \in Untaken : Making(s, k)
  /\ UNCHANGED <<serverKeyVars, paper, address, listed, knows>>

handleGMKey(s) ==
  LET w == work[s]
      taken == ~IsGM(s) \/ (key # NoKey /\ key # w.with)
  IN /\ w.doing = "making" /\ w.said = "none"
     /\ key' = IF taken THEN key ELSE w.with
     /\ Busy(s, [w EXCEPT !.said = IF taken THEN "refused" ELSE "made"])
     /\ UNCHANGED <<epoch, salt, used, others, retired, stored, paper, address, listed, knows>>

Made(s) ==
  /\ work[s].doing = "making" /\ work[s].said = "made"
  /\ stored' = [stored EXCEPT ![s] = work[s].with]
  /\ knows' = [knows EXCEPT ![s] = TRUE]
  /\ Busy(s, Idle)
  /\ UNCHANGED <<serverKeyVars, paper, address, listed>>

\* A refusal, or a request or an answer that was lost: the key is dropped.
MakeFailed(s) ==
  /\ work[s].doing = "making"
  /\ Busy(s, Idle)
  /\ UNCHANGED <<serverKeyVars, stored, paper, address, listed, knows>>

\* The card shows the words this browser keeps, once the game has a key.
WriteDown(s) ==
  /\ knows[s] /\ stored[s] # NoKey /\ stored[s] \notin paper
  /\ paper' = paper \cup {stored[s]}
  /\ UNCHANGED <<serverKeyVars, stored, address, listed, knows, work>>

ReadPage(s) ==
  /\ IsGM(s) /\ knows' = [knows EXCEPT ![s] = key # NoKey]
  /\ UNCHANGED <<serverKeyVars, stored, paper, address, listed, work>>

(***************************************************************************)
(* The game list.                                                          *)
(***************************************************************************)
FetchGames(s) ==
  /\ listed' = [listed EXCEPT ![s] = IsGM(s)]
  /\ UNCHANGED <<serverKeyVars, stored, paper, address, knows, work>>

\* enterPath and the Recover button of a row.
Door(s) ==
  IF s \in Seated THEN "seat" ELSE IF listed[s] THEN "referee"
  ELSE IF stored[s] # NoKey THEN "recover" ELSE "none"

(***************************************************************************)
(* Taking the role back (recoverGameMaster, handleRecoverClaim).           *)
(***************************************************************************)
Challenge(s) == [salt |-> salt, epoch |-> epoch, by |-> s, attempt |-> work[s].attempt]

Recovering(s, k) ==
  Busy(s, [doing |-> "asking", with |-> k, attempt |-> 0, since |-> salt + epoch,
           full |-> FALSE])

recoverFromStoredKey(s) ==
  /\ Rests(s) /\ Door(s) = "recover"
  /\ Recovering(s, stored[s])
  /\ UNCHANGED <<serverKeyVars, stored, paper, address, listed, knows>>

recoverFromWords(s) ==
  /\ Rests(s) /\ \E k \in paper : Recovering(s, k)
  /\ UNCHANGED <<serverKeyVars, stored, paper, address, listed, knows>>

canIssueChallenge == Cardinality(used) + others < maxGameChallenges
challengeCapacity(k) ==
  canIssueChallenge /\ Cardinality({u \in used : u.with = k}) < maxKeyChallenges
consumeNonce(n, k) ==
  /\ n.salt = salt /\ n.epoch = epoch /\ n \notin {u.nonce : u \in used}
  /\ challengeCapacity(k)

\* `full' remembers that a try met the caps: its key's share, or the game's.
Again(w, what) ==
  [doing |-> what, with |-> w.with, attempt |-> 1, since |-> w.since,
   full |-> w.full \/ ~challengeCapacity(w.with)]

\* Mutant of Refused: no second challenge after a refusal.
NoSecondTry(w) == Again(w, "failed")
Refused(w) == Again(w, IF w.attempt = 0 THEN "asking" ELSE "failed")

\* The challenge, or a refusal that is not tried again: no key, or a full game.
handleRecoverChallenge(s) ==
  LET w == work[s]
  IN /\ w.doing = "asking"
     /\ Busy(s, IF key = NoKey \/ ~canIssueChallenge THEN Again(w, "failed")
                ELSE [doing |-> "claiming", with |-> w.with, attempt |-> w.attempt,
                      since |-> w.since, full |-> w.full, nonce |-> Challenge(s)])
     /\ UNCHANGED <<serverKeyVars, stored, paper, address, listed, knows>>

\* The claim, and the answer the browser reads: the new address, or a refusal,
\* of which only one that names no missing key is tried again.
handleRecoverClaim(s) ==
  LET w == work[s]
  IN /\ w.doing = "claiming"
     /\ IF w.with = key /\ consumeNonce(w.nonce, key)
        THEN /\ epoch < MaxEpochs
             /\ used' = used \cup {[nonce |-> w.nonce, with |-> key]}
             /\ epoch' = epoch + 1
             /\ Busy(s, [doing |-> "claimed", with |-> w.with, at |-> epoch + 1])
        ELSE /\ Busy(s, IF key = NoKey THEN Again(w, "failed") ELSE Refused(w))
             /\ UNCHANGED <<used, epoch>>
     /\ UNCHANGED <<key, salt, others, retired, stored, paper, address, listed, knows>>

Recovered(s) ==
  /\ work[s].doing = "claimed"
  /\ stored' = [stored EXCEPT ![s] = work[s].with]
  /\ address' = [address EXCEPT ![s] = work[s].at]
  /\ knows' = [knows EXCEPT ![s] = TRUE]
  /\ Busy(s, Idle)
  /\ UNCHANGED <<serverKeyVars, paper, listed>>

\* An answer that never came, or the error read and put away.
RecoverOver(s) ==
  /\ work[s].doing \in {"asking", "claiming", "claimed", "failed"}
  /\ Busy(s, Idle)
  /\ UNCHANGED <<serverKeyVars, stored, paper, address, listed, knows>>

(***************************************************************************)
(* The role handed to a browser by its link, which ends the key; the       *)
(* proofs of the seats' keys, which come and run out; and what makes every *)
(* challenge that is out worthless: a restart, which starts with a new     *)
(* salt and no used challenge, or their window passing.                    *)
(***************************************************************************)
\* Mutant of HandedKey: the former game master's words go on opening the game.
KeyStays == key
HandedKey == NoKey

handleGMRoleClaim(s) ==
  /\ epoch < MaxEpochs /\ Rests(s)
  /\ key' = HandedKey
  /\ retired' = retired \cup ({key} \ {NoKey})
  /\ epoch' = epoch + 1
  /\ address' = [address EXCEPT ![s] = epoch + 1]
  /\ knows' = [knows EXCEPT ![s] = FALSE]
  /\ UNCHANGED <<salt, used, others, stored, paper, listed, work>>

SeatsProve ==
  /\ others' \in {n \in Crowds : Cardinality(used) + n <= maxGameChallenges}
  /\ UNCHANGED <<key, epoch, salt, used, retired, screenVars>>

Lapse ==
  /\ salt < MaxSalts /\ salt' = salt + 1 /\ used' = {} /\ others' = 0
  /\ UNCHANGED <<key, epoch, retired, screenVars>>

KeyInit ==
  /\ key = NoKey /\ epoch = 0 /\ salt = 0 /\ used = {} /\ others = 0 /\ retired = {}
  /\ stored = [s \in Screen |-> NoKey] /\ work = [s \in Screen |-> Idle] /\ paper = {}
  /\ address \in {a \in [Screen -> {0, -1}] : \E s \in Screen : a[s] = 0}
  /\ listed = [s \in Screen |-> IsGM(s)] /\ knows = [s \in Screen |-> FALSE]

KeyNext ==
  \/ Lapse \/ SeatsProve
  \/ \E s \in Screen :
       \/ Make(s) \/ handleGMKey(s) \/ Made(s) \/ MakeFailed(s)
       \/ WriteDown(s) \/ ReadPage(s) \/ FetchGames(s)
       \/ recoverFromStoredKey(s) \/ recoverFromWords(s)
       \/ handleRecoverChallenge(s) \/ handleRecoverClaim(s)
       \/ Recovered(s) \/ RecoverOver(s)
       \/ handleGMRoleClaim(s)

KeySpec == KeyInit /\ [][KeyNext]_keyVars

(***************************************************************************)
(* Properties.                                                             *)
(***************************************************************************)
\* GmKeyCard.make, "this device must not be left holding a key the game does
\* not know about", and handover.go:414, "Recovery belongs to the role holder":
\* a key kept on a browser or written down is the game's, or was until the role
\* was handed over, also when two screens make one at once and answers are
\* lost; and what a hand-over ended never opens the game again.
KeysFollowTheRole ==
  /\ \A s \in Screen : stored[s] \in {NoKey, key} \cup retired
  /\ paper \subseteq {key} \cup retired
  /\ key \notin retired

\* recover.ts: the one retry is enough for one disturbance.  Who holds the
\* game's key fails only when the role moved or the challenges lapsed twice
\* meanwhile, or a try met a cap on challenges: its key's share, or the game's.
RetryAbsorbsOne ==
  \A s \in Screen :
    work[s].doing = "failed" /\ work[s].with = key =>
      salt + epoch - work[s].since >= 2 \/ work[s].full
================================================================================
