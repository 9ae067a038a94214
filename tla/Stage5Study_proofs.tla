------------------------- MODULE Stage5Study_proofs --------------------------
(***************************************************************************)
(* What the driver of the Stage 5 study promises of its manifests and of     *)
(* the evidence on disk, for every matrix and any number of deaths of the    *)
(* process.                                                                  *)
(*                                                                         *)
(* The invariant is built from the bottom: types and shape (Sound), what a   *)
(* block directory holds at each place of the driver (Directories), what     *)
(* the manifests say of them while no process died between a move and its    *)
(* manifest (OnRecord), and when a study is called complete (Concluded).     *)
(***************************************************************************)
EXTENDS Stage5Study, Subsequences_proofs

\* How many arms a block has.
K == Len(Arms)

----------------------------------------------------------------------------
(* Arms *)

\* The arms of a study are a list without repetition: as many as their set.
LEMMA ArmsAreMany ==
  /\ K \in Nat \ {0} /\ Arms \in [1..K -> ArmSet]
  /\ IsFiniteSet(ArmSet) /\ Cardinality(ArmSet) = K
<1>1. K \in Nat \ {0} /\ Arms \in [1..K -> ArmSet]
  BY Stage5Assumption DEF K
<1>2. \A a \in ArmSet : \E i \in 1..K : Arms[i] = a
  BY DEF ArmSet, K
<1>3. \A i, j \in 1..K : i # j => Arms[i] # Arms[j]
  BY Stage5Assumption DEF K
<1>4. IsFiniteSet(ArmSet)
  <2>1. Arms \in Surjection(1..K, ArmSet)
    BY <1>1, <1>2, Fun_IsSurj
  <2>2. IsFiniteSet(1..K)
    BY <1>1, CountTo
  <2> QED BY <2>1, <2>2, FS_Surjection
<1>5. Cardinality(ArmSet) = K
  <2> DEFINE n == K
             S == ArmSet
  <2>1. n \in Nat /\ Arms \in [1..n -> S] /\ IsFiniteSet(S)
    BY <1>1, <1>4
  <2>2. \A i, j \in 1..n : i # j => Arms[i] # Arms[j]
    BY <1>3
  <2>3. \A k \in S : \E i \in 1..n : Arms[i] = k
    BY <1>2
  <2> HIDE DEF n, S
  <2>4. n = Cardinality(S)
    BY <2>1, <2>2, <2>3, DistinctKeys
  <2> QED BY <2>4 DEF n, S
<1> QED BY <1>1, <1>4, <1>5

\* A study compares at least one arm.
LEMMA SomeArm == ArmSet # {}
<1>1. 1 \in 1..Len(Arms)
  BY ArmsAreMany DEF K
<1> QED BY <1>1 DEF ArmSet

\* The arms of a block, started from another one at each repeat, are all different.
LEMMA OrdersArePermutations ==
  ASSUME NEW b \in Blocks
  PROVE  /\ \A i \in 1..K : ArmOrder(b)[i] \in ArmSet
         /\ \A i, j \in 1..K : ArmOrder(b)[i] = ArmOrder(b)[j] => i = j
<1> DEFINE place(i) == ((b + i - 2) % K) + 1
<1>1. K \in Nat \ {0} /\ b \in Nat \ {0}
  BY ArmsAreMany, Stage5Assumption DEF Blocks
<1>2. ASSUME NEW i \in 1..K PROVE ArmOrder(b)[i] = Arms[place(i)]
  BY DEF ArmOrder, K
<1>3. ASSUME NEW i \in 1..K PROVE place(i) \in 1..K
  <2>1. b + i - 2 \in Nat
    BY <1>1
  <2>2. (b + i - 2) % K \in 0..(K - 1)
    BY <1>1, <2>1, Remainder
  <2> QED BY <2>2, <1>1
<1>4. ASSUME NEW i \in 1..K, NEW j \in 1..K, place(i) = place(j) PROVE i = j
  <2> DEFINE x == b - 2
  <2>1. x \in Int /\ b + i - 2 = x + i /\ b + j - 2 = x + j
    BY <1>1
  <2>2. (b + i - 2) % K = (b + j - 2) % K
    BY <1>1, <1>4
  <2> HIDE DEF x
  <2>3. (x + i) % K = (x + j) % K
    BY <2>1, <2>2
  <2> QED BY <1>1, <2>1, <2>3, Turns
<1> QED BY <1>2, <1>3, <1>4, ArmsAreMany, Stage5Assumption DEF K

----------------------------------------------------------------------------
(* The inductive invariant, from the bottom *)

Running == pc \notin {"new", "idle"}
Saving == pc \in {"save", "write"}
Entering == pc = "common" \/ (Saving /\ after = "common")
InArms == pc = "arm" \/ (Saving /\ after = "arm")
InBlock == Entering \/ pc = "warmup" \/ InArms

Shape ==
  /\ ~Running => mem = Missing
  /\ Running => Readable(mem)
  /\ pc = "new" => manifest = Missing /\ aside = {}
  /\ pc = "write" => manifest = Torn
  /\ InBlock => cur \in Blocks

Sound == TypeOK /\ Shape

\* The manifests no slot has been entered in.
LEMMA BlankManifests ==
  /\ {Missing, Torn, FreshManifest} \subseteq Manifests
  /\ ~Readable(Missing) /\ ~Readable(Torn) /\ Readable(FreshManifest)
<1> DEFINE blank(s) == [status |-> s, blocks |-> <<>>, slots |-> <<>>, failed |-> <<>>]
<1>1. Missing = blank("missing") /\ Torn = blank("torn") /\ FreshManifest = blank("running")
  BY DEF Missing, Torn, FreshManifest
<1>2. \A s \in {"missing", "torn", "running"} : blank(s) \in Manifests /\ blank(s).status = s
  <2>1. <<>> \in Seq(Blocks) /\ <<>> \in Seq(Entry) /\ <<>> \in Seq([block : Blocks, number : Nat])
    OBVIOUS
  <2> QED BY <2>1 DEF Manifests
<1> HIDE DEF blank
<1> QED BY <1>1, <1>2 DEF Readable

\* No directory: one that records nothing.
LEMMA NoDirIsDir == IsDir(NoDir) /\ ~Exists(NoDir)
BY DEF NoDir, IsDir, Exists

\* What is selected of a manifest are entries of a manifest.
LEMMA EntriesAreKept ==
  ASSUME NEW m \in Manifests, NEW b \in Blocks
  PROVE  /\ SlotsOf(m, b) \in Seq(Entry) /\ Without(m.slots, b) \in Seq(Entry)
         /\ Among(m.blocks, Blocks \ {b}) \in Seq(Blocks)
<1>1. m.slots \in Seq(Entry) /\ m.blocks \in Seq(Blocks)
  BY DEF Manifests
<1> QED BY <1>1, AmongPlaces DEF SlotsOf, Without

\* When the process is gone, the variables are where the next run finds them.
LEMMA GoneIsSound ==
  ASSUME Sound, ProcessGone,
         manifest' \in Manifests, dirs' = dirs, aside' = aside,
         {attempts, aborts, invalid}' \subseteq Nat, gap' \in BOOLEAN
  PROVE  Sound'
<1>1. TypeOK'
  <2>1. 1 \in 1..(NumBlocks + 1) /\ 1 \in 1..(Len(Arms) + 1)
    BY ArmsAreMany, Stage5Assumption DEF K
  <2> QED BY <2>1, BlankManifests DEF Sound, TypeOK, ProcessGone, IsDir
<1>2. Shape'
  BY DEF Shape, ProcessGone, Running, Saving, Entering, InArms, InBlock
<1> QED BY <1>1, <1>2 DEF Sound

\* Each step of the driver keeps to the types and to the shape, one lemma each.
LEMMA StartIsSound == Sound /\ Start => Sound'
<1> SUFFICES ASSUME Sound, Start PROVE Sound'
  OBVIOUS
<1>1. 1 \in 1..(NumBlocks + 1) /\ UNCHANGED <<manifest, dirs, aside, arm, attempts, aborts, invalid, gap>>
  BY Stage5Assumption DEF Start, disk, counters
<1>2. TypeOK'
  BY <1>1, BlankManifests DEF Sound, TypeOK, Start, IsDir
<1>3. Shape'
  BY <1>1, BlankManifests DEF Sound, Shape, Start, Running, Saving, Entering, InArms, InBlock
<1> QED BY <1>2, <1>3 DEF Sound

LEMMA ResumeIsSound == Sound /\ Resume => Sound'
<1> SUFFICES ASSUME Sound, Resume PROVE Sound'
  OBVIOUS
<1>1. 1 \in 1..(NumBlocks + 1) /\ UNCHANGED <<manifest, dirs, aside, arm, attempts, aborts, invalid, gap>>
  BY Stage5Assumption DEF Resume, disk, counters
<1>2. mem' \in Manifests /\ Readable(mem')
  BY DEF Sound, TypeOK, Resume, Manifests, Readable
<1>3. TypeOK'
  BY <1>1, <1>2 DEF Sound, TypeOK, Resume, IsDir
<1>4. Shape'
  BY <1>1, <1>2 DEF Sound, Shape, Resume, Running, Saving, Entering, InArms, InBlock
<1> QED BY <1>3, <1>4 DEF Sound

LEMMA TruncateIsSound == Sound /\ Truncate => Sound'
<1> SUFFICES ASSUME Sound, Truncate PROVE Sound'
  OBVIOUS
<1>1. UNCHANGED <<mem, dirs, aside, after, cur, smoke, arm, attempts, aborts, invalid, gap>>
  BY DEF Truncate, counters
<1>3. TypeOK'
  BY <1>1, BlankManifests DEF Sound, TypeOK, Truncate, IsDir
<1>4. Shape'
  BY <1>1 DEF Sound, Shape, Truncate, Running, Saving, Entering, InArms, InBlock, Readable
<1> QED BY <1>3, <1>4 DEF Sound

LEMMA WriteIsSound == Sound /\ Write => Sound'
<1> SUFFICES ASSUME Sound, Write PROVE Sound'
  OBVIOUS
<1>1. /\ pc = "write" /\ manifest' = mem
      /\ UNCHANGED <<dirs, aside, attempts, aborts, invalid, gap>>
  BY DEF Write, counters
<1>2. CASE after = "idle" /\ ProcessGone
  BY <1>1, <1>2, GoneIsSound DEF Sound, TypeOK
<1>3. CASE after # "idle" /\ pc' = after /\ UNCHANGED <<mem, after, cur, arm, smoke>>
  <2>1. TypeOK'
    BY <1>1, <1>3 DEF Sound, TypeOK, IsDir
  <2>2. Shape'
    BY <1>1, <1>3 DEF Sound, Shape, TypeOK, Running, Saving, Entering, InArms, InBlock, Readable
  <2> QED BY <2>1, <2>2 DEF Sound
<1> QED BY <1>2, <1>3 DEF Write

LEMMA SkipBlockIsSound == ASSUME NEW b \in Blocks, Sound, SkipBlock(b) PROVE Sound'
<1>1. /\ pc = "scan" /\ cur \in Blocks /\ cur' = cur + 1
      /\ UNCHANGED <<manifest, dirs, aside, mem, pc, after, arm, smoke, attempts, aborts, invalid, gap>>
  BY DEF SkipBlock, Scanning, disk, counters
<1>2. cur' \in 1..(NumBlocks + 1)
  BY <1>1, Stage5Assumption DEF Blocks
<1>3. TypeOK'
  BY <1>1, <1>2 DEF Sound, TypeOK, IsDir
<1>4. Shape'
  BY <1>1 DEF Sound, Shape, Running, Saving, Entering, InArms, InBlock, Readable
<1> QED BY <1>3, <1>4 DEF Sound

LEMMA MoveAsideIsSound == ASSUME NEW b \in Blocks, Sound, MoveAside(b) PROVE Sound'
<1>1. /\ pc = "scan" /\ cur = b /\ pc' = "save" /\ after' = "common"
      /\ UNCHANGED <<manifest, cur, arm, smoke, attempts, aborts, invalid, gap>>
  BY DEF MoveAside, Scanning, counters
<1>2. AttemptNumber \in Nat /\ mem \in Manifests
  BY DEF Sound, TypeOK, AttemptNumber, Manifests
<1>3. mem' \in Manifests /\ mem'.status = mem.status
  <2> DEFINE bs == Among(mem.blocks, Blocks \ {b})
             ss == Without(mem.slots, b)
             e == [block |-> b, number |-> AttemptNumber]
  <2>1. bs \in Seq(Blocks) /\ ss \in Seq(Entry)
    BY <1>2, EntriesAreKept
  <2>2. e \in [block : Blocks, number : Nat]
    BY <1>2
  <2>3. mem' = [mem EXCEPT !.failed = Append(@, e), !.blocks = bs, !.slots = ss]
    BY DEF MoveAside
  <2>4. Append(mem.failed, e) \in Seq([block : Blocks, number : Nat])
    BY <1>2, <2>2 DEF Manifests
  <2> DEFINE fs == Append(mem.failed, e)
  <2>5. mem' = [status |-> mem.status, blocks |-> bs, slots |-> ss, failed |-> fs]
    <3>1. mem = [status |-> mem.status, blocks |-> mem.blocks, slots |-> mem.slots, failed |-> mem.failed]
      BY <1>2 DEF Manifests
    <3> HIDE DEF bs, ss, e
    <3> QED BY <2>3, <3>1
  <2> HIDE DEF bs, ss, e, fs
  <2>6. mem.status \in {"missing", "torn", "running", "complete", "incomplete"}
    BY <1>2 DEF Manifests
  <2>7. fs \in Seq([block : Blocks, number : Nat])
    BY <2>4 DEF fs
  <2> QED BY <2>1, <2>5, <2>6, <2>7 DEF Manifests
<1>4. dirs' = [dirs EXCEPT ![b] = NoDir] /\ \A a \in aside' :
        a \in aside \/ a = [block |-> b, number |-> AttemptNumber, dir |-> dirs[b],
                            nested |-> AsideAt(b, AttemptNumber) # {}]
  BY DEF MoveAside, MoveFiles
<1>5. TypeOK'
  <2>1. DOMAIN dirs' = Blocks /\ \A x \in Blocks : IsDir(dirs'[x])
    BY <1>4, NoDirIsDir DEF Sound, TypeOK
  <2>2. \A a \in aside' : /\ a.block \in Blocks /\ a.number \in Nat
                          /\ a.nested \in BOOLEAN /\ IsDir(a.dir)
    <3>1. IsDir(dirs[b]) /\ (AsideAt(b, AttemptNumber) # {}) \in BOOLEAN
      BY DEF Sound, TypeOK
    <3> DEFINE e == [block |-> b, number |-> AttemptNumber, dir |-> dirs[b],
                     nested |-> AsideAt(b, AttemptNumber) # {}]
    <3>2. e.block \in Blocks /\ e.number \in Nat /\ e.nested \in BOOLEAN /\ IsDir(e.dir)
      BY <1>2, <3>1
    <3>3. \A a \in aside' : a \in aside \/ a = e
      BY <1>4
    <3> HIDE DEF e
    <3> QED BY <3>2, <3>3 DEF Sound, TypeOK
  <2> QED BY <1>1, <1>3, <2>1, <2>2 DEF Sound, TypeOK, IsDir
<1>6. Shape'
  BY <1>1, <1>3 DEF Sound, Shape, Running, Saving, Entering, InArms, InBlock, Readable
<1> QED BY <1>5, <1>6 DEF Sound

LEMMA EnterBlockIsSound == ASSUME NEW b \in Blocks, Sound, EnterBlock(b) PROVE Sound'
<1>1. /\ pc = "scan" /\ cur \in Blocks /\ pc' = "common"
      /\ UNCHANGED <<manifest, dirs, aside, mem, after, cur, arm, smoke, attempts, aborts, invalid, gap>>
  BY DEF EnterBlock, Scanning, disk, counters
<1>3. TypeOK'
  BY <1>1 DEF Sound, TypeOK, IsDir
<1>4. Shape'
  BY <1>1 DEF Sound, Shape, Running, Saving, Entering, InArms, InBlock, Readable
<1> QED BY <1>3, <1>4 DEF Sound

LEMMA MakeBlockIsSound == Sound /\ MakeBlock => Sound'
<1> SUFFICES ASSUME Sound, MakeBlock PROVE Sound'
  OBVIOUS
<1>1. /\ pc = "common" /\ pc' = "warmup" /\ attempts' = attempts + 1
      /\ UNCHANGED <<manifest, aside, mem, after, cur, arm, aborts, invalid, gap, smoke>>
  BY DEF MakeBlock
<1>2. DOMAIN dirs' = Blocks /\ \A x \in Blocks : IsDir(dirs'[x])
  <2>1. IsDir([NoDir EXCEPT !.attempt = attempts + 1])
    BY DEF Sound, TypeOK, IsDir, NoDir
  <2> QED BY <2>1 DEF MakeBlock, Sound, TypeOK
<1>3. TypeOK'
  BY <1>1, <1>2 DEF Sound, TypeOK, IsDir
<1>4. Shape'
  BY <1>1 DEF Sound, Shape, Running, Saving, Entering, InArms, InBlock, Readable
<1> QED BY <1>3, <1>4 DEF Sound

LEMMA CommonReadyIsSound == Sound /\ CommonReady => Sound'
<1> SUFFICES ASSUME Sound, CommonReady PROVE Sound'
  OBVIOUS
<1>1. /\ pc = "warmup" /\ pc' = "arm" /\ arm' = 1
      /\ UNCHANGED <<manifest, aside, after, cur, smoke, attempts, aborts, invalid, gap>>
  BY DEF CommonReady, counters
<1>2. cur \in Blocks
  BY <1>1 DEF Sound, Shape, InBlock
<1>3. DOMAIN dirs' = Blocks /\ \A x \in Blocks : IsDir(dirs'[x])
  <2>1. IsDir([dirs[cur] EXCEPT !.common = TRUE])
    BY <1>2 DEF Sound, TypeOK, IsDir
  <2>2. dirs' = [dirs EXCEPT ![cur] = [dirs[cur] EXCEPT !.common = TRUE]]
    BY DEF CommonReady
  <2> QED BY <2>1, <2>2 DEF Sound, TypeOK
<1>4. mem' \in Manifests /\ mem'.status = mem.status
  <2>1. mem \in Manifests /\ mem' = [mem EXCEPT !.blocks = Append(@, cur)]
    BY DEF Sound, TypeOK, CommonReady
  <2>2. Append(mem.blocks, cur) \in Seq(Blocks)
    BY <1>2, <2>1 DEF Manifests
  <2> QED BY <2>1, <2>2 DEF Manifests
<1>5. TypeOK'
  <2>1. 1 \in 1..(Len(Arms) + 1)
    BY ArmsAreMany DEF K
  <2> QED BY <1>1, <1>3, <1>4, <2>1 DEF Sound, TypeOK, IsDir
<1>6. Shape'
  BY <1>1, <1>2, <1>4 DEF Sound, Shape, Running, Saving, Entering, InArms, InBlock, Readable
<1> QED BY <1>5, <1>6 DEF Sound

\* The arm that runs next, and what the manifest will say of it.
ThisArm == ArmOrder(cur)[arm]
ThisEntry(valid) == [block |-> cur, arm |-> ThisArm, valid |-> valid]

\* Running an arm writes one slot.json of the current block and one entry of the
\* manifest in memory.
LEMMA RunArmEffect ==
  ASSUME Sound, NEW valid \in BOOLEAN, RunArm(valid)
  PROVE  /\ pc = "arm" /\ cur \in Blocks /\ arm \in 1..K
         /\ ThisArm \in ArmSet /\ ThisEntry(valid) \in Entry
         /\ DOMAIN dirs' = Blocks /\ IsDir(dirs'[cur])
         /\ \A x \in Blocks : x # cur => dirs'[x] = dirs[x]
         /\ dirs'[cur].attempt = dirs[cur].attempt /\ dirs'[cur].common = dirs[cur].common
         /\ DOMAIN dirs'[cur].slots = DOMAIN dirs[cur].slots \union {ThisArm}
         /\ \A x \in DOMAIN dirs'[cur].slots :
              dirs'[cur].slots[x] = IF x = ThisArm THEN valid ELSE dirs[cur].slots[x]
         /\ mem' \in Manifests /\ mem'.slots = Append(mem.slots, ThisEntry(valid))
         /\ mem'.status = mem.status /\ mem'.blocks = mem.blocks /\ mem'.failed = mem.failed
<1> DEFINE a == ArmOrder(cur)[arm]
           e == [block |-> cur, arm |-> a, valid |-> valid]
           old == dirs[cur]
           ss == [x \in DOMAIN old.slots \union {a} |-> IF x = a THEN valid ELSE old.slots[x]]
<1>1. pc = "arm" /\ arm \in 1..K
  BY ArmsAreMany DEF RunArm, Sound, TypeOK, K
<1>2. cur \in Blocks
  BY <1>1 DEF Sound, Shape, InBlock, InArms
<1>3. a \in ArmSet
  BY <1>1, <1>2, OrdersArePermutations
<1>4. e \in Entry
  BY <1>2, <1>3 DEF Entry
<1>5. DOMAIN dirs = Blocks /\ IsDir(old) /\ mem \in Manifests
  BY <1>2 DEF Sound, TypeOK
<1>6. dirs' = [dirs EXCEPT ![cur] = [old EXCEPT !.slots = ss]]
  BY DEF RunArm
<1>7. DOMAIN ss = DOMAIN old.slots \union {a}
      /\ \A x \in DOMAIN ss : ss[x] = IF x = a THEN valid ELSE old.slots[x]
  OBVIOUS
<1>8. /\ DOMAIN dirs' = Blocks /\ dirs'[cur] = [old EXCEPT !.slots = ss]
      /\ \A x \in Blocks : x # cur => dirs'[x] = dirs[x]
  BY <1>2, <1>5, <1>6
<1>9. /\ dirs'[cur].attempt = old.attempt /\ dirs'[cur].common = old.common
      /\ dirs'[cur].slots = ss /\ DOMAIN dirs'[cur] = {"attempt", "common", "slots"}
  BY <1>5, <1>8 DEF IsDir
<1>10. IsDir(dirs'[cur])
  <2>1. DOMAIN ss \subseteq ArmSet /\ \A x \in DOMAIN ss : ss[x] \in BOOLEAN
    BY <1>3, <1>5, <1>7 DEF IsDir
  <2> HIDE DEF ss
  <2> QED BY <1>5, <1>9, <2>1 DEF IsDir
<1>11. /\ mem' = [mem EXCEPT !.slots = Append(@, e)]
  BY DEF RunArm
<1>12. /\ mem' \in Manifests /\ mem'.slots = Append(mem.slots, e)
       /\ mem'.status = mem.status /\ mem'.blocks = mem.blocks /\ mem'.failed = mem.failed
  <2> HIDE DEF e
  <2>1. Append(mem.slots, e) \in Seq(Entry)
    BY <1>4, <1>5 DEF Manifests
  <2> QED BY <1>5, <1>11, <2>1 DEF Manifests
<1> HIDE DEF a, ss
<1>13. ThisArm = a /\ ThisEntry(valid) = [block |-> cur, arm |-> a, valid |-> valid]
  BY DEF ThisArm, ThisEntry, a
<1> QED BY <1>1, <1>2, <1>3, <1>4, <1>7, <1>8, <1>9, <1>10, <1>12, <1>13

LEMMA RunArmIsSound == ASSUME NEW v \in BOOLEAN, Sound, RunArm(v) PROVE Sound'
<1>1. /\ arm' = arm + 1 /\ pc' = "save" /\ after' = "arm"
      /\ invalid' = IF v THEN invalid ELSE invalid + 1
      /\ UNCHANGED <<manifest, aside, cur, attempts, aborts, gap, smoke>>
  BY DEF RunArm
<1>2. arm' \in 1..(Len(Arms) + 1)
  <2>1. arm \in 1..K /\ K \in Nat
    BY RunArmEffect, ArmsAreMany
  <2> QED BY <1>1, <2>1 DEF K
<1>3. DOMAIN dirs' = Blocks /\ \A x \in Blocks : IsDir(dirs'[x])
  BY RunArmEffect DEF Sound, TypeOK
<1>4. mem' \in Manifests /\ mem'.status = mem.status /\ cur \in Blocks
  BY RunArmEffect
<1>5. TypeOK'
  <2>1. invalid' \in Nat
    BY <1>1 DEF Sound, TypeOK
  <2> QED BY <1>1, <1>2, <1>3, <1>4, <2>1 DEF Sound, TypeOK, IsDir
<1>6. Shape'
  <2>1. pc = "arm"
    BY DEF RunArm
  <2> QED BY <1>1, <1>4, <2>1 DEF Sound, Shape, Running, Saving, Entering, InArms, InBlock, Readable
<1> QED BY <1>5, <1>6 DEF Sound

LEMMA BlockEndIsSound == Sound /\ BlockEnd => Sound'
<1> SUFFICES ASSUME Sound, BlockEnd PROVE Sound'
  OBVIOUS
<1>1. /\ pc = "arm" /\ pc' = "scan" /\ cur' = cur + 1
      /\ UNCHANGED <<manifest, dirs, aside, mem, after, arm, smoke, attempts, aborts, invalid, gap>>
  BY DEF BlockEnd, disk, counters
<1>2. cur' \in 1..(NumBlocks + 1)
  BY <1>1, Stage5Assumption DEF Blocks, Sound, Shape, InBlock, InArms
<1>3. TypeOK'
  BY <1>1, <1>2 DEF Sound, TypeOK, IsDir
<1>4. Shape'
  BY <1>1 DEF Sound, Shape, Running, Saving, Entering, InArms, InBlock, Readable
<1> QED BY <1>3, <1>4 DEF Sound

LEMMA FinishIsSound == Sound /\ Finish => Sound'
<1> SUFFICES ASSUME Sound, Finish PROVE Sound'
  OBVIOUS
<1>1. /\ pc = "scan" /\ pc' = "save" /\ after' = "idle"
      /\ UNCHANGED <<manifest, dirs, aside, cur, arm, smoke, attempts, aborts, invalid, gap>>
  BY DEF Finish, disk, counters
<1>2. mem' \in Manifests /\ Readable(mem')
  <2>1. PICK s \in {"complete", "incomplete"} : mem' = [mem EXCEPT !.status = s]
    BY DEF Finish
  <2> QED BY <2>1 DEF Sound, TypeOK, Manifests, Readable
<1>3. TypeOK'
  BY <1>1, <1>2 DEF Sound, TypeOK, IsDir
<1>4. Shape'
  BY <1>1, <1>2 DEF Sound, Shape, Running, Saving, Entering, InArms, InBlock
<1> QED BY <1>3, <1>4 DEF Sound

LEMMA AbortIsSound == Sound /\ Abort => Sound'
<1> SUFFICES ASSUME Sound, Abort PROVE Sound'
  OBVIOUS
<1>1. ProcessGone /\ UNCHANGED <<manifest, dirs, aside, attempts, invalid>>
  BY DEF Abort, disk
<1>2. aborts' \in Nat /\ gap' \in BOOLEAN
  BY DEF Abort, Sound, TypeOK
<1> QED BY <1>1, <1>2, GoneIsSound DEF Sound, TypeOK

LEMMA MoveFailsIsSound == ASSUME NEW b \in Blocks, Sound, MoveFails(b) PROVE Sound'
<1>1. ProcessGone /\ UNCHANGED <<manifest, dirs, aside, attempts, aborts, invalid, gap>>
  BY DEF MoveFails, disk, counters
<1> QED BY <1>1, GoneIsSound DEF Sound, TypeOK

LEMMA StutterIsSound == Sound /\ UNCHANGED vars => Sound'
<1> SUFFICES ASSUME Sound, UNCHANGED vars PROVE Sound'
  OBVIOUS
<1>1. UNCHANGED <<manifest, dirs, aside, mem, pc, after, cur, arm, smoke, attempts, aborts, invalid, gap>>
  BY DEF vars, disk, process, counters
<1>3. TypeOK'
  BY <1>1 DEF Sound, TypeOK, IsDir
<1>4. Shape'
  BY <1>1 DEF Sound, Shape, Running, Saving, Entering, InArms, InBlock, Readable
<1> QED BY <1>3, <1>4 DEF Sound

\* So do all of them, and the initial state has the shape.
LEMMA SoundStep == Sound /\ [Next]_vars => Sound'
<1> SUFFICES ASSUME Sound, [Next]_vars PROVE Sound'
  OBVIOUS
<1>1. CASE Start
  BY <1>1, StartIsSound
<1>2. CASE Resume
  BY <1>2, ResumeIsSound
<1>3. CASE Truncate
  BY <1>3, TruncateIsSound
<1>4. CASE Write
  BY <1>4, WriteIsSound
<1>5. ASSUME NEW b \in Blocks, SkipBlock(b) PROVE Sound'
  BY <1>5, SkipBlockIsSound
<1>6. ASSUME NEW b \in Blocks, MoveAside(b) PROVE Sound'
  BY <1>6, MoveAsideIsSound
<1>7. ASSUME NEW b \in Blocks, MoveFails(b) PROVE Sound'
  BY <1>7, MoveFailsIsSound
<1>8. ASSUME NEW b \in Blocks, EnterBlock(b) PROVE Sound'
  BY <1>8, EnterBlockIsSound
<1>9. CASE MakeBlock
  BY <1>9, MakeBlockIsSound
<1>10. CASE CommonReady
  BY <1>10, CommonReadyIsSound
<1>11. ASSUME NEW v \in BOOLEAN, RunArm(v) PROVE Sound'
  BY <1>11, RunArmIsSound
<1>12. CASE BlockEnd
  BY <1>12, BlockEndIsSound
<1>13. CASE Finish
  BY <1>13, FinishIsSound
<1>14. CASE Abort
  BY <1>14, AbortIsSound
<1>15. CASE UNCHANGED vars
  BY <1>15, StutterIsSound
<1> QED BY <1>1, <1>2, <1>3, <1>4, <1>5, <1>6, <1>7, <1>8, <1>9, <1>10, <1>11, <1>12,
           <1>13, <1>14, <1>15 DEF Next, Process

LEMMA SoundInit == Init => Sound
<1> SUFFICES ASSUME Init PROVE Sound
  OBVIOUS
<1>1. TypeOK
  <2>1. 1 \in 1..(NumBlocks + 1) /\ 1 \in 1..(Len(Arms) + 1)
    BY ArmsAreMany, Stage5Assumption DEF K
  <2>2. manifest \in Manifests /\ mem \in Manifests
    BY BlankManifests DEF Init
  <2>3. DOMAIN dirs = Blocks /\ \A b \in Blocks : IsDir(dirs[b])
    BY NoDirIsDir DEF Init
  <2>4. \A a \in aside : /\ a.block \in Blocks /\ a.number \in Nat
                          /\ a.nested \in BOOLEAN /\ IsDir(a.dir)
    BY DEF Init
  <2>5. /\ pc = "new" /\ after = "idle" /\ cur = 1 /\ arm = 1 /\ smoke = 0 /\ gap = FALSE
        /\ attempts \in Nat /\ aborts \in Nat /\ invalid \in Nat
    BY DEF Init
  <2> QED BY <2>1, <2>2, <2>3, <2>4, <2>5 DEF TypeOK
<1>2. Shape
  BY DEF Init, Shape, Running, Saving, Entering, InArms, InBlock
<1> QED BY <1>1, <1>2 DEF Sound

\* The variables of the driver keep their types, for every matrix, whatever the
\* processes do (run_stage5_study).
THEOREM TypeCorrect == Spec => []TypeOK
<1>1. Sound => TypeOK
  BY DEF Sound
<1> QED BY <1>1, SoundInit, SoundStep, PTL DEF Spec

----------------------------------------------------------------------------
(* What a block directory holds *)

\* A directory that does not exist holds nothing, slots come after common.json,
\* a block that is entered starts from no directory, and the slots of the block
\* under way are those of the arms that ran.
Directories ==
  /\ \A b \in Blocks : ~Exists(dirs[b]) => dirs[b] = NoDir
  /\ \A b \in Blocks : DOMAIN dirs[b].slots # {} => dirs[b].common
  /\ Entering => dirs[cur] = NoDir
  /\ pc = "warmup" => Exists(dirs[cur]) /\ DOMAIN dirs[cur].slots = {}
  /\ InArms => /\ dirs[cur].common
               /\ DOMAIN dirs[cur].slots = {ArmOrder(cur)[i] : i \in 1..(arm - 1)}

\* What the four steps that touch a directory do to it (MoveAside, MakeBlock,
\* CommonReady, and RunArm above).
LEMMA MoveAsideEffect ==
  ASSUME NEW b \in Blocks, Sound, MoveAside(b)
  PROVE  /\ pc = "scan" /\ cur = b /\ pc' = "save" /\ after' = "common" /\ cur' = cur
         /\ DOMAIN dirs' = Blocks /\ dirs'[b] = NoDir
         /\ \A x \in Blocks : x # b => dirs'[x] = dirs[x]
BY DEF MoveAside, MoveFiles, Scanning, Sound, TypeOK

LEMMA MakeBlockEffect ==
  ASSUME Sound, MakeBlock
  PROVE  /\ pc = "common" /\ cur \in Blocks /\ cur' = cur /\ pc' = "warmup"
         /\ DOMAIN dirs' = Blocks
         /\ \A x \in Blocks : x # cur => dirs'[x] = dirs[x]
         /\ dirs'[cur].attempt = attempts + 1 /\ dirs'[cur].attempt # 0
         /\ ~dirs'[cur].common /\ DOMAIN dirs'[cur].slots = {}
<1>1. pc = "common" /\ cur \in Blocks /\ DOMAIN dirs = Blocks /\ attempts \in Nat
  BY DEF MakeBlock, Sound, Shape, TypeOK, InBlock, Entering
<1> QED BY <1>1 DEF MakeBlock, NoDir

LEMMA CommonReadyEffect ==
  ASSUME Sound, CommonReady
  PROVE  /\ pc = "warmup" /\ cur \in Blocks /\ cur' = cur /\ pc' = "arm" /\ arm' = 1
         /\ DOMAIN dirs' = Blocks
         /\ \A x \in Blocks : x # cur => dirs'[x] = dirs[x]
         /\ dirs'[cur].attempt = dirs[cur].attempt
         /\ dirs'[cur].common /\ dirs'[cur].slots = dirs[cur].slots
         /\ mem'.status = mem.status /\ mem'.slots = mem.slots /\ mem'.failed = mem.failed
<1>1. /\ pc = "warmup" /\ cur \in Blocks /\ DOMAIN dirs = Blocks /\ IsDir(dirs[cur])
      /\ mem \in Manifests
  BY DEF CommonReady, Sound, Shape, TypeOK, InBlock
<1>2. dirs' = [dirs EXCEPT ![cur] = [dirs[cur] EXCEPT !.common = TRUE]]
  BY DEF CommonReady
<1>3. mem' = [mem EXCEPT !.blocks = Append(@, cur)]
  BY DEF CommonReady
<1>4. mem'.status = mem.status /\ mem'.slots = mem.slots /\ mem'.failed = mem.failed
  BY <1>1, <1>3 DEF Manifests
<1> QED BY <1>1, <1>2, <1>4 DEF CommonReady, IsDir

\* Every step keeps the directories in order.
LEMMA DirectoriesStep == Sound /\ Directories /\ [Next]_vars => Directories'
<1> SUFFICES ASSUME Sound, Directories, [Next]_vars PROVE Directories'
  OBVIOUS
<1>1. ASSUME dirs' = dirs, ~InBlock' PROVE Directories'
  BY <1>1 DEF Directories, InBlock, Entering, InArms, Saving
<1>2. CASE Start
  BY <1>1, <1>2 DEF Start, disk, InBlock, Entering, InArms, Saving
<1>3. CASE Resume
  BY <1>1, <1>3 DEF Resume, disk, InBlock, Entering, InArms, Saving
<1>4. CASE Truncate
  BY <1>4 DEF Truncate, Directories, Entering, InArms, Saving
<1>5. CASE Write
  <2>1. pc = "write" /\ dirs' = dirs
    BY <1>5 DEF Write
  <2>2. CASE after = "idle" /\ ProcessGone
    BY <1>1, <2>1, <2>2 DEF ProcessGone, InBlock, Entering, InArms, Saving
  <2>3. CASE after # "idle" /\ pc' = after /\ UNCHANGED <<mem, after, cur, arm, smoke>>
    BY <2>1, <2>3 DEF Sound, TypeOK, Directories, Entering, InArms, Saving
  <2> QED BY <1>5, <2>2, <2>3 DEF Write
<1>6. ASSUME NEW b \in Blocks, SkipBlock(b) PROVE Directories'
  BY <1>1, <1>6 DEF SkipBlock, Scanning, disk, InBlock, Entering, InArms, Saving
<1>7. ASSUME NEW b \in Blocks, MoveAside(b) PROVE Directories'
  BY <1>7, MoveAsideEffect, NoDirIsDir DEF Directories, Entering, InArms, Saving, NoDir
<1>8. ASSUME NEW b \in Blocks, MoveFails(b) PROVE Directories'
  BY <1>1, <1>8 DEF MoveFails, ProcessGone, disk, InBlock, Entering, InArms, Saving
<1>9. ASSUME NEW b \in Blocks, EnterBlock(b) PROVE Directories'
  BY <1>9 DEF EnterBlock, Scanning, disk, Directories, Entering, InArms, Saving
<1>10. CASE MakeBlock
  <2>1. ~Entering' /\ ~InArms'
    BY <1>10, MakeBlockEffect DEF Entering, InArms, Saving
  <2>2. \A b \in Blocks : ~Exists(dirs'[b]) => dirs'[b] = NoDir
    BY <1>10, MakeBlockEffect DEF Directories, Exists
  <2>3. \A b \in Blocks : DOMAIN dirs'[b].slots # {} => dirs'[b].common
    BY <1>10, MakeBlockEffect DEF Directories
  <2>4. Exists(dirs'[cur']) /\ DOMAIN dirs'[cur'].slots = {}
    BY <1>10, MakeBlockEffect DEF Exists
  <2> QED BY <2>1, <2>2, <2>3, <2>4 DEF Directories
<1>11. CASE CommonReady
  <2>1. ~Entering' /\ pc' # "warmup"
    BY <1>11, CommonReadyEffect DEF Entering, Saving
  <2>2. Exists(dirs'[cur])
    BY <1>11, CommonReadyEffect DEF Directories, Exists
  <2>3. \A b \in Blocks : ~Exists(dirs'[b]) => dirs'[b] = NoDir
    BY <1>11, <2>2, CommonReadyEffect DEF Directories
  <2>4. \A b \in Blocks : DOMAIN dirs'[b].slots # {} => dirs'[b].common
    BY <1>11, CommonReadyEffect DEF Directories
  <2>5. dirs'[cur'].common /\ DOMAIN dirs'[cur'].slots = {ArmOrder(cur')[i] : i \in 1..(arm' - 1)}
    <3>1. {ArmOrder(cur)[i] : i \in 1..(1 - 1)} = {}
      OBVIOUS
    <3> QED BY <1>11, <3>1, CommonReadyEffect DEF Directories
  <2> QED BY <2>1, <2>3, <2>4, <2>5 DEF Directories
<1>12. ASSUME NEW v \in BOOLEAN, RunArm(v) PROVE Directories'
  <2>1. ~Entering' /\ pc' # "warmup" /\ arm' = arm + 1 /\ cur' = cur
    BY <1>12 DEF RunArm, Entering, Saving
  <2>2. /\ cur \in Blocks /\ arm \in Nat \ {0} /\ dirs[cur].common /\ Exists(dirs[cur])
        /\ DOMAIN dirs[cur].slots = {ArmOrder(cur)[i] : i \in 1..(arm - 1)}
    <3>1. cur \in Blocks /\ arm \in 1..K /\ pc = "arm"
      BY <1>12, RunArmEffect
    <3>2. arm \in Nat \ {0}
      BY <3>1, ArmsAreMany
    <3>3. dirs[cur].common /\ DOMAIN dirs[cur].slots = {ArmOrder(cur)[i] : i \in 1..(arm - 1)}
      BY <3>1 DEF Directories, InArms
    <3>4. Exists(dirs[cur])
      BY <3>1, <3>3 DEF Directories, NoDir
    <3> QED BY <3>1, <3>2, <3>3, <3>4
  <2>3. /\ \A x \in Blocks : x # cur => dirs'[x] = dirs[x]
        /\ dirs'[cur].common = dirs[cur].common /\ dirs'[cur].attempt = dirs[cur].attempt
        /\ DOMAIN dirs'[cur].slots = DOMAIN dirs[cur].slots \union {ThisArm}
    BY <1>12, RunArmEffect
  <2>4. \A b \in Blocks : ~Exists(dirs'[b]) => dirs'[b] = NoDir
    BY <2>2, <2>3 DEF Directories, Exists
  <2>5. \A b \in Blocks : DOMAIN dirs'[b].slots # {} => dirs'[b].common
    BY <2>2, <2>3 DEF Directories
  <2>6. DOMAIN dirs'[cur'].slots = {ArmOrder(cur')[i] : i \in 1..(arm' - 1)}
    <3>1. 1..((arm + 1) - 1) = 1..(arm - 1) \union {arm}
      BY <2>2
    <3> QED BY <2>1, <2>2, <2>3, <3>1 DEF ThisArm
  <2> QED BY <2>1, <2>2, <2>3, <2>4, <2>5, <2>6 DEF Directories
<1>13. CASE BlockEnd
  BY <1>1, <1>13 DEF BlockEnd, disk, InBlock, Entering, InArms, Saving
<1>14. CASE Finish
  BY <1>1, <1>14 DEF Finish, disk, InBlock, Entering, InArms, Saving
<1>15. CASE Abort
  BY <1>1, <1>15 DEF Abort, ProcessGone, disk, InBlock, Entering, InArms, Saving
<1>16. CASE UNCHANGED vars
  BY <1>16 DEF vars, disk, process, Directories, Entering, InArms, Saving
<1> QED BY <1>2, <1>3, <1>4, <1>5, <1>6, <1>7, <1>8, <1>9, <1>10, <1>11, <1>12,
           <1>13, <1>14, <1>15, <1>16 DEF Next, Process

----------------------------------------------------------------------------
(* The entries of a manifest and the evidence *)

\* The entries ss name distinct arms and repeat the slots of the directories ds.
BackedBy(ss, ds) ==
  /\ \A i, j \in 1..Len(ss) :
       i # j => <<ss[i].block, ss[i].arm>> # <<ss[j].block, ss[j].arm>>
  /\ \A i \in 1..Len(ss) : /\ ss[i].arm \in DOMAIN ds[ss[i].block].slots
                           /\ ds[ss[i].block].slots[ss[i].arm] = ss[i].valid

\* Backed, of the directories on disk.
LEMMA BackedIsBackedBy ==
  ASSUME NEW m
  PROVE  Backed(m) <=> BackedBy(m.slots, dirs)
BY DEF Backed, BackedBy

\* What the directory d records, e records too.
SlotsGrow(d, e) == \A a \in DOMAIN d.slots : a \in DOMAIN e.slots /\ e.slots[a] = d.slots[a]

\* Entries that are backed stay so while the directories only grow,
LEMMA BackedKept ==
  ASSUME NEW ss \in Seq(Entry), NEW ds, NEW es, BackedBy(ss, ds),
         \A x \in Blocks : SlotsGrow(ds[x], es[x])
  PROVE  BackedBy(ss, es)
<1>1. \A i \in 1..Len(ss) : ss[i] \in Entry
  OBVIOUS
<1>2. \A i \in 1..Len(ss) : ss[i].block \in Blocks
  BY <1>1 DEF Entry
<1> QED BY <1>2 DEF BackedBy, SlotsGrow

\* when an entry with its slot is appended,
LEMMA BackedAppend ==
  ASSUME NEW ss \in Seq(Entry), NEW ds, BackedBy(ss, ds), NEW e \in Entry,
         e.arm \in DOMAIN ds[e.block].slots, ds[e.block].slots[e.arm] = e.valid,
         \A i \in 1..Len(ss) : ~(ss[i].block = e.block /\ ss[i].arm = e.arm)
  PROVE  BackedBy(Append(ss, e), ds)
<1> DEFINE L == Len(ss)
           new == Append(ss, e)
<1>1. /\ L \in Nat /\ Len(new) = L + 1 /\ new[L + 1] = e
      /\ \A i \in 1..(L + 1) : i = L + 1 \/ (i \in 1..L /\ new[i] = ss[i])
  OBVIOUS
<1> HIDE DEF new
<1>2. ASSUME NEW i \in 1..(L + 1), NEW j \in 1..(L + 1), i # j
      PROVE  <<new[i].block, new[i].arm>> # <<new[j].block, new[j].arm>>
  <2>1. CASE i = L + 1
    BY <1>1, <1>2, <2>1
  <2>2. CASE j = L + 1
    BY <1>1, <1>2, <2>2
  <2>3. CASE i # L + 1 /\ j # L + 1
    BY <1>1, <1>2, <2>3 DEF BackedBy
  <2> QED BY <2>1, <2>2, <2>3
<1>3. ASSUME NEW i \in 1..(L + 1)
      PROVE  /\ new[i].arm \in DOMAIN ds[new[i].block].slots
             /\ ds[new[i].block].slots[new[i].arm] = new[i].valid
  BY <1>1 DEF BackedBy
<1>4. BackedBy(new, ds)
  BY <1>1, <1>2, <1>3 DEF BackedBy
<1> QED BY <1>4 DEF new

\* and when the entries of a block leave together with its directory.
LEMMA BackedWithout ==
  ASSUME NEW ss \in Seq(Entry), NEW ds, NEW es, NEW b \in Blocks, BackedBy(ss, ds),
         \A x \in Blocks : x # b => es[x] = ds[x]
  PROVE  BackedBy(Without(ss, b), es)
<1> DEFINE t == Without(ss, b)
<1>1. PICK pos : PlacedAt(t, ss, Entry \ OfBlock(b), pos)
  BY AmongPlaces DEF Without
<1>2. t \in Seq(Entry) /\ Len(t) \in Nat /\ Len(ss) \in Nat
  BY AmongPlaces DEF Without
<1> HIDE DEF t
<1>3. ASSUME NEW i \in 1..Len(t)
      PROVE  /\ pos[i] \in 1..Len(ss) /\ t[i] = ss[pos[i]]
             /\ t[i].block \in Blocks /\ t[i].block # b
  <2>1. pos[i] \in 1..Len(ss) /\ t[i] = ss[pos[i]] /\ t[i] \in Entry \ OfBlock(b)
    BY <1>1 DEF PlacedAt
  <2> QED BY <2>1 DEF Entry, OfBlock
<1>4. ASSUME NEW i \in 1..Len(t), NEW j \in 1..Len(t), i # j PROVE pos[i] # pos[j]
  <2>1. pos[i] \in 1..Len(ss) /\ pos[j] \in 1..Len(ss)
    BY <1>3
  <2>2. i < j \/ j < i
    BY <1>2, <1>4
  <2> QED BY <1>1, <1>2, <2>1, <2>2 DEF PlacedAt
<1>5. ASSUME NEW i \in 1..Len(t), NEW j \in 1..Len(t), i # j
      PROVE  <<t[i].block, t[i].arm>> # <<t[j].block, t[j].arm>>
  BY <1>3, <1>4, <1>5 DEF BackedBy
<1>6. ASSUME NEW i \in 1..Len(t)
      PROVE  /\ t[i].arm \in DOMAIN es[t[i].block].slots
             /\ es[t[i].block].slots[t[i].arm] = t[i].valid
  <2>1. es[t[i].block] = ds[t[i].block]
    BY <1>3
  <2> QED BY <1>3, <2>1 DEF BackedBy
<1>7. BackedBy(t, es)
  BY <1>5, <1>6 DEF BackedBy
<1> QED BY <1>7 DEF t

\* The failed attempts are numbered from one, and none that was moved is missing.
Numbered(fs) == \A i \in 1..Len(fs) : fs[i].number = i
Listed(fs, moved) ==
  \A a \in moved : \E i \in 1..Len(fs) : fs[i] = [block |-> a.block, number |-> a.number]

\* The next number is one no attempt was given, and it keeps the account.
LEMMA NextNumberIsFree ==
  ASSUME NEW fs \in Seq([block : Blocks, number : Nat]), NEW moved, NEW b \in Blocks,
         NEW n, n = Len(fs) + 1, NEW dir, NEW nested, Numbered(fs), Listed(fs, moved)
  PROVE  /\ \A a \in moved : a.number # n
         /\ Numbered(Append(fs, [block |-> b, number |-> n]))
         /\ Listed(Append(fs, [block |-> b, number |-> n]),
                   moved \union {[block |-> b, number |-> n, dir |-> dir, nested |-> nested]})
<1> DEFINE L == Len(fs)
           e == [block |-> b, number |-> L + 1]
           new == Append(fs, e)
<1>1. /\ L \in Nat /\ Len(new) = L + 1 /\ new[L + 1] = e
      /\ \A i \in 1..L : new[i] = fs[i]
      /\ \A i \in 1..(L + 1) : i = L + 1 \/ i \in 1..L
  OBVIOUS
<1> HIDE DEF new
<1>2. ASSUME NEW a \in moved, a.number = L + 1 PROVE FALSE
  <2>1. PICK i \in 1..L : fs[i] = [block |-> a.block, number |-> a.number]
    BY DEF Listed
  <2>2. fs[i].number = a.number /\ fs[i].number = i
    BY <2>1 DEF Numbered
  <2> QED BY <1>1, <1>2, <2>2
<1>3. Numbered(new)
  BY <1>1 DEF Numbered
<1>4. ASSUME NEW a \in moved \union {[block |-> b, number |-> L + 1, dir |-> dir, nested |-> nested]}
      PROVE  \E i \in 1..Len(new) : new[i] = [block |-> a.block, number |-> a.number]
  <2>1. CASE a \in moved
    <3>1. PICK i \in 1..L : fs[i] = [block |-> a.block, number |-> a.number]
      BY <2>1 DEF Listed
    <3>2. i \in 1..Len(new) /\ new[i] = fs[i]
      BY <1>1
    <3> QED BY <3>1, <3>2
  <2>2. CASE a = [block |-> b, number |-> L + 1, dir |-> dir, nested |-> nested]
    <3>1. new[L + 1] = [block |-> a.block, number |-> a.number] /\ L + 1 \in 1..Len(new)
      BY <1>1, <2>2
    <3> QED BY <3>1
  <2> QED BY <1>4, <2>1, <2>2
<1>5. Listed(new, moved \union {[block |-> b, number |-> L + 1, dir |-> dir, nested |-> nested]})
  BY <1>4 DEF Listed
<1> QED BY <1>2, <1>3, <1>5 DEF new

----------------------------------------------------------------------------
(* What the manifests say *)

\* The window between a block that moved and the manifest that says so, and the
\* places where the manifest on disk is the one in memory but for its status.
Window == pc = "save" /\ after = "common"
Synced ==
  \/ pc \in {"scan", "common", "warmup", "arm"}
  \/ pc = "save" /\ after \in {"scan", "idle"}

Agreement ==
  /\ BackedBy(mem.slots, dirs)
  /\ ~Window => BackedBy(manifest.slots, dirs)
  /\ Synced => manifest.slots = mem.slots

Accounted ==
  /\ \A a \in aside : ~a.nested
  /\ Running => Numbered(mem.failed) /\ Listed(mem.failed, aside)
  /\ ~Window /\ Readable(manifest) =>
       Numbered(manifest.failed) /\ Listed(manifest.failed, aside)
  /\ Synced \/ (pc = "save" /\ after = "arm") => manifest.failed = mem.failed

OnRecord == Agreement /\ Accounted

\* A manifest without entries has nothing to back.
LEMMA NothingBacked ==
  ASSUME NEW ds
  PROVE  BackedBy(Missing.slots, ds) /\ BackedBy(Torn.slots, ds) /\ BackedBy(FreshManifest.slots, ds)
<1>1. Missing.slots = <<>> /\ Torn.slots = <<>> /\ FreshManifest.slots = <<>>
  BY DEF Missing, Torn, FreshManifest
<1>2. Len(<<>>) = 0
  OBVIOUS
<1>3. BackedBy(<<>>, ds)
  BY <1>2 DEF BackedBy
<1> QED BY <1>1, <1>3

\* A step that adds to the directories at most, and saves nothing.
LEMMA WorkKeepsRecord ==
  ASSUME Sound, OnRecord, Synced, ~Window', manifest' = manifest, aside' = aside,
         mem'.slots = mem.slots, mem'.failed = mem.failed,
         \A b \in Blocks : SlotsGrow(dirs[b], dirs'[b])
  PROVE  OnRecord'
<1>1. ~Window /\ Running /\ mem.slots \in Seq(Entry)
  BY DEF Synced, Window, Running, Sound, TypeOK, Manifests
<1>2. BackedBy(mem.slots, dirs') /\ manifest.slots = mem.slots
  <2>1. BackedBy(mem.slots, dirs) /\ manifest.slots = mem.slots
    BY DEF OnRecord, Agreement
  <2> QED BY <1>1, <2>1, BackedKept
<1>3. Agreement'
  BY <1>2 DEF Agreement
<1>4. Accounted'
  BY <1>1 DEF OnRecord, Accounted
<1> QED BY <1>3, <1>4 DEF OnRecord

\* The end of the process leaves the manifest on disk to speak for it.
LEMMA GoneKeepsRecord ==
  ASSUME ProcessGone, BackedBy(manifest'.slots, dirs'), \A a \in aside' : ~a.nested,
         Readable(manifest') => Numbered(manifest'.failed) /\ Listed(manifest'.failed, aside')
  PROVE  OnRecord'
<1>1. ~Synced' /\ ~Running' /\ ~(pc' = "save") /\ mem' = Missing
  BY DEF ProcessGone, Synced, Running
<1>2. Agreement'
  BY <1>1, NothingBacked DEF Agreement
<1>3. Accounted'
  BY <1>1 DEF Accounted
<1> QED BY <1>2, <1>3 DEF OnRecord

\* Directories left alone record what they did.
LEMMA SamePlaceGrows ==
  ASSUME dirs' = dirs
  PROVE  \A b \in Blocks : SlotsGrow(dirs[b], dirs'[b])
BY DEF SlotsGrow

\* The steps that read or write the manifest, and the two that change what it says.
LEMMA StartKeepsRecord == Sound /\ OnRecord /\ Start => OnRecord'
<1> SUFFICES ASSUME Sound, OnRecord, Start PROVE OnRecord'
  OBVIOUS
<1>1. /\ manifest = Missing /\ aside = {} /\ manifest' = manifest /\ aside' = aside
      /\ mem' = FreshManifest /\ pc' = "save" /\ after' = "scan"
  BY DEF Start, Sound, Shape, disk
<1>2. /\ Missing.slots = FreshManifest.slots /\ Missing.failed = FreshManifest.failed
      /\ FreshManifest.failed = <<>> /\ Len(<<>>) = 0
  BY DEF Missing, FreshManifest
<1>3. Agreement'
  BY <1>1, <1>2, NothingBacked DEF Agreement
<1>4. Accounted'
  BY <1>1, <1>2, BlankManifests DEF Accounted, Numbered, Listed
<1> QED BY <1>3, <1>4 DEF OnRecord

LEMMA ResumeKeepsRecord == Sound /\ OnRecord /\ Resume => OnRecord'
<1> SUFFICES ASSUME Sound, OnRecord, Resume PROVE OnRecord'
  OBVIOUS
<1>1. /\ pc = "idle" /\ Readable(manifest) /\ mem' = [manifest EXCEPT !.status = "running"]
      /\ manifest' = manifest /\ dirs' = dirs /\ aside' = aside /\ pc' = "save" /\ after' = "scan"
  BY DEF Resume, disk
<1>2. mem'.slots = manifest.slots /\ mem'.failed = manifest.failed
  BY <1>1 DEF Sound, TypeOK, Manifests
<1>3. ~Window
  BY <1>1 DEF Window
<1>4. Agreement'
  BY <1>1, <1>2, <1>3 DEF OnRecord, Agreement
<1>5. Accounted'
  BY <1>1, <1>2, <1>3 DEF OnRecord, Accounted
<1> QED BY <1>4, <1>5 DEF OnRecord

LEMMA TruncateKeepsRecord == Sound /\ OnRecord /\ Truncate => OnRecord'
<1> SUFFICES ASSUME Sound, OnRecord, Truncate PROVE OnRecord'
  OBVIOUS
<1>1. /\ pc = "save" /\ manifest' = Torn /\ pc' = "write" /\ mem' = mem /\ dirs' = dirs /\ aside' = aside
  BY DEF Truncate
<1>2. Agreement'
  BY <1>1, NothingBacked DEF OnRecord, Agreement, Synced
<1>3. Accounted'
  BY <1>1, BlankManifests DEF OnRecord, Accounted, Synced, Running
<1> QED BY <1>2, <1>3 DEF OnRecord

LEMMA WriteKeepsRecord == Sound /\ OnRecord /\ Write => OnRecord'
<1> SUFFICES ASSUME Sound, OnRecord, Write PROVE OnRecord'
  OBVIOUS
<1>1. pc = "write" /\ manifest' = mem /\ dirs' = dirs /\ aside' = aside
  BY DEF Write
<1>2. /\ BackedBy(mem.slots, dirs) /\ Numbered(mem.failed) /\ Listed(mem.failed, aside)
      /\ \A a \in aside : ~a.nested
  BY <1>1 DEF OnRecord, Agreement, Accounted, Running
<1>3. CASE after = "idle" /\ ProcessGone
  BY <1>1, <1>2, <1>3, GoneKeepsRecord
<1>4. CASE after # "idle" /\ pc' = after /\ UNCHANGED <<mem, after, cur, arm, smoke>>
  <2>1. Agreement'
    BY <1>1, <1>2, <1>4 DEF Agreement
  <2>2. Accounted'
    BY <1>1, <1>2, <1>4 DEF Accounted
  <2> QED BY <2>1, <2>2 DEF OnRecord
<1> QED BY <1>3, <1>4 DEF Write

LEMMA MoveAsideKeepsRecord ==
  ASSUME NEW b \in Blocks, Sound, OnRecord, MoveAside(b)
  PROVE  OnRecord'
<1> DEFINE e == [block |-> b, number |-> AttemptNumber]
           moved == [block |-> b, number |-> AttemptNumber, dir |-> dirs[b],
                     nested |-> AsideAt(b, AttemptNumber) # {}]
<1>1. /\ pc = "scan" /\ pc' = "save" /\ after' = "common" /\ manifest' = manifest
      /\ \A x \in Blocks : x # b => dirs'[x] = dirs[x]
  BY MoveAsideEffect DEF MoveAside
<1>2. mem \in Manifests /\ BackedBy(mem.slots, dirs) /\ Running /\ Synced
  BY <1>1 DEF Sound, TypeOK, OnRecord, Agreement, Running, Synced
<1>3. /\ mem.slots \in Seq(Entry) /\ mem.failed \in Seq([block : Blocks, number : Nat])
      /\ mem'.slots = Without(mem.slots, b) /\ mem'.failed = Append(mem.failed, e)
  BY <1>2 DEF MoveAside, Manifests
<1>4. ~Synced' /\ Window' /\ ~(after' = "arm")
  BY <1>1 DEF Synced, Window
<1>5. Agreement'
  <2>1. BackedBy(Without(mem.slots, b), dirs')
    BY <1>1, <1>2, <1>3, BackedWithout
  <2> QED BY <1>3, <1>4, <2>1 DEF Agreement
<1>6. Accounted'
  <2>1. Numbered(mem.failed) /\ Listed(mem.failed, aside) /\ AttemptNumber = Len(mem.failed) + 1
    BY <1>2 DEF OnRecord, Accounted, AttemptNumber
  <2>2. aside' = aside \union {moved}
    BY DEF MoveAside, MoveFiles
  <2>3. \A a \in aside : a.number # AttemptNumber
    BY <1>3, <2>1, NextNumberIsFree
  <2>4. AsideAt(b, AttemptNumber) = {}
    BY <2>3 DEF AsideAt
  <2>5. Numbered(mem'.failed) /\ Listed(mem'.failed, aside')
    <3> DEFINE n == Len(mem.failed) + 1
               d == dirs[b]
               again == AsideAt(b, AttemptNumber) # {}
    <3>1. /\ mem'.failed = Append(mem.failed, [block |-> b, number |-> n])
          /\ aside' = aside \union {[block |-> b, number |-> n, dir |-> d, nested |-> again]}
      BY <1>3, <2>1, <2>2
    <3> DEFINE fs == mem.failed
    <3>2. fs \in Seq([block : Blocks, number : Nat]) /\ Numbered(fs) /\ Listed(fs, aside)
          /\ n = Len(fs) + 1
      BY <1>3, <2>1
    <3> HIDE DEF n, d, again, fs
    <3>3. /\ Numbered(Append(fs, [block |-> b, number |-> n]))
          /\ Listed(Append(fs, [block |-> b, number |-> n]),
                    aside \union {[block |-> b, number |-> n, dir |-> d, nested |-> again]})
      BY <3>2, NextNumberIsFree
    <3> QED BY <3>1, <3>3 DEF fs
  <2>6. \A a \in aside' : ~a.nested
    <3>1. ~moved.nested
      BY <2>4
    <3> HIDE DEF moved
    <3> QED BY <2>2, <3>1 DEF OnRecord, Accounted
  <2> QED BY <1>4, <2>5, <2>6 DEF Accounted
<1> QED BY <1>5, <1>6 DEF OnRecord

\* The arm that runs next has no slot yet, so running it only adds to the block.
LEMMA ThisArmIsNew ==
  ASSUME Sound, Directories, pc = "arm", arm <= K
  PROVE  ThisArm \notin DOMAIN dirs[cur].slots
<1>1. cur \in Blocks /\ arm \in 1..K
  BY ArmsAreMany DEF Sound, Shape, TypeOK, InBlock, InArms, K
<1>2. DOMAIN dirs[cur].slots = {ArmOrder(cur)[i] : i \in 1..(arm - 1)}
  BY DEF Directories, InArms
<1>3. \A i \in 1..(arm - 1) : i \in 1..K /\ i # arm
  BY <1>1, ArmsAreMany
<1> QED BY <1>1, <1>2, <1>3, OrdersArePermutations DEF ThisArm

LEMMA RunArmGrows ==
  ASSUME Sound, Directories, NEW v \in BOOLEAN, RunArm(v)
  PROVE  \A b \in Blocks : SlotsGrow(dirs[b], dirs'[b])
<1>1. ThisArm \notin DOMAIN dirs[cur].slots
  BY RunArmEffect, ThisArmIsNew DEF RunArm, K
<1> QED BY <1>1, RunArmEffect DEF SlotsGrow

LEMMA RunArmKeepsRecord ==
  ASSUME Sound, Directories, OnRecord, NEW v \in BOOLEAN, RunArm(v)
  PROVE  OnRecord'
<1>1. /\ pc = "arm" /\ pc' = "save" /\ after' = "arm"
      /\ manifest' = manifest /\ aside' = aside
  BY DEF RunArm
<1>2. Synced /\ Running /\ ~Window /\ ~Synced' /\ ~Window'
  BY <1>1 DEF Synced, Running, Window
<1>3. /\ mem'.slots = Append(mem.slots, ThisEntry(v)) /\ mem'.failed = mem.failed
      /\ ThisEntry(v) \in Entry /\ mem.slots \in Seq(Entry)
  BY RunArmEffect DEF Sound, TypeOK, Manifests
<1>4. BackedBy(mem.slots, dirs) /\ manifest.slots = mem.slots
  BY <1>2 DEF OnRecord, Agreement
<1>5. BackedBy(mem.slots, dirs')
  BY <1>3, <1>4, RunArmGrows, BackedKept
<1>6. \A i \in 1..Len(mem.slots) : ~(mem.slots[i].block = cur /\ mem.slots[i].arm = ThisArm)
  <2>1. ThisArm \notin DOMAIN dirs[cur].slots
    BY RunArmEffect, ThisArmIsNew DEF RunArm, K
  <2> QED BY <1>4, <2>1 DEF BackedBy
<1>7. /\ ThisEntry(v).block = cur /\ ThisEntry(v).arm = ThisArm /\ ThisEntry(v).valid = v
      /\ ThisArm \in DOMAIN dirs'[cur].slots /\ dirs'[cur].slots[ThisArm] = v
  BY RunArmEffect DEF ThisEntry
<1>8. BackedBy(Append(mem.slots, ThisEntry(v)), dirs')
  BY <1>3, <1>5, <1>6, <1>7, BackedAppend
<1>9. Agreement'
  BY <1>1, <1>2, <1>3, <1>4, <1>5, <1>8 DEF Agreement
<1>10. Accounted'
  BY <1>1, <1>2, <1>3 DEF OnRecord, Accounted
<1> QED BY <1>9, <1>10 DEF OnRecord

\* Every step keeps manifests and evidence together, unless it opens the gap.
LEMMA OnRecordStep ==
  Sound /\ Directories /\ (~gap => OnRecord) /\ [Next]_vars => (~gap' => OnRecord')
<1> SUFFICES ASSUME Sound, Directories, ~gap => OnRecord, [Next]_vars, ~gap' PROVE OnRecord'
  OBVIOUS
<1>1. ~gap
  BY DEF Next, Process, Start, Resume, Truncate, Write, SkipBlock, MoveAside, MoveFails,
         EnterBlock, MakeBlock, CommonReady, RunArm, BlockEnd, Finish, Abort, counters, vars
<1>2. OnRecord
  BY <1>1
<1>3. ASSUME ProcessGone, manifest' = manifest, dirs' = dirs, aside' = aside, ~Window
      PROVE  OnRecord'
  <2>1. /\ BackedBy(manifest'.slots, dirs') /\ \A a \in aside' : ~a.nested
        /\ Readable(manifest') => Numbered(manifest'.failed) /\ Listed(manifest'.failed, aside')
    BY <1>2, <1>3 DEF OnRecord, Agreement, Accounted
  <2> QED BY <1>3, <2>1, GoneKeepsRecord
<1>4. CASE Start
  BY <1>2, <1>4, StartKeepsRecord
<1>5. CASE Resume
  BY <1>2, <1>5, ResumeKeepsRecord
<1>6. CASE Truncate
  BY <1>2, <1>6, TruncateKeepsRecord
<1>7. CASE Write
  BY <1>2, <1>7, WriteKeepsRecord
<1>8. ASSUME NEW b \in Blocks, SkipBlock(b) PROVE OnRecord'
  <2>1. Synced /\ ~Window' /\ manifest' = manifest /\ aside' = aside /\ mem' = mem /\ dirs' = dirs
    BY <1>8 DEF SkipBlock, Scanning, disk, Synced, Window
  <2> QED BY <1>2, <2>1, WorkKeepsRecord, SamePlaceGrows
<1>9. ASSUME NEW b \in Blocks, MoveAside(b) PROVE OnRecord'
  BY <1>2, <1>9, MoveAsideKeepsRecord
<1>10. ASSUME NEW b \in Blocks, MoveFails(b) PROVE OnRecord'
  BY <1>3, <1>10 DEF MoveFails, Scanning, disk, Window
<1>11. ASSUME NEW b \in Blocks, EnterBlock(b) PROVE OnRecord'
  <2>1. Synced /\ ~Window' /\ manifest' = manifest /\ aside' = aside /\ mem' = mem /\ dirs' = dirs
    BY <1>11 DEF EnterBlock, Scanning, disk, Synced, Window
  <2> QED BY <1>2, <2>1, WorkKeepsRecord, SamePlaceGrows
<1>12. CASE MakeBlock
  <2>1. Synced /\ ~Window' /\ manifest' = manifest /\ aside' = aside /\ mem' = mem
    BY <1>12 DEF MakeBlock, Synced, Window
  <2>2. \A b \in Blocks : SlotsGrow(dirs[b], dirs'[b])
    <3>1. dirs[cur] = NoDir /\ DOMAIN NoDir.slots = {}
      BY <1>12 DEF MakeBlock, Directories, Entering, NoDir
    <3> QED BY <1>12, <3>1, MakeBlockEffect DEF SlotsGrow
  <2> QED BY <1>2, <2>1, <2>2, WorkKeepsRecord
<1>13. CASE CommonReady
  <2>1. Synced /\ ~Window' /\ manifest' = manifest /\ aside' = aside
    BY <1>13 DEF CommonReady, Synced, Window
  <2>2. \A b \in Blocks : SlotsGrow(dirs[b], dirs'[b])
    BY <1>13, CommonReadyEffect DEF SlotsGrow
  <2> QED BY <1>2, <1>13, <2>1, <2>2, CommonReadyEffect, WorkKeepsRecord
<1>14. ASSUME NEW v \in BOOLEAN, RunArm(v) PROVE OnRecord'
  BY <1>2, <1>14, RunArmKeepsRecord
<1>15. CASE BlockEnd
  <2>1. Synced /\ ~Window' /\ manifest' = manifest /\ aside' = aside /\ mem' = mem /\ dirs' = dirs
    BY <1>15 DEF BlockEnd, disk, Synced, Window
  <2> QED BY <1>2, <2>1, WorkKeepsRecord, SamePlaceGrows
<1>16. CASE Finish
  <2>1. Synced /\ ~Window' /\ manifest' = manifest /\ aside' = aside /\ dirs' = dirs
    BY <1>16 DEF Finish, disk, Synced, Window
  <2>2. mem'.slots = mem.slots /\ mem'.failed = mem.failed
    BY <1>16 DEF Finish, Sound, TypeOK, Manifests
  <2> QED BY <1>2, <2>1, <2>2, WorkKeepsRecord, SamePlaceGrows
<1>17. CASE Abort
  BY <1>3, <1>17 DEF Abort, disk, Window
<1>18. CASE UNCHANGED vars
  BY <1>2, <1>18 DEF vars, disk, process, OnRecord, Agreement, Accounted, Synced, Window, Running
<1> QED BY <1>4, <1>5, <1>6, <1>7, <1>8, <1>9, <1>10, <1>11, <1>12, <1>13, <1>14, <1>15,
           <1>16, <1>17, <1>18 DEF Next, Process

\* A study that was never started has nothing on record.
LEMMA OnRecordInit == Init => Directories /\ OnRecord
<1> SUFFICES ASSUME Init PROVE Directories /\ OnRecord
  OBVIOUS
<1>1. /\ manifest = Missing /\ mem = Missing /\ aside = {} /\ pc = "new"
      /\ \A b \in Blocks : dirs[b] = NoDir
  BY DEF Init
<1>2. Directories
  BY <1>1 DEF Directories, Entering, InArms, Saving, NoDir
<1>3. Agreement
  BY <1>1, NothingBacked DEF Agreement, Synced
<1>4. Accounted
  BY <1>1, BlankManifests DEF Accounted, Running, Synced
<1> QED BY <1>2, <1>3, <1>4 DEF OnRecord

\* The part of the inductive invariant that holds whatever the matrix expects.
Kernel == Sound /\ Directories /\ (~gap => OnRecord)

\* The kernel holds at first and is kept by every step.
LEMMA KernelInit == Init => Kernel
BY SoundInit, OnRecordInit DEF Kernel

LEMMA KernelStep == Kernel /\ [Next]_vars => Kernel'
BY SoundStep, DirectoriesStep, OnRecordStep DEF Kernel

\* Unless the process died between a move and its manifest, the manifest in memory
\* and the one a stopped study leaves agree with the slots on disk, for every matrix.
THEOREM BackedAlways == Spec => []ManifestBacked
<1>1. Kernel => ManifestBacked
  <2> SUFFICES ASSUME Kernel, ~gap PROVE Backed(mem) /\ (pc = "idle" => Backed(manifest))
    BY DEF ManifestBacked
  <2>1. BackedBy(mem.slots, dirs) /\ (pc = "idle" => BackedBy(manifest.slots, dirs))
    BY DEF Kernel, OnRecord, Agreement, Window
  <2> QED BY <2>1, BackedIsBackedBy
<1> QED BY <1>1, KernelInit, KernelStep, PTL DEF Spec

\* And every failed attempt has a place of its own and is listed.
THEOREM AttemptsAlwaysAccounted == Spec => []AttemptsAccounted
<1>1. Kernel => AttemptsAccounted
  <2> SUFFICES ASSUME Kernel PROVE AttemptsAccounted
    OBVIOUS
  <2>1. CollisionNeedsGap
    BY DEF CollisionNeedsGap, Kernel, OnRecord, Accounted
  <2>2. AttemptsListed
    BY DEF AttemptsListed, Kernel, OnRecord, Accounted, Listed, Window
  <2> QED BY <2>1, <2>2 DEF AttemptsAccounted
<1> QED BY <1>1, KernelInit, KernelStep, PTL DEF Spec

----------------------------------------------------------------------------
(* A complete study *)

\* The slot count that completes the study is not below the size of the matrix:
\* 240 slots for the 6 fixtures, 10 repeats and 4 arms of the configurations kept
\* with the code.
MatrixFits == ExpectedSlots >= NumBlocks * Len(Arms)

\* "complete" is read in a stopped study or while a resumed run begins, it is held
\* in memory only on its way to the manifest, and it is true wherever it is.
Concluded ==
  /\ manifest.status = "complete" => pc = "idle" \/ (pc = "save" /\ after = "scan")
  /\ mem.status = "complete" => Saving /\ after = "idle"
  /\ ~gap /\ (manifest.status = "complete" \/ mem.status = "complete") => MatrixOnDisk

\* The matrix has one slot for every arm of every block.
LEMMA MatrixSize ==
  /\ IsFiniteSet(Blocks \X ArmSet) /\ Cardinality(Blocks \X ArmSet) = NumBlocks * K
<1>1. NumBlocks \in Nat
  BY Stage5Assumption
<1>2. IsFiniteSet(Blocks) /\ Cardinality(Blocks) = NumBlocks
  BY <1>1, CountTo DEF Blocks
<1> QED BY <1>2, ArmsAreMany, FS_Product

\* Enough entries that are valid, backed and different cover the matrix: the place
\* of every arm of every block is taken by one of them.
LEMMA FullMatrixIsOnDisk ==
  ASSUME MatrixFits, NEW ss \in Seq(Entry), Len(ss) = ExpectedSlots, BackedBy(ss, dirs),
         \A i \in 1..Len(ss) : ss[i].valid
  PROVE  MatrixOnDisk
<1> DEFINE n == Len(ss)
           key == [i \in 1..n |-> <<ss[i].block, ss[i].arm>>]
           M == Blocks \X ArmSet
<1>1. n \in Nat /\ \A i \in 1..n : ss[i] \in Entry
  OBVIOUS
<1>2. \A i \in 1..n : ss[i].block \in Blocks /\ ss[i].arm \in ArmSet
  BY <1>1 DEF Entry
<1>3. key \in [1..n -> M]
  BY <1>2
<1>4. \A i, j \in 1..n : i # j => key[i] # key[j]
  BY DEF BackedBy
<1>5. IsFiniteSet(M) /\ Cardinality(M) = NumBlocks * K /\ n >= NumBlocks * K
  BY MatrixSize DEF MatrixFits, K
<1>6. \A p \in M : \E i \in 1..n : key[i] = p
  <2>1. NumBlocks * K \in Nat
    BY ArmsAreMany, Stage5Assumption
  <2> HIDE DEF key, n, M
  <2>2. n <= Cardinality(M)
    BY <1>1, <1>3, <1>4, <1>5, DistinctKeys
  <2>3. n = Cardinality(M)
    BY <1>1, <1>5, <2>1, <2>2
  <2> QED BY <1>1, <1>3, <1>4, <1>5, <2>3, DistinctKeys
<1>7. ASSUME NEW b \in Blocks, NEW a \in ArmSet
      PROVE  a \in DOMAIN dirs[b].slots /\ dirs[b].slots[a]
  <2>1. PICK i \in 1..n : key[i] = <<b, a>>
    BY <1>6
  <2>2. ss[i].block = b /\ ss[i].arm = a
    BY <2>1
  <2> QED BY <2>2 DEF BackedBy
<1> QED BY <1>7 DEF MatrixOnDisk

\* Only Finish concludes, and no block changes while a conclusion stands.
LEMMA ConcludedStep ==
  ASSUME MatrixFits, Kernel, Concluded, [Next]_vars
  PROVE  Concluded'
<1>1. ASSUME gap' = gap, manifest' = manifest, mem'.status = mem.status, pc' # "idle",
             pc \notin {"idle", "save", "write"}
      PROVE  Concluded'
  <2>1. manifest.status # "complete" /\ mem.status # "complete"
    BY <1>1 DEF Concluded, Saving
  <2> QED BY <1>1, <2>1 DEF Concluded
<1>2. ASSUME ProcessGone, manifest' = manifest, dirs' = dirs, gap \in BOOLEAN, gap => gap'
      PROVE  Concluded'
  BY <1>2 DEF ProcessGone, Missing, Concluded, MatrixOnDisk
<1>3. gap \in BOOLEAN /\ mem \in Manifests /\ manifest \in Manifests
      /\ (Running => Readable(mem)) /\ (~Running => mem = Missing)
      /\ (pc = "new" => manifest = Missing)
  BY DEF Kernel, Sound, TypeOK, Shape
<1>4. CASE Start
  BY <1>3, <1>4 DEF Start, Concluded, Missing, FreshManifest, Saving, disk
<1>5. CASE Resume
  <2>1. mem'.status = "running"
    BY <1>3, <1>5 DEF Resume, Manifests
  <2> QED BY <1>5, <2>1 DEF Resume, Concluded, disk, counters, MatrixOnDisk
<1>6. CASE Truncate
  BY <1>6 DEF Truncate, Concluded, Torn, Missing, Saving, counters, MatrixOnDisk
<1>7. CASE Write
  <2>1. pc = "write" /\ manifest' = mem /\ dirs' = dirs /\ gap' = gap
    BY <1>7 DEF Write, counters
  <2>2. CASE after = "idle" /\ ProcessGone
    BY <2>1, <2>2 DEF ProcessGone, Concluded, Missing, MatrixOnDisk
  <2>3. CASE after # "idle" /\ pc' = after /\ UNCHANGED <<mem, after, cur, arm, smoke>>
    BY <2>1, <2>3 DEF Concluded
  <2> QED BY <1>7, <2>2, <2>3 DEF Write
<1>8. ASSUME NEW b \in Blocks, SkipBlock(b) PROVE Concluded'
  BY <1>1, <1>8 DEF SkipBlock, Scanning, disk, counters
<1>9. ASSUME NEW b \in Blocks, MoveAside(b) PROVE Concluded'
  <2>1. mem'.status = mem.status
    BY <1>3, <1>9 DEF MoveAside, Manifests
  <2> QED BY <1>1, <1>9, <2>1 DEF MoveAside, Scanning, counters
<1>10. ASSUME NEW b \in Blocks, MoveFails(b) PROVE Concluded'
  BY <1>2, <1>3, <1>10 DEF MoveFails, disk, counters
<1>11. ASSUME NEW b \in Blocks, EnterBlock(b) PROVE Concluded'
  BY <1>1, <1>11 DEF EnterBlock, Scanning, disk, counters
<1>12. CASE MakeBlock
  BY <1>1, <1>12 DEF MakeBlock
<1>13. CASE CommonReady
  BY <1>1, <1>13, CommonReadyEffect DEF CommonReady, counters, Kernel
<1>14. ASSUME NEW v \in BOOLEAN, RunArm(v) PROVE Concluded'
  BY <1>1, <1>14, RunArmEffect DEF RunArm, Kernel
<1>15. CASE BlockEnd
  BY <1>1, <1>15 DEF BlockEnd, disk, counters
<1>16. CASE Finish
  <2>1. /\ pc = "scan" /\ pc' = "save" /\ after' = "idle" /\ manifest' = manifest
        /\ dirs' = dirs /\ gap' = gap /\ manifest.status # "complete"
    BY <1>16 DEF Finish, disk, counters, Concluded
  <2>2. mem'.status = "complete" =>
          Len(mem.slots) = ExpectedSlots /\ \A i \in 1..Len(mem.slots) : mem.slots[i].valid
    BY <1>3, <1>16 DEF Finish, Manifests
  <2>3. ~gap /\ mem'.status = "complete" => MatrixOnDisk
    <3>1. mem.slots \in Seq(Entry) /\ (~gap => BackedBy(mem.slots, dirs))
      BY <1>3 DEF Kernel, OnRecord, Agreement, Manifests
    <3> QED BY <2>2, <3>1, FullMatrixIsOnDisk
  <2> QED BY <2>1, <2>3 DEF Concluded, Saving, MatrixOnDisk
<1>17. CASE Abort
  BY <1>2, <1>3, <1>17 DEF Abort, disk
<1>18. CASE UNCHANGED vars
  BY <1>18 DEF vars, disk, process, counters, Concluded, Saving, MatrixOnDisk
<1> QED BY <1>4, <1>5, <1>6, <1>7, <1>8, <1>9, <1>10, <1>11, <1>12, <1>13, <1>14, <1>15,
           <1>16, <1>17, <1>18 DEF Next, Process

\* Where the expected count is not below the matrix, a study that says "complete" has
\* every arm of every block valid on disk, unless the process died in the window.
THEOREM CompleteIsTrusted ==
  ASSUME MatrixFits
  PROVE  Spec => []CompleteUnlessGap
<1>1. Init => Concluded
  BY DEF Init, Concluded, Missing
<1>2. Kernel /\ Concluded /\ [Next]_vars => Concluded'
  BY ConcludedStep
<1>3. Concluded => CompleteUnlessGap
  BY DEF Concluded, CompleteUnlessGap, CompleteMeansWhole
<1> QED BY <1>1, <1>2, <1>3, KernelInit, KernelStep, PTL DEF Spec

----------------------------------------------------------------------------
(* What a step may not do *)

\* Some execution of the next state holds all that d recorded.
Survives(d) ==
  \E e \in Executions' :
    /\ e.attempt = d.attempt /\ (d.common => e.common)
    /\ SlotsGrow(d, e)

\* An execution that stays where it is survives.
LEMMA SameSurvives ==
  ASSUME NEW d, d \in Executions'
  PROVE  Survives(d)
BY DEF Survives, SlotsGrow

\* Every step leaves every execution in its directory or under failed-attempts/.
LEMMA EvidenceStep ==
  ASSUME Kernel, [Next]_vars, NEW d \in Executions, Exists(d)
  PROVE  Survives(d)
<1>1. ASSUME dirs' = dirs, aside' = aside PROVE Survives(d)
  BY <1>1, SameSurvives DEF Executions
<1>2. ASSUME NEW c \in Blocks, aside' = aside, DOMAIN dirs' = Blocks,
             \A x \in Blocks : x # c => dirs'[x] = dirs[x],
             Exists(dirs[c]) => /\ dirs'[c].attempt = dirs[c].attempt
                                /\ (dirs[c].common => dirs'[c].common)
                                /\ SlotsGrow(dirs[c], dirs'[c])
      PROVE  Survives(d)
  <2>1. CASE d = dirs[c]
    <3>1. dirs'[c] \in Executions'
      BY DEF Executions
    <3> QED BY <1>2, <2>1, <3>1 DEF Survives
  <2>2. CASE d # dirs[c]
    <3>1. d \in Executions'
      BY <1>2, <2>2 DEF Executions
    <3> QED BY <3>1, SameSurvives
  <2> QED BY <2>1, <2>2
<1>3. Sound /\ Directories
  BY DEF Kernel
<1>4. CASE Start \/ Resume \/ Truncate \/ Write \/ BlockEnd \/ Finish \/ Abort \/ UNCHANGED vars
  BY <1>1, <1>4 DEF Start, Resume, Truncate, Write, BlockEnd, Finish, Abort, vars, disk
<1>5. ASSUME NEW b \in Blocks, SkipBlock(b) \/ MoveFails(b) \/ EnterBlock(b) PROVE Survives(d)
  BY <1>1, <1>5 DEF SkipBlock, MoveFails, EnterBlock, disk
<1>6. ASSUME NEW b \in Blocks, MoveAside(b) PROVE Survives(d)
  <2> DEFINE moved == [block |-> b, number |-> AttemptNumber, dir |-> dirs[b],
                       nested |-> AsideAt(b, AttemptNumber) # {}]
  <2>1. aside' = aside \union {moved} /\ moved.dir = dirs[b]
    BY <1>6 DEF MoveAside, MoveFiles
  <2> HIDE DEF moved
  <2>2. d \in Executions'
    BY <1>3, <1>6, <2>1, MoveAsideEffect DEF Executions
  <2> QED BY <2>2, SameSurvives
<1>7. CASE MakeBlock
  <2>1. ~Exists(dirs[cur]) /\ aside' = aside
    BY <1>3, <1>7, NoDirIsDir DEF MakeBlock, Directories, Entering
  <2> QED BY <1>2, <1>3, <1>7, <2>1, MakeBlockEffect
<1>8. CASE CommonReady
  <2>1. aside' = aside
    BY <1>8 DEF CommonReady
  <2> QED BY <1>2, <1>3, <1>8, <2>1, CommonReadyEffect DEF SlotsGrow
<1>9. ASSUME NEW v \in BOOLEAN, RunArm(v) PROVE Survives(d)
  <2>1. aside' = aside
    BY <1>9 DEF RunArm
  <2> QED BY <1>2, <1>3, <1>9, <2>1, RunArmEffect, RunArmGrows
<1> QED BY <1>4, <1>5, <1>6, <1>7, <1>8, <1>9 DEF Next, Process

\* No step overwrites or loses what an execution of a block recorded, whatever the
\* processes do and wherever they die.
THEOREM EvidenceIsKept == Spec => EvidenceKept
<1>1. Kernel /\ [Next]_vars =>
        [\A d \in Executions : Exists(d) =>
           \E e \in Executions' :
             /\ e.attempt = d.attempt /\ (d.common => e.common)
             /\ \A a \in DOMAIN d.slots :
                  a \in DOMAIN e.slots /\ e.slots[a] = d.slots[a]]_vars
  BY EvidenceStep DEF Survives, SlotsGrow
<1> QED BY <1>1, KernelInit, KernelStep, PTL DEF Spec, EvidenceKept

\* A finished block is one the driver skips.
LEMMA FinishedIsDone ==
  ASSUME Kernel, ~gap, pc = "scan", NEW b \in Blocks, FinishedBlock(b)
  PROVE  BlockDone(b)
<1> DEFINE old == SlotsOf(mem, b)
<1>1. mem.slots \in Seq(Entry) /\ BackedBy(mem.slots, dirs) /\ manifest.slots = mem.slots
  BY DEF Kernel, OnRecord, Agreement, Sound, TypeOK, Manifests, Synced
<1>2. PICK pos : PlacedAt(old, mem.slots, OfBlock(b), pos)
  BY <1>1, AmongPlaces DEF SlotsOf
<1>3. old \in Seq(Entry) /\ Len(old) \in Nat
  BY <1>1, AmongPlaces DEF SlotsOf
<1> HIDE DEF old
<1>4. ASSUME NEW i \in 1..Len(old)
      PROVE  /\ pos[i] \in 1..Len(mem.slots) /\ old[i] = mem.slots[pos[i]]
             /\ old[i].block = b /\ old[i].arm \in ArmSet
  BY <1>2, <1>4 DEF PlacedAt, OfBlock
<1>5. ASSUME NEW i \in 1..Len(old), NEW j \in 1..Len(old), i # j
      PROVE  old[i].arm # old[j].arm
  <2>1. pos[i] # pos[j]
    <3>1. i < j \/ j < i
      BY <1>3, <1>5
    <3> QED BY <1>2, <1>4, <3>1 DEF PlacedAt
  <2> QED BY <1>1, <1>4, <2>1 DEF BackedBy
<1>6. ASSUME NEW a \in ArmSet PROVE \E i \in 1..Len(old) : old[i].arm = a
  <2>1. PICK n \in 1..Len(mem.slots) : mem.slots[n] = [block |-> b, arm |-> a, valid |-> TRUE]
    BY <1>1 DEF FinishedBlock
  <2>2. mem.slots[n] \in OfBlock(b)
    BY <2>1 DEF OfBlock
  <2>3. PICK i \in 1..Len(old) : pos[i] = n
    BY <1>2, <2>2 DEF PlacedAt
  <2> QED BY <1>4, <2>1, <2>3
<1>7. Len(old) = Len(Arms)
  <2> DEFINE n == Len(old)
             key == [i \in 1..n |-> old[i].arm]
  <2>1. key \in [1..n -> ArmSet] /\ n \in Nat
    BY <1>3, <1>4
  <2>2. \A i, j \in 1..n : i # j => key[i] # key[j]
    BY <1>5
  <2>3. \A a \in ArmSet : \E i \in 1..n : key[i] = a
    BY <1>6
  <2> HIDE DEF n, key
  <2>4. n = Cardinality(ArmSet)
    BY <2>1, <2>2, <2>3, ArmsAreMany, DistinctKeys
  <2> QED BY <2>4, ArmsAreMany DEF n, K
<1>8. ASSUME NEW i \in 1..Len(old) PROVE old[i].valid /\ old[i].arm \in DOMAIN dirs[b].slots
  <2>1. dirs[b].slots[old[i].arm] /\ old[i].arm \in DOMAIN dirs[b].slots
    BY <1>4 DEF FinishedBlock
  <2>2. dirs[b].slots[old[i].arm] = old[i].valid
    BY <1>1, <1>4 DEF BackedBy
  <2> QED BY <2>1, <2>2
<1>9. dirs[b].common
  <2>1. ArmSet # {}
    BY SomeArm
  <2>2. DOMAIN dirs[b].slots # {}
    BY <2>1 DEF FinishedBlock
  <2> QED BY <2>2 DEF Kernel, Directories
<1> QED BY <1>7, <1>8, <1>9 DEF BlockDone, old

\* So no step touches its directory.
LEMMA FinishedStep ==
  ASSUME Kernel, ~gap, [Next]_vars, NEW b \in Blocks, FinishedBlock(b)
  PROVE  dirs'[b] = dirs[b]
<1>1. Sound /\ Directories /\ ArmSet # {}
  BY SomeArm DEF Kernel
<1>2. DOMAIN dirs[b].slots # {} /\ ArmSet \subseteq DOMAIN dirs[b].slots
  BY <1>1 DEF FinishedBlock
<1>3. CASE Start \/ Resume \/ Truncate \/ Write \/ BlockEnd \/ Finish \/ Abort \/ UNCHANGED vars
  BY <1>3 DEF Start, Resume, Truncate, Write, BlockEnd, Finish, Abort, vars, disk
<1>4. ASSUME NEW c \in Blocks, SkipBlock(c) \/ MoveFails(c) \/ EnterBlock(c) PROVE dirs'[b] = dirs[b]
  BY <1>4 DEF SkipBlock, MoveFails, EnterBlock, disk
<1>5. ASSUME NEW c \in Blocks, MoveAside(c) PROVE dirs'[b] = dirs[b]
  <2>1. pc = "scan" /\ ~BlockDone(c) /\ \A x \in Blocks : x # c => dirs'[x] = dirs[x]
    BY <1>1, <1>5, MoveAsideEffect DEF MoveAside
  <2>2. b # c
    BY <2>1, FinishedIsDone
  <2> QED BY <2>1, <2>2
<1>6. CASE MakeBlock
  <2>1. DOMAIN dirs[cur].slots = {}
    BY <1>1, <1>6 DEF MakeBlock, Directories, Entering, NoDir
  <2> QED BY <1>1, <1>2, <1>6, <2>1, MakeBlockEffect
<1>7. CASE CommonReady
  <2>1. DOMAIN dirs[cur].slots = {}
    BY <1>1, <1>7 DEF CommonReady, Directories
  <2> QED BY <1>1, <1>2, <1>7, <2>1, CommonReadyEffect
<1>8. ASSUME NEW v \in BOOLEAN, RunArm(v) PROVE dirs'[b] = dirs[b]
  <2>1. ThisArm \notin DOMAIN dirs[cur].slots /\ ThisArm \in ArmSet
    BY <1>1, <1>8, RunArmEffect, ThisArmIsNew DEF RunArm, K
  <2> QED BY <1>1, <1>2, <1>8, <2>1, RunArmEffect
<1> QED BY <1>3, <1>4, <1>5, <1>6, <1>7, <1>8 DEF Next, Process

\* A block recorded as finished is left alone by every later run, unless the process
\* died in the window.
THEOREM FinishedBlocksAreLeft == Spec => FinishedBlocksStay
<1>1. Kernel /\ [Next]_vars =>
        [\A b \in Blocks : FinishedBlock(b) /\ ~gap => dirs'[b] = dirs[b]]_vars
  BY FinishedStep
<1> QED BY <1>1, KernelInit, KernelStep, PTL DEF Spec, FinishedBlocksStay
=============================================================================
